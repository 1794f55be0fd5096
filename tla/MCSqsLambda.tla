---------------------------- MODULE MCSqsLambda ----------------------------
EXTENDS SqsLambda

CONSTANTS up, down

\* Three messages, back and forth, and one notification by HTTP.
MCField == <<up, down, up>>
MCPayloads == ((1..3) \X (1..MaxReceive)) \cup {<<0, 1>>}

\* The first flip is tolerated, so that a write may fail unnoticed, and the
\* second is forwarded.
MCFlaps == {[WindowSeconds |-> 1, SuppressBelow |-> 1, AggregateAt |-> 0,
             AggregateMaxItems |-> 0, AggregateCooldownSeconds |-> 0]}
=============================================================================
