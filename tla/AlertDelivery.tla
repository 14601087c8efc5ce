--------------------------- MODULE AlertDelivery ---------------------------
(***************************************************************************)
(* What the alert outbox promises for each dispatch (one event to one      *)
(* sink), with no lease, worker, clock or table in sight: it is tried at   *)
(* most MaxAttempts times; it is marked delivered only if its receiver was *)
(* told of it, and given up only when every try is used; and a dispatch    *)
(* that has ended stays as it ended until it is forgotten.                 *)
(***************************************************************************)
EXTENDS Naturals

CONSTANTS Items,         \* the dispatches
          MaxAttempts    \* tries each of them gets

VARIABLES stage, tries, told

deliveryVars == <<stage, tries, told>>

Ended == {"delivered", "skipped", "dead_lettered", "reset"}

DeliveryInit == /\ stage = [i \in Items |-> "absent"]
                /\ tries = [i \in Items |-> 0]
                /\ told  = [i \in Items |-> FALSE]

Keeps(i) == stage'[i] = stage[i]

\* What one step may do to item i.
Open(i)   == stage[i] = "absent" /\ stage'[i] = "open" /\ tries'[i] = tries[i] /\ told'[i] = told[i]
Try(i)    == stage[i] = "open" /\ Keeps(i) /\ tries[i] < MaxAttempts
             /\ tries'[i] = tries[i] + 1 /\ told'[i] = told[i]
Tell(i)   == tries[i] > 0 /\ told'[i] /\ Keeps(i) /\ tries'[i] = tries[i]
End(i)    == /\ stage[i] = "open"
             /\ \/ stage'[i] = "delivered" /\ told[i]
                \/ stage'[i] = "skipped" /\ tries[i] > 0
                \/ stage'[i] = "dead_lettered" /\ tries[i] = MaxAttempts
                \/ stage'[i] = "reset"
             /\ tries'[i] = tries[i] /\ told'[i] = told[i]
Forget(i) == /\ stage[i] \in Ended \cup {"absent"} /\ stage'[i] = "forgotten"
             /\ tries'[i] = tries[i] /\ told'[i] = told[i]
Rest(i)   == Keeps(i) /\ tries'[i] = tries[i] /\ told'[i] = told[i]

\* Items are independent: one step of the outbox may move several of them.
DeliveryNext == \A i \in Items : \/ Open(i) \/ Try(i) \/ Tell(i)
                                 \/ End(i) \/ Forget(i) \/ Rest(i)

DeliverySpec == DeliveryInit /\ [][DeliveryNext]_deliveryVars

-----------------------------------------------------------------------------
(* What follows for each item, whatever implements these steps *)

\* What an item looks like says what has happened to it: the receiver of a delivered
\* one was told, every try of a dead-lettered one is used, a skipped one was tried,
\* nobody is told before a try, and nothing has happened to an absent one.
Truthful == \A i \in Items :
    /\ tries[i] \in 0..MaxAttempts
    /\ stage[i] = "delivered" => told[i]
    /\ stage[i] = "dead_lettered" => tries[i] = MaxAttempts
    /\ stage[i] = "skipped" \/ told[i] => tries[i] > 0
    /\ stage[i] = "absent" => tries[i] = 0

\* What a step may never do: try an item that is not open, open one again, change how
\* one ended, take back a try, or make a receiver forget.
Irrevocable == \A i \in Items :
    /\ stage[i] # "open" => tries'[i] = tries[i]
    /\ stage[i] \in Ended => stage'[i] \in {stage[i], "forgotten"}
    /\ stage[i] = "forgotten" => stage'[i] = "forgotten"
    /\ stage'[i] = "absent" => stage[i] = "absent"
    /\ tries'[i] \in {tries[i], tries[i] + 1}
    /\ told[i] => told'[i]
=============================================================================
