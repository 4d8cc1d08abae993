-------------------------- MODULE ObjectLifecycle --------------------------
(***************************************************************************)
(* What the binder promises of the files in its object store, whatever     *)
(* tables, transactions and jobs keep the promise.                         *)
(*                                                                         *)
(* A key is new until a request saves a file under it.  The request holds  *)
(* the file until it commits a row that names it, which makes the file     *)
(* wanted, or ends without one, which makes it garbage.  A wanted file is  *)
(* garbage once the last row that names it is gone.  Only garbage is       *)
(* erased, garbage is never wanted again, and no key is used twice.        *)
(***************************************************************************)
CONSTANT Key

VARIABLES
    use,    \* what each key is to the binder
    files   \* the keys that have a file

vars == <<use, files>>

Uses == {"new", "held", "wanted", "garbage"}
Wanted == {k \in Key : use[k] = "wanted"}

\* Scores of earlier versions are there from the start.
Init == use \in [Key -> {"new", "wanted"}] /\ files = Wanted

Save(k) ==
    /\ use[k] = "new"
    /\ use' = [use EXCEPT ![k] = "held"] /\ files' = files \cup {k}

\* A row that names k is committed; what it replaces is no longer wanted.
Keep(k, dropped) ==
    /\ use[k] = "held" /\ dropped \subseteq Wanted
    /\ use' = [j \in Key |-> IF j = k THEN "wanted" ELSE IF j \in dropped THEN "garbage" ELSE use[j]]
    /\ files' = files

GiveUp(k) ==
    /\ use[k] = "held"
    /\ use' = [use EXCEPT ![k] = "garbage"] /\ files' = files

Release(dropped) ==
    /\ dropped \subseteq Wanted
    /\ use' = [j \in Key |-> IF j \in dropped THEN "garbage" ELSE use[j]]
    /\ files' = files

Erase(k) ==
    /\ use[k] = "garbage"
    /\ files' = files \ {k} /\ use' = use

Next ==
    \/ \E k \in Key : \/ Save(k) \/ GiveUp(k) \/ Erase(k)
                      \/ \E dropped \in SUBSET Wanted : Keep(k, dropped)
    \/ \E dropped \in SUBSET Wanted : Release(dropped)

Spec == Init /\ [][Next]_vars

\* Every file that is wanted, or that a request holds, is there.
NeededFilesExist == \A k \in Key : use[k] \in {"held", "wanted"} => k \in files

=============================================================================
