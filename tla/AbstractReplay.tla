----------------------------- MODULE AbstractReplay -----------------------------
(***************************************************************************)
(* What the replay client promises the search (replay_cli.h): a "magic"    *)
(* class that, asked to test a rewrite, returns a vector with what that    *)
(* rewrite did in each worker; or that ends the program.                   *)
(***************************************************************************)
EXTENDS Naturals, Sequences

CONSTANTS
    Worker, Test,       \* Test: the first so many numbers
    Verdict             \* of <<w, t>>, what the rewrite of test t does in worker w

VARIABLES
    status,             \* "idle", "testing" or "ended"
    workers,            \* the workers that test
    test,               \* the number of the current test, or of the last
    results             \* what the last test returned

vars == <<status, workers, test, results>>

Init ==
    /\ status = "idle"
    /\ workers = <<>>
    /\ test = 0
    /\ results = <<>>

Connect ==
    /\ status = "idle"
    /\ test = 0
    /\ \E w \in Worker : workers' = Append(workers, w)
    /\ UNCHANGED <<status, test, results>>

Begin ==
    /\ status = "idle"
    /\ status' = "testing"
    /\ test + 1 \in Test
    /\ test' = test + 1
    /\ results' = <<>>
    /\ UNCHANGED workers

Answer ==
    /\ status = "testing"
    /\ status' = "idle"
    /\ results' = [i \in DOMAIN workers |-> [test |-> test, what |-> Verdict[<<workers[i], test>>]]]
    /\ UNCHANGED <<workers, test>>

End ==
    /\ status' = "ended"
    /\ results' = <<>>
    /\ UNCHANGED <<workers, test>>

Next == Connect \/ Begin \/ Answer \/ End

Spec == Init /\ [][Next]_vars
===============================================================================
