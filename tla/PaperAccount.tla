---------------------------- MODULE PaperAccount ----------------------------
(***************************************************************************)
(* What paper trading promises of a session, with no tasks, locks or        *)
(* frameworks: an account that one update at a time changes in one step.    *)
(* PaperTrading implements it.                                              *)
(***************************************************************************)
EXTENDS Integers, SequencesExt

CONSTANTS Sessions, InitialCash

VARIABLE accounts   \* per session: its state, equity curve, fills and the ledger
                    \* of its portfolio

Ended == {"completed", "cancelled", "failed"}

NewAccount ==
    [state |-> "unregistered", equity |-> <<InitialCash>>, fills |-> <<>>, ledger |-> <<>>]

\* new is old and n more elements.
Extends(old, new, n) == IsPrefix(old, new) /\ Len(new) = Len(old) + n

AccountInit == accounts = [s \in Sessions |-> NewAccount]

\* An update adds a point to the equity curve and at most a fill, of which the
\* portfolio books a trade unless it refuses it.
Update(s) ==
    LET old == accounts[s]
        new == accounts'[s]
    IN  /\ old.state \notin Ended
        /\ new.state \in {"running", "completed"}
        /\ Extends(old.equity, new.equity, 1)
        /\ \E n \in {0, 1} :
              /\ Extends(old.fills, new.fills, n)
              /\ \E m \in 0 .. n : Extends(old.ledger, new.ledger, m)

\* A session is cancelled as it stands.
CancelSession(s) ==
    /\ accounts[s].state \notin Ended
    /\ accounts'[s] = [accounts[s] EXCEPT !.state = "cancelled"]

AccountNext ==
    \E s \in Sessions :
        /\ Update(s) \/ CancelSession(s)
        /\ \A other \in Sessions \ {s} : UNCHANGED accounts[other]

AccountSpec == AccountInit /\ [][AccountNext]_accounts
=============================================================================
