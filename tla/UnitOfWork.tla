----------------------------- MODULE UnitOfWork -----------------------------
(***************************************************************************)
(* The database session a REST request works in: app/core/database.py.     *)
(* get_db opens an AsyncSession (autoflush and expire_on_commit are off),  *)
(* yields it to the endpoint, and after the endpoint has returned commits  *)
(* only if session.new, session.dirty or session.deleted is not empty.     *)
(* A service moves its changes out of those three collections with         *)
(* session.flush(), which sends them to the open transaction, makes them   *)
(* durable at once with session.commit(), or takes them back with          *)
(* session.rollback() and goes on.                                         *)
(*                                                                         *)
(* A change is an abstract element of Changes; that two requests write the *)
(* same row, and the row locks that follow, are left out.                  *)
(***************************************************************************)
EXTENDS FiniteSets

CONSTANTS Requests,     \* requests served concurrently
          Changes       \* the ORM changes a request may make

VARIABLES phase,      \* where the request's session is in its life
          pending,    \* changes in session.new / dirty / deleted
          flushed,    \* changes sent to the open transaction
          durable,    \* changes committed to the database
          explicit,   \* history: changes committed by the service itself
          made,       \* history: every change the request made
          undone      \* history: changes the service rolled back itself

vars == <<phase, pending, flushed, durable, explicit, made, undone>>

(* "returned" : the endpoint returned and the response 200 went out; the   *)
(*              dependency's exit code has not run yet                     *)
(* "raising"  : an exception is on its way to the dependency               *)
(* "lost"     : the exit commit failed after the response had gone out     *)
Phases == {"idle", "open", "returned", "raising", "closed", "failed", "lost"}

Init == /\ phase    = [r \in Requests |-> "idle"]
        /\ pending  = [r \in Requests |-> {}]
        /\ flushed  = [r \in Requests |-> {}]
        /\ durable  = [r \in Requests |-> {}]
        /\ explicit = [r \in Requests |-> {}]
        /\ made     = [r \in Requests |-> {}]
        /\ undone   = [r \in Requests |-> {}]

-----------------------------------------------------------------------------
(* What the session library does. *)

(* commit() flushes what is pending and commits the open transaction. *)
CommitAll(r) == /\ durable' = [durable EXCEPT ![r] = @ \cup pending[r] \cup flushed[r]]
                /\ pending' = [pending EXCEPT ![r] = {}]
                /\ flushed' = [flushed EXCEPT ![r] = {}]

(* rollback(), and close() of a session whose transaction is open, drop    *)
(* whatever was not committed.                                             *)
DropAll(r) == /\ pending' = [pending EXCEPT ![r] = {}]
              /\ flushed' = [flushed EXCEPT ![r] = {}]
              /\ UNCHANGED durable

Become(r, p) == phase' = [phase EXCEPT ![r] = p]

-----------------------------------------------------------------------------
(* The endpoint and the services it calls. *)

Open(r) == /\ phase[r] = "idle"
           /\ Become(r, "open")
           /\ UNCHANGED <<pending, flushed, durable, explicit, made, undone>>

Change(r, c) == /\ phase[r] = "open"
                /\ c \notin made[r]
                /\ pending' = [pending EXCEPT ![r] = @ \cup {c}]
                /\ made' = [made EXCEPT ![r] = @ \cup {c}]
                /\ UNCHANGED <<phase, flushed, durable, explicit, undone>>

(* Faulty variant: the batch is added as one element. *)
FlushAppends(r) == /\ phase[r] = "open"
                   /\ pending[r] # {}
                   /\ flushed' = [flushed EXCEPT ![r] = @ \cup {pending[r]}]
                   /\ pending' = [pending EXCEPT ![r] = {}]
                   /\ UNCHANGED <<phase, durable, explicit, made, undone>>

Flush(r) == /\ phase[r] = "open"
            /\ pending[r] # {}
            /\ flushed' = [flushed EXCEPT ![r] = @ \cup pending[r]]
            /\ pending' = [pending EXCEPT ![r] = {}]
            /\ UNCHANGED <<phase, durable, explicit, made, undone>>

ServiceCommit(r) == /\ phase[r] = "open"
                    /\ CommitAll(r)
                    /\ explicit' = [explicit EXCEPT ![r] = @ \cup pending[r] \cup flushed[r]]
                    /\ UNCHANGED <<phase, made, undone>>

(* rollback() by a service or a dependency that catches the error and goes *)
(* on (user.py:335, dependencies/auth.py:60, search_orchestration.py:156): *)
(* everything since the last commit goes. Leaving a savepoint by an error  *)
(* is the same for what was made inside it: begin_nested() flushed what    *)
(* was pending before, so what is pending was made inside.                 *)
ServiceRollback(r) == /\ phase[r] = "open"
                      /\ \E inside \in SUBSET flushed[r] :
                           /\ flushed' = [flushed EXCEPT ![r] = @ \ inside]
                           /\ undone' = [undone EXCEPT ![r] = @ \cup pending[r] \cup inside]
                      /\ pending' = [pending EXCEPT ![r] = {}]
                      /\ UNCHANGED <<phase, durable, explicit, made>>

(* The endpoint returns; FastAPI sends the response before it resumes the  *)
(* dependency that yielded the session.                                    *)
Return(r) == /\ phase[r] = "open"
             /\ Become(r, "returned")
             /\ UNCHANGED <<pending, flushed, durable, explicit, made, undone>>

(* An HTTPException of the service, or any other exception: a failed flush *)
(* or commit of the service included.                                      *)
Raise(r) == /\ phase[r] = "open"
            /\ Become(r, "raising")
            /\ UNCHANGED <<pending, flushed, durable, explicit, made, undone>>

-----------------------------------------------------------------------------
(* The exit code of get_db. *)

HasPendingChanges(r) == pending[r] # {}

(* Faulty variant: the commit runs in a transaction of its own, without    *)
(* what was flushed before.                                                *)
ExitCommitPendingOnly(r) == /\ phase[r] = "returned"
                            /\ HasPendingChanges(r)
                            /\ durable' = [durable EXCEPT ![r] = @ \cup pending[r]]
                            /\ pending' = [pending EXCEPT ![r] = {}]
                            /\ flushed' = [flushed EXCEPT ![r] = {}]
                            /\ Become(r, "closed")
                            /\ UNCHANGED <<explicit, made, undone>>

ExitCommit(r) == /\ phase[r] = "returned"
                 /\ HasPendingChanges(r)
                 /\ CommitAll(r)
                 /\ Become(r, "closed")
                 /\ UNCHANGED <<explicit, made, undone>>

(* The commit of the exit code raises: nothing catches it in the else      *)
(* branch, and the session is closed on the way out.                       *)
ExitCommitFails(r) == /\ phase[r] = "returned"
                      /\ HasPendingChanges(r)
                      /\ DropAll(r)
                      /\ Become(r, "lost")
                      /\ UNCHANGED <<explicit, made, undone>>

(* No pending change: the exit code commits nothing and the session is     *)
(* closed.                                                                 *)
ExitClean(r) == /\ phase[r] = "returned"
                /\ ~HasPendingChanges(r)
                /\ DropAll(r)
                /\ Become(r, "closed")
                /\ UNCHANGED <<explicit, made, undone>>

(* Faulty variant: the exception path commits instead of rolling back.     *)
ExitRollbackCommits(r) == /\ phase[r] = "raising"
                          /\ CommitAll(r)
                          /\ Become(r, "failed")
                          /\ UNCHANGED <<explicit, made, undone>>

ExitRollback(r) == /\ phase[r] = "raising"
                   /\ DropAll(r)
                   /\ Become(r, "failed")
                   /\ UNCHANGED <<explicit, made, undone>>

Exit(r) == ExitCommit(r) \/ ExitCommitFails(r) \/ ExitClean(r) \/ ExitRollback(r)

Next == \E r \in Requests :
          \/ Open(r)
          \/ \E c \in Changes : Change(r, c)
          \/ Flush(r)
          \/ ServiceCommit(r)
          \/ ServiceRollback(r)
          \/ Return(r)
          \/ Raise(r)
          \/ Exit(r)

Spec == Init /\ [][Next]_vars

-----------------------------------------------------------------------------
(* Type invariant of the session state (app/core/database.py). *)
TypeOK == /\ phase    \in [Requests -> Phases]
          /\ pending  \in [Requests -> SUBSET Changes]
          /\ flushed  \in [Requests -> SUBSET Changes]
          /\ durable  \in [Requests -> SUBSET Changes]
          /\ explicit \in [Requests -> SUBSET Changes]
          /\ made     \in [Requests -> SUBSET Changes]
          /\ undone   \in [Requests -> SUBSET Changes]

(* A request that failed, and one whose exit commit failed after the       *)
(* response had gone out, leave in the database only what their service    *)
(* committed on its own: nothing of the last transaction stays.            *)
FailedLeavesOnlyExplicit ==
  \A r \in Requests : phase[r] \in {"failed", "lost"} => durable[r] = explicit[r]

(* The exit code never splits the last transaction: when it commits,       *)
(* everything the request made and its services did not take back is       *)
(* durable, the changes flushed earlier included, and nothing they took    *)
(* back is.                                                                *)
ExitIsAllOrNothing ==
  [][\A r \in Requests :
       phase[r] = "returned" /\ durable'[r] # durable[r]
         => durable'[r] = made[r] \ undone[r]]_vars

(* What the test of get_db says of it (tests/unit/core/                    *)
(* test_database_session.py:56): a request that mutated state must still   *)
(* commit on clean exit. get_db sees only changes nobody flushed.          *)
MutatingRequestCommits ==
  \A r \in Requests : phase[r] = "closed" => durable[r] = made[r] \ undone[r]
=============================================================================
