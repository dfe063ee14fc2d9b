----------------------------- MODULE JobUpdates -----------------------------
(***************************************************************************)
(* The WebSocket side of AI jobs: the endpoint /ws/jobs/{job_id}           *)
(* (endpoints/websocket.py) and the ConnectionManager it registers with    *)
(* (core/websocket.py), composed with TourAiJobs, whose Notify step sends  *)
(* the messages.                                                           *)
(*                                                                         *)
(* A client that connects is sent the status its handler read before it    *)
(* registered the socket; from then on it hears what the runner reports.   *)
(* cancel_ai_job sends nothing.  Of a message only its status is kept; the *)
(* duplicate that broadcast_job_completion sends is one with the update.   *)
(***************************************************************************)
EXTENDS TourAiJobs

CONSTANTS Sockets,      \* connections that clients open
          Watches       \* the job each of them asks for

ASSUME WatchesAssumption == Watches \in [Sockets -> Jobs]

VARIABLES sock,         \* where the socket's handler is
          snapshot,     \* the status the handler read from the job
          joined,       \* job_connections: sockets registered for a job
          heard         \* the status in the last message the client got

sockVars == <<sock, snapshot, joined, heard>>

(* "dead": the client is gone and the handler has not noticed;             *)
(* "orphan": the first send failed, outside the handler's try/finally.     *)
SockStates == {"idle", "authorized", "registered", "live", "dead", "orphan", "closed"}

JInit == /\ Init
         /\ sock     = [s \in Sockets |-> "idle"]
         /\ snapshot = [s \in Sockets |-> "absent"]
         /\ joined   = [j \in Jobs |-> {}]
         /\ heard    = [s \in Sockets |-> "nothing"]

Move(s, from, to) == sock[s] = from /\ sock' = [sock EXCEPT ![s] = to]

(* get_ai_job succeeds: the handler holds what the row said. *)
ReadJob(s) == /\ row[Watches[s]] # NoRow
              /\ Move(s, "idle", "authorized")
              /\ snapshot' = [snapshot EXCEPT ![s] = row[Watches[s]].status]
              /\ UNCHANGED <<joined, heard>>

(* Faulty variant: every client gets a fresh set of its own. *)
ConnectJobAlone(s) == /\ Move(s, "authorized", "registered")
                      /\ joined' = [joined EXCEPT ![Watches[s]] = {s}]
                      /\ UNCHANGED <<snapshot, heard>>

(* manager.connect_job, under the manager's lock. *)
ConnectJob(s) == /\ Move(s, "authorized", "registered")
                 /\ joined' = [joined EXCEPT ![Watches[s]] = @ \cup {s}]
                 /\ UNCHANGED <<snapshot, heard>>

SendSnapshot(s) == /\ Move(s, "registered", "live")
                   /\ heard' = [heard EXCEPT ![s] = snapshot[s]]
                   /\ UNCHANGED <<snapshot, joined>>

(* The client is gone before the first message: the exception leaves the   *)
(* handler without passing disconnect_job.                                 *)
SendSnapshotFails(s) == /\ Move(s, "registered", "orphan")
                        /\ UNCHANGED <<snapshot, joined, heard>>

ClientLeaves(s) == /\ Move(s, "live", "dead")
                   /\ UNCHANGED <<snapshot, joined, heard>>

(* disconnect_job in the handler's finally clause. *)
DisconnectJob(s) == /\ Move(s, "dead", "closed")
                    /\ joined' = [joined EXCEPT ![Watches[s]] = @ \ {s}]
                    /\ UNCHANGED <<snapshot, heard>>

(* send_job_update to the sockets registered now.  One whose client is     *)
(* gone is skipped and stays registered (its client_state says so), or the *)
(* send raises and it is removed; its handler ends as usual.               *)
Deliver(j) == LET open == {s \in joined[j] : sock[s] \in {"registered", "live"}}
              IN /\ heard' = [s \in Sockets |->
                                IF s \in open THEN intent[j].status ELSE heard[s]]
                 /\ \E raised \in SUBSET (joined[j] \ open) :
                      joined' = [joined EXCEPT ![j] = @ \ raised]
                 /\ UNCHANGED <<sock, snapshot>>

(* A restart closes every connection. *)
DropSockets == /\ sock' = [s \in Sockets |-> IF sock[s] = "idle" THEN "idle" ELSE "closed"]
               /\ joined' = [j \in Jobs |-> {}]
               /\ UNCHANGED <<snapshot, heard>>

Handler(s) == ConnectJob(s) \/ SendSnapshot(s) \/ DisconnectJob(s)
SocketStep == \E s \in Sockets : ReadJob(s) \/ Handler(s) \/ SendSnapshotFails(s) \/ ClientLeaves(s)

(* The steps of TourAiJobs that send no message. *)
Quiet == \E j \in Jobs :
           \/ CreateJob(j) \/ SpawnTask(j) \/ RequestFails(j) \/ Acquire(j)
           \/ SelectRow(j) \/ CommitRow(j) \/ RefreshRow(j)
           \/ Work(j) \/ DatabaseError(j) \/ CancelRead(j) \/ CancelWrite(j)

JNext == \/ Quiet /\ UNCHANGED sockVars
         \/ \E j \in Jobs : Notify(j) /\ Deliver(j)
         \/ Crash /\ DropSockets
         \/ SocketStep /\ UNCHANGED vars

JSpec == JInit /\ [][JNext]_<<vars, sockVars>>

-----------------------------------------------------------------------------

(* A client past its snapshot that was told that its job completed or      *)
(* failed is told nothing else later: no late "processing" follows the end *)
(* (core/websocket.py send_job_update, websocket.py:100).                  *)
EndIsHeardLast ==
  [][\A s \in Sockets : sock[s] = "live" /\ heard[s] \in {"completed", "failed"}
                          => heard'[s] = heard[s]]_<<vars, sockVars>>

(* However other clients come, go or die without a word, each update a     *)
(* runner sends reaches every client of its job that is past its snapshot, *)
(* and no client of another job (connect_job, disconnect_job and the       *)
(* clean-up of send_job_update share one set per job).                     *)
Sends(j) == pc[j] = "notify" /\ pc'[j] \in {"work", "done"}
UpdatesReachEveryClient ==
  [][\A j \in Jobs : Sends(j) =>
       \A s \in Sockets : sock[s] = "live" =>
         heard'[s] = IF Watches[s] = j THEN intent[j].status ELSE heard[s]]_<<vars, sockVars>>
=============================================================================
