---------------------------- MODULE ClientDaemon ----------------------------
(***************************************************************************)
(* The iec-client daemon (test-tools/src/bin/client.rs) on TCP: the cache  *)
(* of last values, the collectors of running interrogations, the waiters   *)
(* of unconfirmed commands, and the control requests that use them.  All   *)
(* of it is DaemonState behind one mutex, which no handler keeps over an   *)
(* await: the steps of different requests and of the dispatch task         *)
(* interleave between the mutex sections.                                  *)
(*                                                                         *)
(* interrogations[k] and cmd_waiters[k] hold at most the request whose     *)
(* channel ends are in the map under key k.  Taking an entry out of the    *)
(* map, or overwriting it, drops the sending end, which its request sees   *)
(* as the signal "dropped".                                                *)
(***************************************************************************)
EXTENDS ServerDaemon

CONSTANTS
  Requests,        \* control requests, 1..n, started in this order
  IntKeys,         \* qualifiers of interrogation in use
  CmdKeys,         \* <type, object> keys of commands in use
  CollectorCap     \* capacity of a collector's channel (256 in the code)

VARIABLES
  pump,            \* run_client104 is running
  cache,           \* DaemonState.cache
  interrogations,  \* DaemonState.interrogations
  cmd_waiters,     \* DaemonState.cmd_waiters
  req,             \* the control requests
  icSent, icEnded  \* history: interrogations sent, terminations dispatched

clientVars ==
  <<pump, cache, interrogations, cmd_waiters, req, icSent, icEnded>>

NotStarted ==
  [op |-> "none", key |-> "none", step |-> "idle", signal |-> "none",
   points |-> [p \in Ioas |-> {}], count |-> 0, sole |-> FALSE,
   response |-> "none"]

ClientInit ==
  /\ pump = TRUE
  /\ cache = [p \in Ioas |-> {}]
  /\ interrogations = [k \in IntKeys |-> {}]
  /\ cmd_waiters = [k \in CmdKeys |-> {}]
  /\ req = [r \in Requests |-> NotStarted]
  /\ icSent = 0 /\ icEnded = 0

(* The sending ends of these requests are dropped. *)
Dropped(rs, reqs) ==
  [r \in Requests |-> IF r \in rs /\ reqs[r].signal = "none"
                      THEN [reqs[r] EXCEPT !.signal = "dropped"] ELSE reqs[r]]

Started(r) == req[r].step # "idle"
Running(r) == req[r].step \notin {"idle", "answered"}

NextRequest(r) == ~Started(r) /\ \A s \in Requests : s < r => Started(s)

Answered(reqs, r, response) ==
  [reqs EXCEPT ![r].step = "answered", ![r].response = response]

-----------------------------------------------------------------------------
(* handle_interrogate *)

StartInterrogate(r, k) ==
  /\ NextRequest(r) /\ Use("request")
  /\ req' = [Dropped(interrogations[k], req) EXCEPT
               ![r].op = "interrogate", ![r].key = k, ![r].step = "registered"]
  /\ interrogations' = [interrogations EXCEPT ![k] = {r}]
  /\ UNCHANGED <<up, toS, toC, pump, cache, cmd_waiters, icSent, icEnded>>

(* ConnSender::send_asdu and the connection task: an ASDU for a closed      *)
(* connection whose task still runs is accepted and lost.                   *)
SendToS(asdu) == toS' = IF up THEN Append(toS, asdu) ELSE toS

SendInterrogation(r) ==
  /\ req[r].op = "interrogate" /\ req[r].step = "registered" /\ pump
  /\ SendToS(Asdu("interrogation", "act", req[r].key))
  /\ icSent' = icSent + 1
  /\ req' = [req EXCEPT ![r].step = "waiting"]
  /\ UNCHANGED <<up, toC, pump, cache, interrogations, cmd_waiters, icEnded, left>>

(* "send failed": the entry under the key goes, whoever put it there. *)
InterrogationSendFails(r) ==
  /\ req[r].op = "interrogate" /\ req[r].step = "registered" /\ ~pump
  /\ req' = Answered(Dropped(interrogations[req[r].key], req), r, "send failed")
  /\ interrogations' = [interrogations EXCEPT ![req[r].key] = {}]
  /\ UNCHANGED <<up, toS, toC, pump, cache, cmd_waiters, icSent, icEnded, left>>

(* ACTTERM or the loss of the sending end; then the 50 ms of draining. *)
InterrogationSignalled(r) ==
  /\ req[r].op = "interrogate" /\ req[r].step = "waiting" /\ req[r].signal # "none"
  /\ req' = [req EXCEPT ![r].step = "draining"]
  /\ UNCHANGED <<up, toS, toC, pump, cache, interrogations, cmd_waiters,
                 icSent, icEnded, left>>

InterrogationExpires(r) ==
  /\ req[r].op = "interrogate" /\ req[r].step = "waiting"
  /\ req' = [req EXCEPT ![r].step = "draining"]
  /\ UNCHANGED <<up, toS, toC, pump, cache, interrogations, cmd_waiters,
                 icSent, icEnded, left>>

FinishInterrogate(r) ==
  /\ req[r].step = "draining"
  /\ req' = Answered(Dropped(interrogations[req[r].key], req), r, "points")
  /\ interrogations' = [interrogations EXCEPT ![req[r].key] = {}]
  /\ UNCHANGED <<up, toS, toC, pump, cache, cmd_waiters, icSent, icEnded, left>>

-----------------------------------------------------------------------------
(* send_command_and_wait, for handle_cmd_single, _double, _regulating and   *)
(* _setpoint.                                                                *)

StartCommand(r, k) ==
  /\ NextRequest(r) /\ Use("request")
  /\ req' = [Dropped(cmd_waiters[k], req) EXCEPT
               ![r].op = "command", ![r].key = k, ![r].step = "registered"]
  /\ cmd_waiters' = [cmd_waiters EXCEPT ![k] = {r}]
  /\ UNCHANGED <<up, toS, toC, pump, cache, interrogations, icSent, icEnded>>

SendCommand(r) ==
  /\ req[r].op = "command" /\ req[r].step = "registered" /\ pump
  /\ SendToS(Asdu("command", "act", req[r].key))
  /\ req' = [req EXCEPT ![r].step = "waiting"]
  /\ UNCHANGED <<up, toC, pump, cache, interrogations, cmd_waiters, icSent, icEnded, left>>

(* The entry under the key goes, whoever put it there. *)
RemoveWaiter(r, response) ==
  /\ req' = Answered(Dropped(cmd_waiters[req[r].key], req), r, response)
  /\ cmd_waiters' = [cmd_waiters EXCEPT ![req[r].key] = {}]
  /\ UNCHANGED <<up, toS, toC, pump, cache, interrogations, icSent, icEnded, left>>

CommandSendFails(r) ==
  /\ req[r].op = "command" /\ req[r].step = "registered" /\ ~pump
  /\ RemoveWaiter(r, "send failed")

CommandSignalled(r) ==
  /\ req[r].op = "command" /\ req[r].step = "waiting" /\ req[r].signal # "none"
  /\ req' = Answered(req, r, req[r].signal)
  /\ UNCHANGED <<up, toS, toC, pump, cache, interrogations, cmd_waiters,
                 icSent, icEnded, left>>

CommandExpires(r) ==
  /\ req[r].op = "command" /\ req[r].step = "waiting" /\ req[r].signal = "none"
  /\ req' = [req EXCEPT ![r].step = "expired"]
  /\ UNCHANGED <<up, toS, toC, pump, cache, interrogations, cmd_waiters,
                 icSent, icEnded, left>>

(* Mutant: the waiter stays in the map. *)
CommandTimesOutLeaving(r) ==
  /\ req[r].step = "expired"
  /\ req' = Answered(req, r, "timeout")
  /\ UNCHANGED <<up, toS, toC, pump, cache, interrogations, cmd_waiters,
                 icSent, icEnded, left>>

(* The mutex is taken after the timeout: another command may be in between. *)
CommandTimesOut(r) ==
  /\ req[r].step = "expired"
  /\ RemoveWaiter(r, "timeout")

-----------------------------------------------------------------------------
(* process_asdu, run by the dispatch task.  *)

(* ACTTERM of an interrogation, whatever its qualifier: every collector of  *)
(* the common address is told.  sole is history: r's own request is the     *)
(* only one the server had not terminated before.                           *)
Collecting == UNION {interrogations[k] : k \in IntKeys}

EndInterrogations ==
  /\ req' = [r \in Requests |->
               IF r \in Collecting /\ req[r].signal = "none"
               THEN [req[r] EXCEPT
                       !.signal = "term",
                       !.sole = req[r].step = "waiting" /\ icSent = icEnded + 1]
               ELSE req[r]]
  /\ icEnded' = icEnded + 1
  /\ UNCHANGED <<cache, cmd_waiters>>

(* ACTCON of a command: the waiter under its key. *)
ConfirmCommand(k) ==
  /\ req' = [r \in Requests |->
               IF r \in cmd_waiters[k] THEN [req[r] EXCEPT !.signal = "ok"]
               ELSE req[r]]
  /\ cmd_waiters' = [cmd_waiters EXCEPT ![k] = {}]
  /\ UNCHANGED <<cache, icEnded>>

(* Mutant: the channel has no capacity. *)
FeedInterrogationUnbounded(p, data) ==
  [r \in Requests |->
     IF r \in Collecting THEN [req[r] EXCEPT !.points[p] = {data}, !.count = @ + 1]
     ELSE req[r]]

(* feed_interrogation: try_send, which a full channel refuses. *)
FeedInterrogation(p, data) ==
  [r \in Requests |->
     IF r \in Collecting /\ req[r].count < CollectorCap
     THEN [req[r] EXCEPT !.points[p] = {data}, !.count = @ + 1]
     ELSE req[r]]

UpdatePoint(p, data) ==
  /\ cache' = [cache EXCEPT ![p] = {data}]
  /\ req' = FeedInterrogation(p, data)
  /\ UNCHANGED <<cmd_waiters, icEnded>>

(* Mutant: the confirmation of an interrogation is taken for its end. *)
ProcessAsduAnyCause ==
  /\ toC # << >> /\ toC' = Tail(toC)
  /\ LET m == Head(toC)
     IN CASE m.type = "interrogation" -> EndInterrogations
          [] m.type = "command" /\ m.cause = "con" -> ConfirmCommand(m.key)
          [] m.type = "point" -> UpdatePoint(m.ioa, m.data)
          [] OTHER -> UNCHANGED <<req, cache, cmd_waiters, icEnded>>
  /\ UNCHANGED <<up, toS, pump, interrogations, icSent, left>>

ProcessAsdu ==
  /\ toC # << >> /\ toC' = Tail(toC)
  /\ LET m == Head(toC)
     IN CASE m.type = "interrogation" /\ m.cause = "term" -> EndInterrogations
          [] m.type = "command" /\ m.cause = "con" /\ m.key \in CmdKeys ->
               ConfirmCommand(m.key)
          [] m.type = "point" -> UpdatePoint(m.ioa, m.data)
          [] OTHER -> UNCHANGED <<req, cache, cmd_waiters, icEnded>>
  /\ UNCHANGED <<up, toS, pump, interrogations, icSent, left>>

-----------------------------------------------------------------------------
(* run_client104 ends on the Closed event. *)
PumpEnds ==
  /\ ~up /\ pump
  /\ pump' = FALSE
  /\ UNCHANGED <<up, toS, toC, cache, interrogations, cmd_waiters, req,
                 icSent, icEnded, left>>

(* A system ASDU, which the client daemon has no request for. *)
SendSystem ==
  /\ up /\ Use("system")
  /\ SendToS(Asdu("system", "act", "none"))
  /\ UNCHANGED <<up, toC, pump, cache, interrogations, cmd_waiters, req, icSent, icEnded>>

RequestStep(r) ==
  \/ SendInterrogation(r) \/ InterrogationSendFails(r)
  \/ InterrogationSignalled(r) \/ InterrogationExpires(r) \/ FinishInterrogate(r)
  \/ SendCommand(r) \/ CommandSendFails(r)
  \/ CommandSignalled(r) \/ CommandExpires(r) \/ CommandTimesOut(r)

ClientNext ==
  \/ \E r \in Requests, k \in IntKeys : StartInterrogate(r, k)
  \/ \E r \in Requests, k \in CmdKeys : StartCommand(r, k)
  \/ \E r \in Requests : RequestStep(r)
  \/ ProcessAsdu
  \/ PumpEnds
  \/ SendSystem

=============================================================================
