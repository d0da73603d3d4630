--------------------------- MODULE ClientsProofs ---------------------------
(***************************************************************************)
(* What those who use the server may rely on, for every value of the       *)
(* parameters.  Of DebugChannel, the CLI: the session of a key that is no  *)
(* longer valid is about to be closed, and a session that is connected     *)
(* uses the key chosen last.  Of Clients, the callers of tools: what they  *)
(* hear is what the tool said.  The two modules have no name in common.    *)
(***************************************************************************)
EXTENDS DebugChannel, Clients, Sequences, TLAPS

-----------------------------------------------------------------------------
(* DebugChannel: the key of a debugged plugin, for every number of calls,  *)
(* keys, faults and edits                                                  *)

(* The CLI waits for an exchange only while its loop does.                 *)
ExchangeWaits == calls[Cli].at # "free" => phase = "exchange"

Handlers == Calls \cup {Cli}

(* What a handler of the server changes.                                   *)
StepOfServer ==
  \/ Lookup
  \/ \E c \in Handlers : Serve(c) \/ NodeCrashes(c)
  \/ \E c \in Calls, op \in Operations : Begin(c, op)

(* The connect loop; its user; the watcher.                                *)
StepOfLoop ==
  \/ TakesKey \/ Exchanged \/ ExchangeFails \/ Opens \/ Bind \/ BoundArrives
  \/ SocketLost \/ SocketClosed \/ SessionEnds \/ Reconnect
StepOfUser == Interrupt \/ ConfigureKey
StepOfWatch == LoadTargets \/ Edit \/ Debounce \/ Reload

LEMMA Steps == ASSUME Next PROVE StepOfServer \/ StepOfLoop \/ StepOfUser \/ StepOfWatch
BY DEF Next, Step, StepOfServer, StepOfLoop, StepOfUser, StepOfWatch, Handlers

(* The values a handler and a session take.                                *)
LEMMA CallTypes ==
  /\ Free \in CallRecord
  /\ \A op \in Operations : [Free EXCEPT !.at = "read", !.op = op] \in CallRecord
  /\ [Free EXCEPT !.at = "lookup", !.op = "exchange"] \in CallRecord
  /\ [Free EXCEPT !.at = "accepted"] \in CallRecord
  /\ \A call \in CallRecord : [Free EXCEPT !.at = "done", !.op = call.op] \in CallRecord
  /\ \A call \in CallRecord, at \in {"read", "refused", "status"} : [call EXCEPT !.at = at] \in CallRecord
BY DEF Free, CallRecord, Operations

LEMMA FaultTypes == ASSUME TypeOK, Fault PROVE faults' \in 0..MaxFaults
BY ChannelAssumption DEF TypeOK, Fault

(* Where a handler goes on from what it read.                              *)
LEMMA ContinuesAt ==
  ASSUME NEW op, NEW seen \in Records \cup {None}
  PROVE  /\ Continues(op, seen) \in {"refused", "status", "save", "done", "write"}
         /\ Continues(op, seen) = "save" => seen \in Records
BY DEF Continues

(* One handler moves, the others do not.                                   *)
LEMMA OneMoves ==
  ASSUME TypeOK, NEW c \in Handlers, NEW call \in CallRecord, calls' = [calls EXCEPT ![c] = call]
  PROVE  /\ calls' \in [Calls \cup {Cli} -> CallRecord] /\ calls'[c] = call
         /\ \A d \in Handlers \ {c} : calls'[d] = calls[d]
         /\ (call.at = "save" => call.seen \in Records) =>
              \A d \in Calls \cup {Cli} : calls'[d].at = "save" => calls'[d].seen \in Records
BY DEF TypeOK, Handlers

(* The call of the CLI, when its loop starts or ends an exchange.          *)
LEMMA CliMoves ==
  ASSUME TypeOK, NEW call \in CallRecord, call.at # "save", calls' = [calls EXCEPT ![Cli] = call]
  PROVE  /\ calls' \in [Calls \cup {Cli} -> CallRecord] /\ calls'[Cli] = call
         /\ \A c \in Calls : calls'[c] = calls[c]
         /\ \A c \in Calls \cup {Cli} : calls'[c].at = "save" => calls'[c].seen \in Records
<1>1. Cli \in Handlers /\ \A c \in Calls : c \in Handlers \ {Cli}
  BY ChannelAssumption DEF Handlers
<1> QED BY <1>1, OneMoves

(* A handler that answers has nothing left to save.                        *)
LEMMA AnswerTypes ==
  ASSUME TypeOK, NEW c \in Handlers
  PROVE  /\ calls[c] \in CallRecord /\ Done(c) \in CallRecord /\ Done(c).at = "done"
         /\ Answers(c) \in CallRecord /\ Answers(c).at \in {"done", "accepted"}
BY CallTypes DEF TypeOK, Handlers, Done, Answers, Free

(* What is written of the history of a session changes nothing else of it. *)
Same == session # None => session'.id = session.id /\ session'.key = session.key
Kept == session # None => session'.up = session.up

LEMMA OutlivesIs ==
  ASSUME TypeOK, Outlives
  PROVE  /\ session' \in Sessions \cup {None} /\ (session = None => session' = None) /\ Same /\ Kept
         /\ session # None => session'.kept = session.kept
                              /\ (~session'.late => ~session.late /\ Opening(record', session.key))
BY DEF TypeOK, Outlives, Sessions, Opening, Same, Kept

LEMMA HangUpIs ==
  ASSUME TypeOK, HangUp
  PROVE  /\ session' \in Sessions \cup {None} /\ (session = None => session' = None) /\ Same
         /\ session # None => ~session'.up
BY DEF TypeOK, HangUp, Sessions, Same

LEMMA KeepsSessionIs ==
  ASSUME TypeOK, NEW c \in Handlers, KeepsSession(c)
  PROVE  /\ session' \in Sessions \cup {None} /\ (session = None => session' = None) /\ Same /\ Kept
         /\ session # None => session'.kept
         /\ phase' = phase /\ faults' \in 0..MaxFaults /\ calls' = [calls EXCEPT ![c] = Answers(c)]
<1>1. faults' \in 0..MaxFaults
  BY FaultTypes DEF KeepsSession
<1> QED BY <1>1 DEF TypeOK, KeepsSession, Sessions, Same, Kept

LEMMA CrashIs ==
  ASSUME TypeOK, NEW c \in Handlers, NodeCrashes(c)
  PROVE  /\ session' \in Sessions \cup {None} /\ (session = None <=> session' = None) /\ Same /\ Kept
         /\ session # None => session'.kept \/ (session' = session /\ calls[c].at \notin {"status", "delete"})
         /\ faults' \in 0..MaxFaults /\ calls[c].at # "free"
         /\ UNCHANGED <<record, index, made, binds, phase, options, user, watch, history>>
         /\ \E call \in CallRecord : call.at \in {"done", "refused"} /\ calls' = [calls EXCEPT ![c] = call]
<1>1. faults' \in 0..MaxFaults
  BY FaultTypes DEF NodeCrashes
<1>2. /\ session' \in Sessions \cup {None} /\ (session = None <=> session' = None) /\ Same /\ Kept
      /\ session # None => session'.kept \/ (session' = session /\ calls[c].at \notin {"status", "delete"})
  BY ChannelAssumption DEF TypeOK, NodeCrashes, Sessions, Same, Kept
<1>3. calls[c] \in CallRecord /\ Done(c) \in CallRecord /\ Done(c).at = "done"
  BY AnswerTypes
<1>4. [Free EXCEPT !.at = "refused"] \in CallRecord /\ [Free EXCEPT !.at = "refused"].at = "refused"
  BY CallTypes DEF Free
<1>5. \E call \in CallRecord : call.at \in {"done", "refused"} /\ calls' = [calls EXCEPT ![c] = call]
  BY <1>3, <1>4 DEF NodeCrashes
<1> QED BY <1>1, <1>2, <1>5 DEF NodeCrashes

LEMMA ClosesNextIs ==
  ASSUME TypeOK, NEW c \in Handlers, ClosesNext(c)
  PROVE  /\ \E call \in CallRecord :
              /\ calls' = [calls EXCEPT ![c] = call] /\ call.at \in {"done", "status"}
              /\ call.at = "done" => Outlives
              /\ call.at = "status" => session' = session
         /\ session' \in Sessions \cup {None}
<1>1. CASE calls[c].op = "create"
  <2>1. calls' = [calls EXCEPT ![c] = Done(c)] /\ Outlives
    BY <1>1 DEF ClosesNext
  <2> QED BY <2>1, AnswerTypes, OutlivesIs
<1>2. CASE calls[c].op # "create"
  <2>1. calls' = [calls EXCEPT ![c] = [@ EXCEPT !.at = "status"]] /\ session' = session
    BY <1>2 DEF ClosesNext
  <2>2. calls[c] \in CallRecord
    BY AnswerTypes
  <2>3. [calls[c] EXCEPT !.at = "status"] \in CallRecord /\ [calls[c] EXCEPT !.at = "status"].at = "status"
    BY <2>2 DEF CallRecord
  <2> QED BY <2>1, <2>3 DEF TypeOK, Handlers
<1> QED BY <1>1, <1>2

-----------------------------------------------------------------------------
(* Types                                                                   *)

LEMMA ServerKeepsTypes ==
  ASSUME TypeOK, StepOfServer
  PROVE  TypeOK'
<1>1. CASE Lookup
  <2>1. UNCHANGED <<record, index, made, gateway, phase, options, user, watch, faults, history>>
        /\ \E at \in {"read", "refused"} : calls' = [calls EXCEPT ![Cli] = [@ EXCEPT !.at = at]]
    BY <1>1 DEF Lookup
  <2>2. PICK at \in {"read", "refused"} : calls' = [calls EXCEPT ![Cli] = [calls[Cli] EXCEPT !.at = at]]
    BY <2>1 DEF TypeOK
  <2>3. Cli \in Handlers /\ calls[Cli] \in CallRecord
    BY DEF TypeOK, Handlers
  <2> DEFINE call == [calls[Cli] EXCEPT !.at = at]
  <2>4. call \in CallRecord /\ call.at # "save" /\ calls' = [calls EXCEPT ![Cli] = call]
    BY <2>2, <2>3 DEF CallRecord
  <2> HIDE DEF call
  <2>5. /\ calls' \in [Calls \cup {Cli} -> CallRecord]
        /\ \A d \in Calls \cup {Cli} : calls'[d].at = "save" => calls'[d].seen \in Records
    BY <2>4, CliMoves
  <2> QED BY <2>1, <2>5 DEF TypeOK, gateway, options, user, watch, history
<1>2. ASSUME NEW c \in Handlers, ReadRecord(c) PROVE TypeOK'
  <2> DEFINE seen == IF record = Invalid THEN None ELSE record
             at == IF record = Invalid THEN "clear" ELSE Continues(calls[c].op, seen)
  <2>1. UNCHANGED <<record, index, made, gateway, phase, options, user, watch, faults, history>>
        /\ calls' = [calls EXCEPT ![c] = [calls[c] EXCEPT !.seen = seen, !.at = at]]
    BY <1>2 DEF ReadRecord, TypeOK, Handlers
  <2>2. calls[c] \in CallRecord /\ seen \in Records \cup {None}
    BY AnswerTypes DEF TypeOK
  <2>3. at \in {"clear", "refused", "status", "save", "done", "write"} /\ (at = "save" => seen \in Records)
    BY <2>2, ContinuesAt
  <2> HIDE DEF seen, at
  <2> DEFINE call == [calls[c] EXCEPT !.seen = seen, !.at = at]
  <2>4. /\ call \in CallRecord /\ call.at = at /\ call.seen = seen
        /\ calls' = [calls EXCEPT ![c] = call]
    BY <2>1, <2>2, <2>3 DEF CallRecord
  <2> HIDE DEF call
  <2>5. /\ calls' \in [Calls \cup {Cli} -> CallRecord]
        /\ \A d \in Calls \cup {Cli} : calls'[d].at = "save" => calls'[d].seen \in Records
    BY <2>3, <2>4, OneMoves
  <2> QED BY <2>1, <2>5 DEF TypeOK, gateway, options, user, watch, history
<1>3. ASSUME NEW c \in Handlers, ClearRecord(c) PROVE TypeOK'
  <2> DEFINE at == Continues(calls[c].op, None)
  <2>1. /\ UNCHANGED <<index, made, binds, phase, options, user, watch, faults, history>>
        /\ record' = None /\ Outlives
        /\ calls' = [calls EXCEPT ![c] = [@ EXCEPT !.at = at]]
    BY <1>3 DEF ClearRecord, TypeOK, Handlers
  <2>2. calls[c] \in CallRecord /\ at \in {"refused", "status", "done", "write"}
    BY AnswerTypes DEF Continues
  <2> HIDE DEF at
  <2>3. [calls[c] EXCEPT !.at = at] \in CallRecord /\ [calls[c] EXCEPT !.at = at].at = at
    BY <2>2 DEF CallRecord
  <2>4. /\ calls' \in [Calls \cup {Cli} -> CallRecord]
        /\ \A d \in Calls \cup {Cli} : calls'[d].at = "save" => calls'[d].seen \in Records
    BY <2>1, <2>2, <2>3, OneMoves
  <2>5. session' \in Sessions \cup {None}
    BY <2>1, OutlivesIs
  <2> QED BY <2>1, <2>4, <2>5 DEF TypeOK, options, user, watch, history
<1>4. ASSUME NEW c \in Handlers, SaveRecord(c) PROVE TypeOK'
  <2>1. /\ UNCHANGED <<index, made, binds, phase, options, user, watch, faults, history>>
        /\ ClosesNext(c) /\ calls[c].seen \in Records
        /\ \/ record' = [calls[c].seen EXCEPT !.status = "enabled"]
           \/ record' = [calls[c].seen EXCEPT !.status = "disconnected"]
           \/ record' = [calls[c].seen EXCEPT !.plain = TRUE]
    BY <1>4 DEF SaveRecord, TypeOK, Handlers
  <2>2. record' \in Records
    BY <2>1 DEF Records
  <2>3. /\ calls' \in [Calls \cup {Cli} -> CallRecord] /\ session' \in Sessions \cup {None}
        /\ \A d \in Calls \cup {Cli} : calls'[d].at = "save" => calls'[d].seen \in Records
    BY <2>1, ClosesNextIs, OneMoves
  <2> QED BY <2>1, <2>2, <2>3 DEF TypeOK, options, user, watch, history
<1>5. ASSUME NEW c \in Handlers, WriteSession(c) PROVE TypeOK'
  <2>1. /\ UNCHANGED <<binds, phase, options, user, watch, faults, history>>
        /\ ClosesNext(c) /\ made' = made + 1 /\ record' = Record(made', "enabled", TRUE)
        /\ index' = (index \ Replaced(c)) \cup {made'}
    BY <1>5 DEF WriteSession
  <2>2. made' \in Nat
    BY <2>1 DEF TypeOK
  <2>4. index' \subseteq Nat
    BY <2>1, <2>2 DEF TypeOK
  <2>5. record' \in Records
    BY <2>1, <2>2 DEF Records, Record
  <2>3. /\ calls' \in [Calls \cup {Cli} -> CallRecord] /\ session' \in Sessions \cup {None}
        /\ \A d \in Calls \cup {Cli} : calls'[d].at = "save" => calls'[d].seen \in Records
    BY <2>1, ClosesNextIs, OneMoves
  <2> QED BY <2>1, <2>2, <2>3, <2>4, <2>5 DEF TypeOK, options, user, watch, history
<1>6. ASSUME NEW c \in Handlers, GetStatus(c) \/ DeleteSession(c) PROVE TypeOK'
  <2>1. UNCHANGED <<record, index, made, binds, options, user, watch, history>>
    BY <1>6 DEF GetStatus, DeleteSession
  <2>2. /\ session' \in Sessions \cup {None} /\ phase' \in Phases /\ faults' \in 0..MaxFaults
        /\ \E call \in CallRecord : call.at # "save" /\ calls' = [calls EXCEPT ![c] = call]
    <3>1. CASE KeepsSession(c)
      BY <3>1, KeepsSessionIs, AnswerTypes DEF TypeOK
    <3>2. CASE GetStatus(c) /\ ~KeepsSession(c)
      <4>1. /\ UNCHANGED <<session, phase, faults>>
            /\ calls' = [calls EXCEPT ![c] =
                 IF session = None THEN Answers(c) ELSE [calls[c] EXCEPT !.at = "delete", !.sid = session.id]]
        BY <3>2 DEF GetStatus, TypeOK, Handlers
      <4>2. session # None => /\ [calls[c] EXCEPT !.at = "delete", !.sid = session.id] \in CallRecord
                              /\ [calls[c] EXCEPT !.at = "delete", !.sid = session.id].at = "delete"
        <5>1. calls[c] \in CallRecord /\ (session # None => session.id \in Nat)
          BY AnswerTypes DEF TypeOK, Sessions
        <5> QED BY <5>1 DEF CallRecord
      <4> QED BY <4>1, <4>2, AnswerTypes DEF TypeOK
    <3>3. CASE DeleteSession(c) /\ ~KeepsSession(c)
      <4>1. /\ calls' = [calls EXCEPT ![c] = Answers(c)] /\ session' \in {None, session}
            /\ phase' \in {"leaving", phase} /\ faults' = faults
        BY <3>3 DEF DeleteSession
      <4> QED BY <4>1, AnswerTypes DEF TypeOK, Phases
    <3> QED BY <1>6, <3>1, <3>2, <3>3
  <2>3. /\ calls' \in [Calls \cup {Cli} -> CallRecord]
        /\ \A d \in Calls \cup {Cli} : calls'[d].at = "save" => calls'[d].seen \in Records
    BY <2>2, OneMoves
  <2> QED BY <2>1, <2>2, <2>3 DEF TypeOK, options, user, watch, history
<1>7. ASSUME NEW c \in Calls, NEW op \in Operations, Begin(c, op) PROVE TypeOK'
  <2>1. /\ UNCHANGED <<record, index, made, gateway, phase, options, user, watch, faults, history>>
        /\ calls' = [calls EXCEPT ![c] = [Free EXCEPT !.at = "read", !.op = op]]
    BY <1>7 DEF Begin
  <2>2. /\ [Free EXCEPT !.at = "read", !.op = op] \in CallRecord
        /\ [Free EXCEPT !.at = "read", !.op = op].at = "read"
    BY CallTypes DEF Free
  <2>3. /\ calls' \in [Calls \cup {Cli} -> CallRecord]
        /\ \A d \in Calls \cup {Cli} : calls'[d].at = "save" => calls'[d].seen \in Records
    BY <2>1, <2>2, OneMoves DEF Handlers
  <2> QED BY <2>1, <2>3 DEF TypeOK, gateway, options, user, watch, history
<1>8. ASSUME NEW c \in Handlers, NodeCrashes(c) PROVE TypeOK'
  <2>1. /\ calls' \in [Calls \cup {Cli} -> CallRecord]
        /\ \A d \in Calls \cup {Cli} : calls'[d].at = "save" => calls'[d].seen \in Records
    BY <1>8, CrashIs, OneMoves
  <2>2. /\ session' \in Sessions \cup {None} /\ faults' \in 0..MaxFaults
        /\ UNCHANGED <<record, index, made, binds, phase, options, user, watch, history>>
    BY <1>8, CrashIs
  <2> QED BY <2>1, <2>2 DEF TypeOK, options, user, watch, history
<1> QED BY <1>1, <1>2, <1>3, <1>4, <1>5, <1>6, <1>7, <1>8 DEF StepOfServer, Serve

LEMMA StartTypes ==
  ASSUME TypeOK, NEW key \in Nat, StartExchange(key)
  PROVE  /\ calls' \in [Calls \cup {Cli} -> CallRecord]
         /\ \A c \in Calls \cup {Cli} : calls'[c].at = "save" => calls'[c].seen \in Records
         /\ token' \in Nat /\ phase' \in Phases /\ missed' \in BOOLEAN
<1> DEFINE call == [Free EXCEPT !.at = "lookup", !.op = "exchange"]
<1>1. call \in CallRecord /\ call.at # "save" /\ calls' = [calls EXCEPT ![Cli] = call]
  BY CallTypes DEF StartExchange, Free
<1> HIDE DEF call
<1>2. /\ calls' \in [Calls \cup {Cli} -> CallRecord]
      /\ \A c \in Calls \cup {Cli} : calls'[c].at = "save" => calls'[c].seen \in Records
  BY <1>1, CliMoves
<1> QED BY <1>2 DEF StartExchange, Phases

LEMMA FreeTypes ==
  ASSUME TypeOK, calls' = [calls EXCEPT ![Cli] = Free]
  PROVE  /\ calls' \in [Calls \cup {Cli} -> CallRecord]
         /\ \A c \in Calls \cup {Cli} : calls'[c].at = "save" => calls'[c].seen \in Records
<1>1. Free \in CallRecord /\ Free.at # "save"
  BY CallTypes DEF Free
<1> QED BY <1>1, CliMoves

LEMMA LoopKeepsTypes ==
  ASSUME TypeOK, StepOfLoop
  PROVE  TypeOK'
<1>1. CASE TakesKey
  <2>1. /\ UNCHANGED <<record, index, made, gateway, saved, user, watch, faults, unheard, blocked>>
        /\ link' \in Keys /\ persist' = TRUE /\ StartExchange(link')
    BY <1>1 DEF TakesKey
  <2>2. link' \in Nat
    BY <2>1 DEF TypeOK, Keys
  <2> QED BY <2>1, <2>2, StartTypes DEF TypeOK, gateway, user, watch
<1>2. CASE Exchanged
  <2>1. /\ calls' = [calls EXCEPT ![Cli] = Free] /\ phase' = "open" /\ persist' = FALSE
        /\ saved' \in {link, saved} /\ reporter' \in {"started", reporter}
        /\ UNCHANGED <<record, index, made, gateway, link, token, interrupts, closed, configs, watch,
                       faults, history>>
    BY <1>2 DEF Exchanged
  <2>2. reporter' \in {"off", "started", "attached"} /\ {link', token', saved'} \subseteq Nat
    BY <2>1 DEF TypeOK
  <2>3. {persist', closed', timer', missed', unheard', blocked'} \subseteq BOOLEAN
    BY <2>1 DEF TypeOK, watch, history
  <2>4. UNCHANGED <<record, index, made, gateway, interrupts, configs, watch, faults>> /\ phase' \in Phases
    BY <2>1 DEF Phases
  <2>5. /\ calls' \in [Calls \cup {Cli} -> CallRecord]
        /\ \A c \in Calls \cup {Cli} : calls'[c].at = "save" => calls'[c].seen \in Records
    BY <2>1, FreeTypes
  <2> QED BY <2>2, <2>3, <2>4, <2>5 DEF TypeOK, gateway, watch
<1>3. CASE ExchangeFails
  <2>1. /\ calls' = [calls EXCEPT ![Cli] = Free] /\ phase' \in Phases
        /\ UNCHANGED <<record, index, made, gateway, options, user, watch, history>>
    BY <1>3 DEF ExchangeFails, Retries, Phases
  <2>2. faults' \in 0..MaxFaults
    BY <1>3, FaultTypes DEF ExchangeFails, TypeOK
  <2> QED BY <2>1, <2>2, FreeTypes DEF TypeOK, gateway, options, user, watch, history
<1>4. CASE Opens
  <2>1. phase' \in Phases /\ UNCHANGED <<server, gateway, options, user, watch, history>>
    BY <1>4 DEF Opens, Retries, Phases
  <2>2. faults' \in 0..MaxFaults
    BY <1>4, FaultTypes DEF Opens, TypeOK
  <2> QED BY <2>1, <2>2 DEF TypeOK, server, gateway, options, user, watch, history
<1>5. CASE Bind
  <2>1. /\ UNCHANGED <<server, options, reporter, interrupts, configs, watch, missed, unheard>>
        /\ phase' \in Phases /\ closed' \in {TRUE, closed}
    BY <1>5 DEF Bind, Retries, Phases, gateway
  <2>2. faults' \in 0..MaxFaults
    BY <1>5, FaultTypes DEF Bind, TypeOK
  <2>3. /\ session' \in Sessions \cup {None} /\ binds' \in Nat /\ blocked' \in BOOLEAN
    <3>1. CASE /\ session = None /\ binds' = binds + 1 /\ blocked' = blocked
               /\ session' = Session(binds', token, ~Opened(token))
      <4>1. binds' \in Nat /\ token \in Nat /\ blocked' \in BOOLEAN
        BY <3>1 DEF TypeOK
      <4>2. Session(binds', token, ~Opened(token)) \in Sessions
        BY <4>1 DEF Session, Sessions, Opened, Opening
      <4> QED BY <3>1, <4>1, <4>2
    <3>2. CASE session # None /\ blocked' = session.kept /\ UNCHANGED gateway
      BY <3>2 DEF TypeOK, Sessions, gateway
    <3>3. CASE UNCHANGED <<gateway, blocked>>
      BY <3>3 DEF TypeOK, gateway
    <3> QED BY <1>5, <3>1, <3>2, <3>3 DEF Bind
  <2> QED BY <2>1, <2>2, <2>3 DEF TypeOK, server, options, watch
<1>6. CASE BoundArrives
  BY <1>6 DEF BoundArrives, TypeOK, server, gateway, options, watch, history, Phases
<1>7. CASE SocketLost
  <2>1. /\ HangUp /\ phase' \in {"leaving", "hung"}
        /\ UNCHANGED <<server, binds, options, user, watch, history>>
    BY <1>7 DEF SocketLost
  <2>2. faults' \in 0..MaxFaults /\ session' \in Sessions \cup {None}
    BY <1>7, <2>1, FaultTypes, HangUpIs DEF SocketLost
  <2> QED BY <2>1, <2>2 DEF TypeOK, server, options, user, watch, history, Phases
<1>8. CASE SocketClosed
  BY <1>8 DEF SocketClosed, Retries, TypeOK, server, gateway, options, user, watch, history, Phases
<1>9. CASE SessionEnds
  BY <1>9 DEF SessionEnds, TypeOK, server, options, user, watch, history
<1>10. CASE Reconnect
  <2>1. UNCHANGED <<record, index, made, gateway, link, persist, saved, user, watch, faults,
                    unheard, blocked>>
    BY <1>10 DEF Reconnect
  <2>2. CASE StartExchange(link)
    <3>1. link \in Nat
      BY DEF TypeOK
    <3> QED BY <2>1, <2>2, <3>1, StartTypes DEF TypeOK, gateway, user, watch
  <2>3. CASE phase' = "exited" /\ UNCHANGED <<calls, token, missed>>
    BY <2>1, <2>3 DEF TypeOK, gateway, user, watch, Phases
  <2> QED BY <1>10, <2>2, <2>3 DEF Reconnect
<1> QED BY <1>1, <1>2, <1>3, <1>4, <1>5, <1>6, <1>7, <1>8, <1>9, <1>10 DEF StepOfLoop

LEMMA UserKeepsTypes ==
  ASSUME TypeOK, StepOfUser
  PROVE  TypeOK'
<1>1. CASE Interrupt
  <2>1. /\ UNCHANGED <<record, index, made, binds, options, reporter, configs, plugin, modules, active,
                       reload, faults, missed, blocked>>
        /\ interrupts < 2 /\ interrupts' = interrupts + 1
        /\ {closed', unheard', timer'} \subseteq BOOLEAN
    BY <1>1 DEF Interrupt, TypeOK
  <2>2. phase' \in Phases /\ (HangUp \/ UNCHANGED session)
    BY <1>1 DEF Interrupt, CloseCurrent, TypeOK, Phases
  <2>3. session' \in Sessions \cup {None}
    BY <2>2, HangUpIs DEF TypeOK
  <2>4. /\ calls' \in [Calls \cup {Cli} -> CallRecord]
        /\ \A c \in Calls \cup {Cli} : calls'[c].at = "save" => calls'[c].seen \in Records
    <3>1. CASE calls' = [calls EXCEPT ![Cli] = Free]
      BY <3>1, FreeTypes
    <3>2. CASE calls' = [calls EXCEPT ![Cli] = @]
      <4>1. calls' = calls
        BY <3>2 DEF TypeOK
      <4> QED BY <4>1 DEF TypeOK
    <3> QED BY <1>1, <3>1, <3>2 DEF Interrupt
  <2>5. interrupts' \in 0..2
    BY <2>1 DEF TypeOK
  <2> QED BY <2>1, <2>2, <2>3, <2>4, <2>5 DEF TypeOK, options
<1>2. CASE ConfigureKey
  <2>1. /\ UNCHANGED <<server, binds, token, saved, reporter, interrupts, closed, watch, faults,
                       unheard, blocked>>
        /\ configs < MaxConfigs /\ configs' = configs + 1 /\ CloseCurrent
        /\ link' \in Keys /\ persist' = TRUE /\ missed' \in BOOLEAN
    BY <1>2 DEF ConfigureKey
  <2>2. phase' \in Phases /\ (HangUp \/ UNCHANGED session)
    BY <2>1 DEF CloseCurrent, TypeOK, Phases
  <2>3. session' \in Sessions \cup {None}
    BY <2>2, HangUpIs DEF TypeOK
  <2>4. configs' \in 0..MaxConfigs
    BY <2>1, ChannelAssumption DEF TypeOK
  <2>5. link' \in Nat
    BY <2>1 DEF TypeOK, Keys
  <2> QED BY <2>1, <2>2, <2>3, <2>4, <2>5 DEF TypeOK, server, watch
<1> QED BY <1>1, <1>2 DEF StepOfUser

(* The modules that have been evaluated.                                   *)
Modules == UNION {[urls -> 0..MaxEdits] : urls \in SUBSET {"index.ts"}}

LEMMA ModuleTypes ==
  /\ <<>> \in Modules
  /\ \A version \in 0..MaxEdits : [url \in {"index.ts"} |-> version] \in Modules
  /\ \A m \in Modules, version \in 0..MaxEdits : [m EXCEPT !["index.ts"] = version] \in Modules
<1>1. \A urls \in SUBSET {"index.ts"} : \A m \in [urls -> 0..MaxEdits] : m \in Modules
  BY DEF Modules
<1>2. <<>> \in [{} -> 0..MaxEdits]
  OBVIOUS
<1>3. ASSUME NEW version \in 0..MaxEdits
      PROVE  [url \in {"index.ts"} |-> version] \in [{"index.ts"} -> 0..MaxEdits]
  OBVIOUS
<1>4. ASSUME NEW m \in Modules, NEW version \in 0..MaxEdits
      PROVE  [m EXCEPT !["index.ts"] = version] \in Modules
  <2>1. PICK urls \in SUBSET {"index.ts"} : m \in [urls -> 0..MaxEdits]
    BY DEF Modules
  <2>2. [m EXCEPT !["index.ts"] = version] \in [urls -> 0..MaxEdits]
    BY <2>1
  <2> QED BY <1>1, <2>1, <2>2
<1> QED BY <1>1, <1>2, <1>3, <1>4

LEMMA WatchKeepsTypes ==
  ASSUME TypeOK, StepOfWatch
  PROVE  TypeOK'
<1>m. modules \in Modules /\ plugin.version \in 0..MaxEdits
  BY DEF TypeOK, Modules
<1>1. CASE LoadTargets
  <2>1. /\ modules' = [url \in {"index.ts"} |-> plugin.version]
        /\ active' = plugin.version /\ phase' = "ask"
        /\ UNCHANGED <<server, gateway, options, user, plugin, timer, reload, faults, history>>
    BY <1>1 DEF LoadTargets, ResolveSpecifier
  <2>2. modules' \in Modules
    BY <1>m, <2>1, ModuleTypes
  <2> QED BY <1>m, <2>1, <2>2 DEF TypeOK, Modules, server, gateway, options, user, history, Phases
<1>2. CASE Edit
  <2>1. /\ plugin' \in [version : {plugin.version + 1}, there : BOOLEAN] /\ plugin.version < MaxEdits
        /\ timer' \in BOOLEAN
        /\ UNCHANGED <<server, gateway, phase, options, user, modules, active, reload, faults, history>>
    BY <1>2 DEF Edit, TypeOK, Watching
  <2>2. plugin.version + 1 \in 0..MaxEdits
    BY <1>m, <2>1, ChannelAssumption
  <2>3. plugin' \in [version : 0..MaxEdits, there : BOOLEAN]
    BY <2>1, <2>2
  <2> QED BY <2>1, <2>3 DEF TypeOK, server, gateway, options, user, history
<1>3. CASE Debounce
  BY <1>3 DEF Debounce, TypeOK, server, gateway, options, user, history
<1>4. CASE Reload
  <2>1. UNCHANGED <<server, gateway, phase, options, user, plugin, timer, faults, history>>
    BY <1>4 DEF Reload
  <2>2. ReloadEnds => reload' \in [at : {"idle", "loading", "waiting"}, pending : BOOLEAN]
    BY DEF ReloadEnds
  <2>3. /\ reload' \in [at : {"idle", "loading", "waiting"}, pending : BOOLEAN]
        /\ active' \in 0..MaxEdits \cup {None}
        /\ \/ modules' = modules \/ modules' = [modules EXCEPT !["index.ts"] = plugin.version]
    BY <1>4, <1>m, <2>2 DEF Reload, TypeOK, ResolveSpecifier
  <2>4. modules' \in Modules
    BY <1>m, <2>3, ModuleTypes
  <2> QED BY <2>1, <2>3, <2>4 DEF TypeOK, Modules, server, gateway, options, user, history
<1> QED BY <1>1, <1>2, <1>3, <1>4 DEF StepOfWatch

LEMMA InitTypes == ASSUME Init PROVE TypeOK
<1>1. calls \in [Calls \cup {Cli} -> CallRecord] /\ \A c \in Calls \cup {Cli} : calls[c].at = "free"
  BY CallTypes DEF Init, Free
<1>2. record \in Records \cup {None, Invalid} /\ index \subseteq Nat /\ made \in Nat
  BY DEF Init, Record, Records
<1>3. modules \in Modules
  BY ModuleTypes DEF Init
<1>4. /\ session = None /\ binds = 0 /\ phase = "load" /\ reporter = "off" /\ interrupts = 0
      /\ link = 0 /\ token = 0 /\ saved = 0 /\ active = None /\ faults = 0 /\ configs = 0
      /\ plugin = [version |-> 0, there |-> TRUE] /\ reload = [at |-> "idle", pending |-> FALSE]
      /\ ~persist /\ ~closed /\ ~timer /\ ~missed /\ ~unheard /\ ~blocked
      /\ {persist, closed, timer, missed, unheard, blocked} \subseteq BOOLEAN
  BY DEF Init
<1>5. MaxEdits \in Nat /\ MaxFaults \in Nat /\ MaxConfigs \in Nat
  BY ChannelAssumption
<1>6. plugin \in [version : 0..MaxEdits, there : BOOLEAN]
  BY <1>4, <1>5
<1> QED BY <1>1, <1>2, <1>3, <1>4, <1>5, <1>6 DEF TypeOK, Modules, Phases

LEMMA StutterTypes == ASSUME TypeOK, UNCHANGED vars PROVE TypeOK'
BY DEF TypeOK, vars, server, gateway, options, user, watch, history

(* Every variable of the channel has its type.                             *)
THEOREM ChannelTypes == Spec => []TypeOK
<1>1. TypeOK /\ [Next]_vars => TypeOK'
  BY Steps, ServerKeepsTypes, LoopKeepsTypes, UserKeepsTypes, WatchKeepsTypes, StutterTypes
<1> QED BY <1>1, InitTypes, PTL DEF Spec

-----------------------------------------------------------------------------
(* The exchange of the CLI                                                 *)

(* What a handler does to the loop and to the session: it may delete the   *)
(* session, whose loop hears of it if it is connected, or write its        *)
(* history.                                                                *)
LEMMA ServerSession ==
  ASSUME TypeOK, StepOfServer
  PROVE  /\ UNCHANGED <<options, user, watch, history, binds>>
         /\ phase' = phase \/ (phase = "bound" /\ phase' = "leaving")
         /\ session = None => session' = None
         /\ session # None /\ session' # None => Same /\ Kept
         /\ session # None /\ session' = None /\ session.up => phase' # "bound"
<1>1. CASE Lookup \/ \E c \in Calls, op \in Operations : Begin(c, op)
  BY <1>1 DEF Lookup, Begin, gateway, Same, Kept
<1>2. ASSUME NEW c \in Handlers, ReadRecord(c) \/ ClearRecord(c) \/ SaveRecord(c) \/ WriteSession(c)
      PROVE  /\ UNCHANGED <<options, user, watch, history, binds, phase>>
             /\ session' = session \/ Outlives
  BY <1>2 DEF ReadRecord, ClearRecord, SaveRecord, WriteSession, ClosesNext, gateway
<1>3. session' = session \/ Outlives => /\ (session = None) <=> (session' = None)
                                        /\ Same /\ Kept
  <2>1. CASE Outlives
    <3>1. session # None => session' # None
      BY <2>1, ChannelAssumption DEF Outlives, TypeOK, Sessions
    <3> QED BY <2>1, <3>1, OutlivesIs
  <2> QED BY <2>1 DEF Same, Kept
<1>4. ASSUME NEW c \in Handlers, GetStatus(c) \/ DeleteSession(c)
      PROVE  /\ UNCHANGED <<options, user, watch, history, binds>>
             /\ phase' = phase \/ (phase = "bound" /\ phase' = "leaving")
             /\ session = None => session' = None
             /\ session # None /\ session' # None => Same /\ Kept
             /\ session # None /\ session' = None /\ session.up => phase' # "bound"
  <2>1. UNCHANGED <<options, user, watch, history, binds>>
    BY <1>4 DEF GetStatus, DeleteSession
  <2>2. CASE KeepsSession(c)
    <3>1. session # None => session' # None
      BY <2>2, ChannelAssumption DEF KeepsSession, TypeOK, Sessions
    <3> QED BY <2>1, <2>2, <3>1, KeepsSessionIs
  <2>3. CASE UNCHANGED <<session, phase>>
    BY <2>1, <2>3 DEF Same, Kept
  <2>4. CASE DeleteSession(c) /\ ~KeepsSession(c)
    BY <2>1, <2>4 DEF DeleteSession, Same, Kept
  <2> QED BY <1>4, <2>2, <2>3, <2>4 DEF GetStatus
<1> QED BY <1>1, <1>2, <1>3, <1>4, CrashIs DEF StepOfServer, Serve

(* A handler that moves was called.                                        *)
LEMMA ServerCalled ==
  ASSUME TypeOK, StepOfServer, calls[Cli].at = "free"
  PROVE  calls'[Cli].at = "free"
<1>1. \A c \in Calls : c # Cli
  BY ChannelAssumption
<1>2. ~Lookup
  BY DEF Lookup
<1>3. ASSUME NEW c \in Calls, NEW op \in Operations, Begin(c, op) PROVE calls'[Cli].at = "free"
  BY <1>1, <1>3 DEF Begin, TypeOK
<1>4. ASSUME NEW c \in Handlers, Serve(c) PROVE calls'[Cli].at = "free"
  <2>1. c # Cli
    BY <1>4 DEF Serve, ReadRecord, ClearRecord, SaveRecord, WriteSession, GetStatus, DeleteSession
  <2>2. \E call : calls' = [calls EXCEPT ![c] = call]
    <3>1. CASE ReadRecord(c) \/ ClearRecord(c)
      BY <3>1 DEF ReadRecord, ClearRecord
    <3>2. CASE SaveRecord(c) \/ WriteSession(c)
      BY <3>2, ClosesNextIs DEF SaveRecord, WriteSession
    <3>3. CASE GetStatus(c) \/ DeleteSession(c)
      BY <3>3 DEF GetStatus, DeleteSession, KeepsSession
    <3> QED BY <1>4, <3>1, <3>2, <3>3 DEF Serve
  <2> QED BY <2>1, <2>2 DEF TypeOK, Handlers
<1>5. ASSUME NEW c \in Handlers, NodeCrashes(c) PROVE calls'[Cli].at = "free"
  <2>1. c # Cli /\ \E call : calls' = [calls EXCEPT ![c] = call]
    BY <1>5, CrashIs
  <2> QED BY <2>1 DEF TypeOK, Handlers
<1> QED BY <1>2, <1>3, <1>4, <1>5 DEF StepOfServer

LEMMA ExchangeKept ==
  ASSUME TypeOK, ExchangeWaits, StepOfServer \/ StepOfLoop \/ StepOfUser \/ StepOfWatch
  PROVE  ExchangeWaits'
<1>1. CASE StepOfServer
  BY <1>1, ServerSession, ServerCalled DEF ExchangeWaits
<1>2. CASE StepOfLoop
  <2>1. CASE TakesKey \/ (Reconnect /\ phase' # "exited")
    BY <2>1 DEF TakesKey, Reconnect, StartExchange, ExchangeWaits
  <2>2. CASE Exchanged \/ ExchangeFails
    BY <2>2 DEF Exchanged, ExchangeFails, ExchangeWaits, TypeOK, Free
  <2>3. CASE \/ Opens \/ Bind \/ BoundArrives \/ SocketLost \/ SocketClosed
             \/ (Reconnect /\ phase' = "exited")
    <3>1. phase # "exchange" /\ calls' = calls
      BY <2>3 DEF Opens, Bind, BoundArrives, SocketLost, SocketClosed, Reconnect, StartExchange, server
    <3> QED BY <3>1 DEF ExchangeWaits
  <2>4. CASE SessionEnds
    BY <2>4 DEF SessionEnds, ExchangeWaits, server
  <2> QED BY <1>2, <2>1, <2>2, <2>3, <2>4 DEF StepOfLoop
<1>3. CASE StepOfUser
  <2>1. CASE Interrupt
    <3>1. CASE phase' = "exited"
      BY <2>1, <3>1 DEF Interrupt, ExchangeWaits, TypeOK, Free
    <3>2. CASE phase' # "exited"
      BY <2>1, <3>2 DEF Interrupt, CloseCurrent, ExchangeWaits, TypeOK
    <3> QED BY <3>1, <3>2
  <2>2. CASE ConfigureKey
    BY <2>2 DEF ConfigureKey, CloseCurrent, ExchangeWaits, server
  <2> QED BY <1>3, <2>1, <2>2 DEF StepOfUser
<1>4. CASE StepOfWatch
  BY <1>4 DEF StepOfWatch, LoadTargets, Edit, Debounce, Reload, ExchangeWaits, server
<1> QED BY <1>1, <1>2, <1>3, <1>4

LEMMA WaitsInitially == ASSUME Init PROVE ExchangeWaits
BY DEF Init, ExchangeWaits, Free

-----------------------------------------------------------------------------
(* The key the user configured last                                        *)

(* The session a loop is connected with has its key, and that key is the   *)
(* one chosen last unless another was chosen while it connected.           *)
Chosen ==
  /\ ~persist => saved = link
  /\ phase = "exchange" /\ ~missed => token = link
  /\ phase \in {"open", "bind", "answered", "bound"} /\ ~missed => token = link /\ ~persist
  /\ phase \in {"answered", "bound"} /\ session # None => session.key = token /\ session.up
  /\ phase = "bound" => session # None

LEMMA ChosenByServer ==
  ASSUME TypeOK, Chosen, StepOfServer
  PROVE  Chosen'
<1>1. UNCHANGED <<link, token, persist, saved, missed>>
  BY ServerSession DEF options, history
<1>2. phase' = phase \/ (phase = "bound" /\ phase' = "leaving")
  BY ServerSession
<1>3. session' # None => session # None /\ session'.key = session.key /\ session'.up = session.up
  BY ServerSession DEF Same, Kept
<1>4. phase' = "bound" => session' # None
  BY <1>2, ServerSession DEF Chosen
<1> QED BY <1>1, <1>2, <1>3, <1>4 DEF Chosen

LEMMA ChosenByLoop ==
  ASSUME TypeOK, ExchangeWaits, Chosen, StepOfLoop
  PROVE  Chosen'
<1>1. CASE TakesKey \/ Reconnect
  <2>1. phase' \in {"exchange", "exited"} /\ (~persist' => saved' = link')
    BY <1>1 DEF TakesKey, Reconnect, StartExchange, Chosen
  <2>2. phase' = "exchange" => token' = link'
    BY <1>1 DEF TakesKey, Reconnect, StartExchange
  <2> QED BY <2>1, <2>2 DEF Chosen
<1>2. CASE Exchanged
  <2>1. phase = "exchange"
    BY <1>2 DEF Exchanged, ExchangeWaits
  <2> QED BY <1>2, <2>1 DEF Exchanged, Chosen, history
<1>3. CASE ExchangeFails \/ SocketClosed
  <2>1. UNCHANGED options /\ phase' \in {"ask", "exited", "delay"}
    BY <1>3 DEF ExchangeFails, SocketClosed, Retries
  <2> QED BY <2>1 DEF options, Chosen
<1>4. CASE Opens
  <2>1. UNCHANGED <<options, history, gateway>> /\ phase = "open" /\ phase' \in {"bind", "exited", "delay"}
    BY <1>4 DEF Opens, Retries
  <2> QED BY <2>1 DEF options, history, Chosen
<1>5. CASE Bind
  <2>1. /\ UNCHANGED <<options, missed>> /\ phase = "bind"
        /\ phase' \in {"answered", "duplicate", "exited", "delay"}
    BY <1>5 DEF Bind, Retries
  <2>2. phase' = "answered" => session'.key = token /\ session'.up
    BY <1>5 DEF Bind, Retries, Session
  <2> QED BY <2>1, <2>2 DEF options, Chosen
<1>6. CASE BoundArrives
  BY <1>6 DEF BoundArrives, gateway, options, history, Chosen
<1>7. CASE SocketLost
  <2>1. UNCHANGED options /\ phase' \in {"leaving", "hung"}
    BY <1>7 DEF SocketLost
  <2> QED BY <2>1 DEF options, Chosen
<1>8. CASE SessionEnds
  <2>1. UNCHANGED <<options, history, phase>> /\ session' = None /\ session # None /\ ~session.up
    BY <1>8 DEF SessionEnds
  <2>2. phase \notin {"answered", "bound"}
    BY <2>1 DEF Chosen
  <2> QED BY <2>1, <2>2 DEF options, history, Chosen
<1> QED BY <1>1, <1>2, <1>3, <1>4, <1>5, <1>6, <1>7, <1>8 DEF StepOfLoop

LEMMA ChosenByUser ==
  ASSUME TypeOK, Chosen, StepOfUser
  PROVE  Chosen'
<1>1. CASE Interrupt
  <2>1. UNCHANGED <<options, missed>>
    BY <1>1 DEF Interrupt
  <2>2. phase' \in {"exited", "leaving"} \/ (phase' = phase /\ session' = session)
    BY <1>1 DEF Interrupt, CloseCurrent
  <2> QED BY <2>1, <2>2 DEF options, Chosen
<1>2. CASE ConfigureKey
  <2>1. /\ persist' = TRUE /\ missed' = (Connecting \/ phase = "hung") /\ token' = token
        /\ phase' = "leaving" \/ (phase' = phase /\ session' = session /\ phase # "bound")
    BY <1>2 DEF ConfigureKey, CloseCurrent
  <2> QED BY <2>1 DEF Connecting, Chosen
<1> QED BY <1>1, <1>2 DEF StepOfUser

LEMMA ChosenByWatch ==
  ASSUME Chosen, StepOfWatch
  PROVE  Chosen'
<1>1. UNCHANGED <<gateway, options, history>> /\ (phase' = phase \/ phase' = "ask")
  BY DEF StepOfWatch, LoadTargets, Edit, Debounce, Reload
<1> QED BY <1>1 DEF gateway, options, history, Chosen

LEMMA ChosenImplies == ASSUME Chosen PROVE KeyInUse
BY DEF Chosen, KeyInUse

-----------------------------------------------------------------------------
(* The sessions of keys that are no longer valid                           *)

(* Who is to close the session.                                            *)
Closing(c) == calls[c].at = "status" \/ (calls[c].at = "delete" /\ calls[c].sid = session.id)

(* Who moves was not to close the session.                                 *)
LEMMA OthersClose ==
  ASSUME TypeOK, StaleSessionsGo, record' = record,
         session' = None \/ session' = session \/ ~session'.up,
         NEW c \in Handlers, NEW call, calls' = [calls EXCEPT ![c] = call],
         session # None => ~Closing(c)
  PROVE  StaleSessionsGo'
<1> SUFFICES ASSUME session' # None, session'.up, ~session'.late, ~session'.kept,
                    ~Opening(record', session'.key)
             PROVE  \E d \in Calls \cup {Cli} :
                      calls'[d].at = "status" \/ (calls'[d].at = "delete" /\ calls'[d].sid = session'.id)
  BY DEF StaleSessionsGo, Opened
<1>1. session' = session /\ session # None /\ ~Opened(session.key)
  BY DEF Opened
<1>2. PICK d \in Calls \cup {Cli} : Closing(d)
  BY <1>1 DEF StaleSessionsGo, Closing
<1>3. d # c
  BY <1>1, <1>2
<1>4. calls'[d] = calls[d]
  BY <1>3 DEF TypeOK
<1> QED BY <1>1, <1>2, <1>4 DEF Closing

LEMMA NoneMoves ==
  ASSUME TypeOK, StaleSessionsGo, UNCHANGED <<record, calls>>,
         session' = None \/ session' = session \/ ~session'.up
  PROVE  StaleSessionsGo'
BY DEF StaleSessionsGo, Opened

LEMMA OutlivedGo ==
  ASSUME TypeOK, Outlives
  PROVE  StaleSessionsGo'
<1>1. session' # None /\ ~session'.late => Opening(record', session'.key)
  BY OutlivesIs DEF Same
<1> QED BY <1>1 DEF StaleSessionsGo, Opened

LEMMA StaleByServer ==
  ASSUME TypeOK, StaleSessionsGo, StepOfServer
  PROVE  StaleSessionsGo'
<1>1. CASE Lookup
  <2>1. /\ record' = record /\ session' = session /\ Cli \in Handlers /\ ~Closing(Cli)
        /\ \E call : calls' = [calls EXCEPT ![Cli] = call]
    BY <1>1 DEF Lookup, gateway, Closing, Handlers
  <2> QED BY <2>1, OthersClose
<1>2. ASSUME NEW c \in Calls, NEW op \in Operations, Begin(c, op) PROVE StaleSessionsGo'
  <2>1. /\ record' = record /\ session' = session /\ c \in Handlers /\ ~Closing(c)
        /\ \E call : calls' = [calls EXCEPT ![c] = call]
    BY <1>2 DEF Begin, gateway, Closing, Handlers
  <2> QED BY <2>1, OthersClose
<1>3. ASSUME NEW c \in Handlers, ReadRecord(c) PROVE StaleSessionsGo'
  <2>1. /\ record' = record /\ session' = session /\ ~Closing(c)
        /\ \E call : calls' = [calls EXCEPT ![c] = call]
    BY <1>3 DEF ReadRecord, gateway, Closing
  <2> QED BY <2>1, OthersClose
<1>4. ASSUME NEW c \in Handlers, ClearRecord(c) PROVE StaleSessionsGo'
  BY <1>4, OutlivedGo DEF ClearRecord
<1>5. ASSUME NEW c \in Handlers, SaveRecord(c) \/ WriteSession(c) PROVE StaleSessionsGo'
  <2>1. PICK call \in CallRecord : /\ calls' = [calls EXCEPT ![c] = call] /\ call.at \in {"done", "status"}
                                   /\ call.at = "done" => Outlives
    BY <1>5, ClosesNextIs DEF SaveRecord, WriteSession
  <2>2. CASE call.at = "status"
    <3>1. calls'[c].at = "status" /\ c \in Calls \cup {Cli}
      BY <2>1, <2>2, OneMoves DEF Handlers
    <3> QED BY <3>1 DEF StaleSessionsGo
  <2> QED BY <2>1, <2>2, OutlivedGo
<1>6. ASSUME NEW c \in Handlers, GetStatus(c) \/ DeleteSession(c) PROVE StaleSessionsGo'
  <2>1. record' = record
    BY <1>6 DEF GetStatus, DeleteSession
  <2>2. CASE KeepsSession(c)
    BY <2>2, KeepsSessionIs DEF StaleSessionsGo
  <2>3. CASE GetStatus(c) /\ ~KeepsSession(c)
    <3> DEFINE call == [calls[c] EXCEPT !.at = "delete", !.sid = session.id]
    <3>1. session' = session /\ (session # None => calls' = [calls EXCEPT ![c] = call])
      BY <2>3 DEF GetStatus, TypeOK, Handlers
    <3>2. c \in Calls \cup {Cli} /\ call.at = "delete" /\ call.sid = session.id
      <4>1. calls[c] \in CallRecord
        BY AnswerTypes
      <4> QED BY <4>1 DEF CallRecord, Handlers
    <3> HIDE DEF call
    <3>3. session # None => calls'[c] = call
      BY <3>1, <3>2 DEF TypeOK
    <3> QED BY <3>1, <3>2, <3>3 DEF StaleSessionsGo
  <2>4. CASE DeleteSession(c) /\ ~KeepsSession(c)
    <3>1. /\ calls[c].at = "delete" /\ calls' = [calls EXCEPT ![c] = Answers(c)]
          /\ session' = IF session # None /\ session.id = calls[c].sid THEN None ELSE session
      BY <2>4 DEF DeleteSession
    <3>2. CASE session # None /\ session.id = calls[c].sid
      BY <3>1, <3>2 DEF StaleSessionsGo
    <3>3. CASE session = None \/ session.id # calls[c].sid
      <4>1. session' = session /\ (session # None => ~Closing(c))
        BY <3>1, <3>3 DEF Closing
      <4> QED BY <2>1, <3>1, <4>1, OthersClose
    <3> QED BY <3>2, <3>3
  <2> QED BY <1>6, <2>2, <2>3, <2>4
<1>7. ASSUME NEW c \in Handlers, NodeCrashes(c) PROVE StaleSessionsGo'
  <2>1. CASE session # None /\ session'.kept
    BY <2>1 DEF StaleSessionsGo
  <2>2. CASE session = None \/ ~session'.kept
    <3>1. session' = session /\ (session # None => ~Closing(c))
      BY <1>7, <2>2, CrashIs DEF Closing
    <3>2. record' = record /\ \E call : calls' = [calls EXCEPT ![c] = call]
      BY <1>7, CrashIs
    <3> QED BY <3>1, <3>2, OthersClose
  <2> QED BY <2>1, <2>2
<1> QED BY <1>1, <1>2, <1>3, <1>4, <1>5, <1>6, <1>7 DEF StepOfServer, Serve

LEMMA StaleByLoop ==
  ASSUME TypeOK, ExchangeWaits, StaleSessionsGo, StepOfLoop
  PROVE  StaleSessionsGo'
<1>c. Cli \in Handlers
  BY DEF Handlers
<1>1. CASE TakesKey \/ (Reconnect /\ StartExchange(link))
  <2>1. phase # "exchange" /\ record' = record /\ session' = session
        /\ \E call : calls' = [calls EXCEPT ![Cli] = call]
    BY <1>1 DEF TakesKey, Reconnect, StartExchange, gateway
  <2>2. ~Closing(Cli)
    BY <2>1 DEF ExchangeWaits, Closing
  <2> QED BY <1>c, <2>1, <2>2, OthersClose
<1>2. CASE Exchanged \/ ExchangeFails
  <2>1. record' = record /\ session' = session /\ ~Closing(Cli) /\ calls' = [calls EXCEPT ![Cli] = Free]
    BY <1>2 DEF Exchanged, ExchangeFails, gateway, Closing
  <2> QED BY <1>c, <2>1, OthersClose
<1>3. CASE \/ Opens \/ BoundArrives \/ SocketClosed \/ SessionEnds
           \/ (Reconnect /\ ~StartExchange(link))
  <2>1. UNCHANGED <<record, calls>> /\ session' \in {session, None}
    BY <1>3 DEF Opens, BoundArrives, SocketClosed, SessionEnds, Reconnect, server, gateway
  <2> QED BY <2>1, NoneMoves
<1>4. CASE SocketLost
  <2>1. UNCHANGED <<record, calls>> /\ HangUp
    BY <1>4 DEF SocketLost, server
  <2>2. session' = None \/ ~session'.up
    BY <2>1, HangUpIs
  <2> QED BY <2>1, <2>2, NoneMoves
<1>5. CASE Bind
  <2>1. UNCHANGED <<record, calls>>
    BY <1>5 DEF Bind, server
  <2>2. CASE session' = Session(binds', token, ~Opened(token))
    <3>1. session'.late = ~Opened(token) /\ session'.key = token
      BY <2>2 DEF Session
    <3> QED BY <2>1, <3>1 DEF StaleSessionsGo, Opened
  <2>3. CASE session' = session
    BY <2>1, <2>3, NoneMoves
  <2> QED BY <1>5, <2>2, <2>3 DEF Bind, gateway
<1> QED BY <1>1, <1>2, <1>3, <1>4, <1>5 DEF StepOfLoop

LEMMA StaleByOthers ==
  ASSUME TypeOK, StaleSessionsGo, StepOfUser \/ StepOfWatch
  PROVE  StaleSessionsGo'
<1>1. CASE Interrupt
  <2>1. record' = record /\ (HangUp \/ (session' = session /\ phase' # "exited"))
    BY <1>1 DEF Interrupt, CloseCurrent, Ended
  <2>2. CASE HangUp
    <3>1. session' = None \/ ~session'.up
      BY <2>2, HangUpIs
    <3> QED BY <3>1 DEF StaleSessionsGo
  <2>3. CASE session' = session /\ phase' # "exited"
    <3>1. calls' = [calls EXCEPT ![Cli] = @]
      BY <1>1, <2>3 DEF Interrupt
    <3>2. calls' = calls
      BY <3>1 DEF TypeOK
    <3> QED BY <2>1, <2>3, <3>2, NoneMoves
  <2> QED BY <2>1, <2>2, <2>3
<1>2. CASE ConfigureKey
  <2>1. UNCHANGED <<record, calls>> /\ (HangUp \/ session' = session)
    BY <1>2 DEF ConfigureKey, CloseCurrent, server
  <2>2. session' = None \/ session' = session \/ ~session'.up
    BY <2>1, HangUpIs
  <2> QED BY <2>1, <2>2, NoneMoves
<1>3. CASE StepOfWatch
  <2>1. UNCHANGED <<record, calls, session>>
    BY <1>3 DEF StepOfWatch, LoadTargets, Edit, Debounce, Reload, server, gateway
  <2> QED BY <2>1, NoneMoves
<1> QED BY <1>1, <1>2, <1>3 DEF StepOfUser

-----------------------------------------------------------------------------
LEMMA Unmoved ==
  ASSUME UNCHANGED vars
  PROVE  (ExchangeWaits => ExchangeWaits') /\ (Chosen => Chosen') /\ (StaleSessionsGo => StaleSessionsGo')
<1>1. UNCHANGED <<record, calls, session, phase, link, token, persist, saved, missed>>
  BY DEF vars, server, gateway, options, history
<1> QED BY <1>1 DEF ExchangeWaits, Chosen, StaleSessionsGo, Opened

(* The CLI waits for an exchange only while its loop does.                 *)
THEOREM ExchangesAreAwaited == Spec => []ExchangeWaits
<1>1. TypeOK /\ ExchangeWaits /\ [Next]_vars => ExchangeWaits'
  BY Steps, ExchangeKept, Unmoved
<1> QED BY <1>1, WaitsInitially, ChannelTypes, PTL DEF Spec

(* A session that is connected uses the key the user configured last, and  *)
(* that key is saved, unless it was configured while the loop connected.   *)
THEOREM KeyIsInUse == Spec => []KeyInUse
<1>1. TypeOK /\ ExchangeWaits /\ Chosen /\ [Next]_vars => Chosen'
  BY Steps, ChosenByServer, ChosenByLoop, ChosenByUser, ChosenByWatch, Unmoved
<1>2. Init => Chosen
  BY DEF Init, Chosen
<1> QED BY <1>1, <1>2, ChosenImplies, ChannelTypes, ExchangesAreAwaited, PTL DEF Spec

(* A session whose key was replaced or revoked is about to be closed by    *)
(* the handler that did it, unless it was bound late or a request failed.  *)
THEOREM StaleSessionsAreClosed == Spec => []StaleSessionsGo
<1>1. TypeOK /\ ExchangeWaits /\ StaleSessionsGo /\ [Next]_vars => StaleSessionsGo'
  BY Steps, StaleByServer, StaleByLoop, StaleByOthers, Unmoved
<1>2. Init => StaleSessionsGo
  BY DEF Init, StaleSessionsGo
<1> QED BY <1>1, <1>2, ChannelTypes, ExchangesAreAwaited, PTL DEF Spec

-----------------------------------------------------------------------------
(* ToolRun: a call of a tool, over the server                              *)

(* What is on the way: a message with any number.                          *)
Sayings == [kind : R!Kinds, n : Nat]
Streams == [buf : Seq(Sayings), st : {"none", "open", "ended", "failed"}]

RunTyped ==
  /\ written \in Seq(Sayings) /\ heard \in Seq(Sayings)
  /\ wire \in Seq(Sayings) /\ data \in Streams

(* The caller has heard stream messages, as they were written.             *)
HeardAsWritten ==
  /\ Len(heard) <= Len(written)
  /\ \A i \in 1..Len(heard) : heard[i] = written[i] /\ written[i].kind = "stream"
  /\ client = "output" => Len(heard) < Len(written) /\ written[Len(heard) + 1].kind = "response"

(* Where route and stream are; a response is begun by the invocation.      *)
RouteGoes ==
  /\ route \in {"idle", "lookup", "invoke", "refused"} =>
       runtime = "none" /\ data = R!NoData /\ written = <<>> /\ wire = <<>> /\ heard = <<>> /\ ~cut
  /\ client = "new" => route = "idle" /\ ~buffer
  /\ runtime = "none" => route \in {"idle", "lookup", "invoke", "refused"}
  /\ data.st = "open" => route = "consuming"
  /\ data.st = "failed" => data.buf = <<>>
  /\ data.st = "none" => data.buf = <<>> /\ route \in {"idle", "lookup", "invoke", "refused"}

(* Of a call that is read, the connection has what was written after what  *)
(* the caller has heard, the error at the end at most excepted, and the    *)
(* stream has the rest, unless it failed.                                  *)
Awaits == wired = "up" /\ client \in {"requesting", "reading"}
WireFollows ==
  \A i \in 1..Len(wire) :
    \/ Len(heard) + i <= Len(written) /\ wire[i] = written[Len(heard) + i]
    \/ i = Len(wire) /\ route = "over" /\ wire[i].kind = "error"
DataFollows ==
  route = "consuming" /\ data.st # "failed" =>
    /\ Len(heard) + Len(wire) + Len(data.buf) = Len(written)
    /\ \A i \in 1..Len(data.buf) : data.buf[i] = written[Len(heard) + Len(wire) + i]
Flows == Awaits => (buffer <=> cut) /\ WireFollows /\ DataFollows

RunInv == RunTyped /\ HeardAsWritten /\ RouteGoes /\ Flows

LEMMA RunInvAtStart == ASSUME R!Init PROVE RunInv
<1>1. <<>> \in Seq(Sayings) /\ Len(<<>>) = 0
  OBVIOUS
<1>2. R!NoData \in Streams
  BY <1>1 DEF R!NoData, Streams
<1>. QED
  BY <1>1, <1>2 DEF R!Init, RunInv, RunTyped, HeardAsWritten, RouteGoes, Flows, Awaits, R!NoData

LEMMA RunInvSuffices == ASSUME RunInv PROVE R!AnswersAreTrue
<1>1. DOMAIN heard = 1..Len(heard)
  BY DEF RunInv, RunTyped
<1>. QED
  BY <1>1 DEF RunInv, HeardAsWritten, R!AnswersAreTrue

-----------------------------------------------------------------------------
(* Sequences that get longer, and parts of them.                           *)

LEMMA OneMore ==
  ASSUME NEW seq \in Seq(Sayings), NEW m \in Sayings
  PROVE  /\ Append(seq, m) \in Seq(Sayings) /\ Len(Append(seq, m)) = Len(seq) + 1 /\ Len(seq) \in Nat
         /\ \A i \in 1..Len(seq) : Append(seq, m)[i] = seq[i]
         /\ Append(seq, m)[Len(seq) + 1] = m
OBVIOUS

LEMMA OneLess ==
  ASSUME NEW seq \in Seq(Sayings), seq # <<>>
  PROVE  /\ Tail(seq) \in Seq(Sayings) /\ Len(Tail(seq)) = Len(seq) - 1 /\ Len(seq) \in Nat /\ Len(seq) > 0
         /\ Head(seq) \in Sayings /\ Head(seq) = seq[1]
         /\ \A i \in 1..(Len(seq) - 1) : Tail(seq)[i] = seq[i + 1]
OBVIOUS

LEMMA FirstPart ==
  ASSUME NEW seq \in Seq(Sayings), NEW n \in 0..Len(seq)
  PROVE  /\ SubSeq(seq, 1, n) \in Seq(Sayings) /\ Len(SubSeq(seq, 1, n)) = n
         /\ \A i \in 1..n : SubSeq(seq, 1, n)[i] = seq[i]
OBVIOUS

LEMMA LastPart ==
  ASSUME NEW seq \in Seq(Sayings), NEW n \in 0..Len(seq)
  PROVE  /\ SubSeq(seq, n + 1, Len(seq)) \in Seq(Sayings) /\ Len(SubSeq(seq, n + 1, Len(seq))) = Len(seq) - n
         /\ \A i \in 1..(Len(seq) - n) : SubSeq(seq, n + 1, Len(seq))[i] = seq[n + i]
OBVIOUS

LEMMA Joined ==
  ASSUME NEW seq \in Seq(Sayings), NEW more \in Seq(Sayings)
  PROVE  /\ seq \o more \in Seq(Sayings) /\ Len(seq \o more) = Len(seq) + Len(more)
         /\ \A i \in 1..Len(seq) : (seq \o more)[i] = seq[i]
         /\ \A i \in 1..Len(more) : (seq \o more)[Len(seq) + i] = more[i]
OBVIOUS

(* What is heard (a), on the wire (b) and in the buffer (c), of what is    *)
(* written (d), when a message goes on or is written.                      *)
LEMMA Counted ==
  ASSUME NEW a \in Nat, NEW b \in Nat, NEW c \in Nat, NEW d \in Nat, a + b + c = d
  PROVE  /\ c > 0 => a + (b + 1) <= d /\ a + (b + 1) + (c - 1) = d
         /\ a + b + (c + 1) = d + 1
         /\ \A i \in 1..c : a + b + i \in 1..d
OBVIOUS

(* A stream with another buffer, one that is closed, one that fails.       *)
LEMMA OtherBuffer ==
  ASSUME data \in Streams, NEW seq \in Seq(Sayings)
  PROVE  LET other == [data EXCEPT !.buf = seq]
         IN  other \in Streams /\ other.buf = seq /\ other.st = data.st
BY DEF Streams

LEMMA ClosedStream ==
  ASSUME data \in Streams
  PROVE  /\ R!CloseData \in Streams /\ R!CloseData.buf = data.buf
         /\ data.st = "open" => R!CloseData.st = "ended"
         /\ data.st # "open" => R!CloseData = data
BY DEF Streams, R!CloseData

LEMMA FailedStream ==
  LET failed == [buf |-> <<>>, st |-> "failed"]
  IN  failed \in Streams /\ failed.buf = <<>> /\ failed.st = "failed"
<1>1. <<>> \in Seq(Sayings)
  OBVIOUS
<1>. QED
  BY <1>1 DEF Streams

-----------------------------------------------------------------------------
(* The caller                                                              *)

(* It hears n messages of the wire that are no terminal ones.              *)
LEMMA Hears ==
  ASSUME RunInv, Awaits, NEW n \in 0..Len(wire), \A i \in 1..n : ~R!IsTerminal(wire[i]),
         heard' = heard \o SubSeq(wire, 1, n)
  PROVE  /\ heard' \in Seq(Sayings) /\ Len(heard') = Len(heard) + n /\ Len(heard') <= Len(written)
         /\ \A i \in 1..Len(heard') : heard'[i] = written[i] /\ written[i].kind = "stream"
<1>1. /\ wire \in Seq(Sayings) /\ heard \in Seq(Sayings) /\ Len(wire) \in Nat /\ Len(heard) \in Nat
      /\ written \in Seq(Sayings) /\ Len(written) \in Nat /\ Len(heard) <= Len(written)
  BY DEF RunInv, RunTyped, HeardAsWritten
<1>2. /\ SubSeq(wire, 1, n) \in Seq(Sayings) /\ Len(SubSeq(wire, 1, n)) = n
      /\ \A i \in 1..n : SubSeq(wire, 1, n)[i] = wire[i]
  BY <1>1, FirstPart
<1>3. /\ heard' \in Seq(Sayings) /\ Len(heard') = Len(heard) + n
      /\ \A i \in 1..Len(heard) : heard'[i] = heard[i]
      /\ \A i \in 1..n : heard'[Len(heard) + i] = wire[i]
  BY <1>1, <1>2, Joined
<1>4. \A i \in 1..n : /\ Len(heard) + i <= Len(written)
                      /\ wire[i] = written[Len(heard) + i] /\ wire[i].kind = "stream"
  <2> TAKE i \in 1..n
  <2>1. i \in 1..Len(wire) /\ wire[i] \in Sayings
    BY <1>1
  <2>2. wire[i].kind = "stream"
    BY <2>1 DEF Sayings, R!Kinds, R!IsTerminal
  <2>. QED
    BY <2>1, <2>2 DEF RunInv, Flows, WireFollows
<1>5. Len(heard') <= Len(written)
  <2>1. CASE n = 0
    BY <2>1, <1>1, <1>3
  <2>2. CASE n # 0
    <3>1. n \in 1..n
      BY <2>2, <1>1
    <3>. QED
      BY <3>1, <1>3, <1>4
  <2>. QED
    BY <2>1, <2>2
<1>6. \A i \in 1..Len(heard') : heard'[i] = written[i] /\ written[i].kind = "stream"
  <2> TAKE i \in 1..Len(heard')
  <2>1. CASE i <= Len(heard)
    <3>1. i \in 1..Len(heard)
      BY <1>1, <1>3, <2>1
    <3>. QED
      BY <3>1, <1>3 DEF RunInv, HeardAsWritten
  <2>2. CASE ~(i <= Len(heard))
    <3>1. PICK k \in 1..n : i = Len(heard) + k
      <4>1. i - Len(heard) \in 1..n /\ i = Len(heard) + (i - Len(heard))
        BY <1>1, <1>3, <2>2
      <4>. QED
        BY <4>1
    <3>2. heard'[Len(heard) + k] = wire[k] /\ wire[k] = written[Len(heard) + k] /\ wire[k].kind = "stream"
      BY <1>3, <1>4
    <3>. QED
      BY <3>1, <3>2
  <2>. QED
    BY <2>1, <2>2
<1>. QED
  BY <1>3, <1>5, <1>6

LEMMA ReadBodyKeeps == ASSUME RunInv, R!ReadBody PROVE RunInv'
<1>1. /\ Awaits /\ client = "reading" /\ (buffer <=> cut)
      /\ UNCHANGED <<route, data, http, runtime, written>>
  BY DEF R!ReadBody, Awaits, RunInv, Flows, R!server
<1>2. PICK n \in 0..Len(wire), begun \in BOOLEAN :
        /\ buffer' = begun /\ R!Handle(R!Parsed(n))
        /\ IF wired' = "down" THEN wire' = <<>> /\ cut' = FALSE
           ELSE wire' = SubSeq(wire, n + 1, Len(wire)) /\ cut' = begun
  BY DEF R!ReadBody, R!Rest
<1>3. /\ wire \in Seq(Sayings) /\ Len(wire) \in Nat /\ written \in Seq(Sayings) /\ Len(written) \in Nat
      /\ heard \in Seq(Sayings) /\ Len(heard) \in Nat
  BY DEF RunInv, RunTyped
<1>4. PICK messages : messages = SubSeq(wire, 1, n)
  OBVIOUS
<1>5. R!Parsed(n) = messages
  BY <1>1, <1>4 DEF R!Parsed
<1>6. /\ messages \in Seq(Sayings) /\ Len(messages) = n /\ DOMAIN messages = 1..n
      /\ \A i \in 1..n : messages[i] = wire[i]
  BY <1>3, <1>4, FirstPart
<1>7. /\ data \in Streams /\ data.buf \in Seq(Sayings) /\ <<>> \in Seq(Sayings) /\ Len(<<>>) = 0
      /\ RouteGoes /\ HeardAsWritten
  BY DEF RunInv, RunTyped, Streams
<1>8. route \notin {"idle", "lookup", "invoke", "refused"} \/ (heard' = <<>> /\ wire' = <<>> /\ ~cut')
  <2>1. CASE wire = <<>>
    <3>1. n = 0 /\ messages = <<>>
      BY <1>3, <1>6, <2>1
    <3>2. FALSE
      BY <2>1 DEF R!ReadBody
    <3>. QED
      BY <3>2
  <2>2. CASE wire # <<>>
    BY <2>2, <1>7 DEF RouteGoes
  <2>. QED
    BY <2>1, <2>2
<1>9. RouteGoes'
  <2>1. client' # "new"
    BY <1>1, <1>2, <1>5 DEF R!Handle
  <2>. QED
    BY <1>1, <1>7, <1>8, <2>1 DEF RouteGoes
<1>10. CASE /\ \A i \in 1..n : ~R!IsTerminal(messages[i])
            /\ heard' = heard \o messages /\ UNCHANGED <<client, wired>>
  <2>1. /\ heard' \in Seq(Sayings) /\ Len(heard') = Len(heard) + n /\ Len(heard') <= Len(written)
        /\ \A i \in 1..Len(heard') : heard'[i] = written[i] /\ written[i].kind = "stream"
    BY <1>1, <1>4, <1>6, <1>10, Hears
  <2>2. /\ wire' = SubSeq(wire, n + 1, Len(wire)) /\ (cut' <=> buffer') /\ client' = "reading"
    BY <1>1, <1>2, <1>10 DEF Awaits
  <2>3. /\ wire' \in Seq(Sayings) /\ Len(wire') = Len(wire) - n
        /\ \A i \in 1..(Len(wire) - n) : wire'[i] = wire[n + i]
    BY <1>3, <2>2, LastPart
  <2>4. WireFollows'
    <3>1. SUFFICES ASSUME NEW i \in 1..(Len(wire) - n)
                   PROVE  \/ Len(heard') + i <= Len(written) /\ wire'[i] = written[Len(heard') + i]
                          \/ i = Len(wire') /\ route = "over" /\ wire'[i].kind = "error"
      BY <1>1, <2>3 DEF WireFollows
    <3>2. PICK k \in 1..Len(wire) : k = n + i
      BY <1>3
    <3>3. Len(heard') + i = Len(heard) + k /\ wire'[i] = wire[k] /\ (k = Len(wire) => i = Len(wire'))
      BY <1>3, <2>1, <2>3, <3>2
    <3>. QED
      BY <1>1, <3>3 DEF RunInv, Flows, WireFollows
  <2>5. DataFollows'
    <3>1. Len(heard') + Len(wire') = Len(heard) + Len(wire)
      BY <1>3, <2>1, <2>3
    <3>. QED
      BY <1>1, <3>1 DEF RunInv, Flows, DataFollows
  <2>6. RunTyped' /\ HeardAsWritten'
    BY <1>1, <1>7, <2>1, <2>2, <2>3, <1>3 DEF RunTyped, HeardAsWritten
  <2>. QED
    BY <1>9, <2>2, <2>4, <2>5, <2>6 DEF RunInv, Flows
<1>11. ASSUME NEW t \in 1..n, R!IsTerminal(messages[t]), \A i \in 1..n : R!IsTerminal(messages[i]) => t <= i,
              heard' = heard \o SubSeq(messages, 1, t - 1), wired' = "down",
              client' = IF messages[t].kind = "response" THEN "output" ELSE "error"
       PROVE  RunInv'
  <2>1. t - 1 \in 0..n /\ t - 1 \in 0..Len(wire) /\ t \in 1..Len(wire)
    BY <1>3
  <2>2. SubSeq(messages, 1, t - 1) = SubSeq(wire, 1, t - 1)
    BY <1>3, <1>4, <1>6, <2>1
  <2>3. \A i \in 1..(t - 1) : ~R!IsTerminal(wire[i])
    BY <1>3, <1>6, <1>11
  <2>4. /\ heard' \in Seq(Sayings) /\ Len(heard') = Len(heard) + (t - 1) /\ Len(heard') <= Len(written)
        /\ \A i \in 1..Len(heard') : heard'[i] = written[i] /\ written[i].kind = "stream"
    BY <1>1, <1>11, <2>1, <2>2, <2>3, Hears
  <2>5. client' = "output" => Len(heard') < Len(written) /\ written[Len(heard') + 1].kind = "response"
    <3>1. SUFFICES ASSUME wire[t].kind = "response"
                   PROVE  Len(heard') < Len(written) /\ written[Len(heard') + 1].kind = "response"
      BY <1>6, <1>11
    <3>2. Len(heard) + t <= Len(written) /\ wire[t] = written[Len(heard) + t]
      BY <1>1, <2>1, <3>1 DEF RunInv, Flows, WireFollows
    <3>3. Len(heard') + 1 = Len(heard) + t
      BY <1>3, <2>1, <2>4
    <3>. QED
      BY <1>3, <2>1, <2>4, <3>1, <3>2, <3>3
  <2>6. wire' = <<>> /\ ~Awaits'
    BY <1>2, <1>11 DEF Awaits
  <2>. QED
    BY <1>1, <1>3, <1>7, <1>9, <2>4, <2>5, <2>6 DEF RunInv, RunTyped, HeardAsWritten, Flows
<1>12. \/ /\ \A i \in 1..n : ~R!IsTerminal(messages[i])
          /\ heard' = heard \o messages /\ UNCHANGED <<client, wired>>
       \/ \E t \in 1..n : /\ R!IsTerminal(messages[t]) /\ \A i \in 1..n : R!IsTerminal(messages[i]) => t <= i
                          /\ heard' = heard \o SubSeq(messages, 1, t - 1) /\ wired' = "down"
                          /\ client' = IF messages[t].kind = "response" THEN "output" ELSE "error"
  BY <1>2, <1>5, <1>6 DEF R!Handle
<1>. QED
  BY <1>10, <1>11, <1>12

(* The other steps of the caller and its connection.                       *)
LEMMA CallerKeeps ==
  ASSUME RunInv, R!Request \/ R!ResponseArrives \/ R!ListenerThrows \/ R!BodyEnds \/ R!Abort
  PROVE  RunInv'
<1>1. UNCHANGED <<data, runtime, written, http, buffer, heard>> /\ client' # "new" /\ client' # "output"
  BY DEF R!Request, R!ResponseArrives, R!ListenerThrows, R!BodyEnds, R!Abort, R!server
<1>2. <<>> \in Seq(Sayings)
  OBVIOUS
<1>3. RunTyped' /\ HeardAsWritten'
  BY <1>1, <1>2 DEF R!Request, R!ResponseArrives, R!ListenerThrows, R!BodyEnds, R!Abort, R!Hangs, R!server, R!connection,
     RunInv, RunTyped, HeardAsWritten
<1>4. CASE R!Request
  <2>1. /\ route = "idle" /\ ~buffer /\ ~cut /\ wire = <<>> /\ data = R!NoData /\ written = <<>>
        /\ heard = <<>> /\ runtime = "none" /\ UNCHANGED <<wire, cut>> /\ route' \in {"idle", "lookup"}
    BY <1>4 DEF R!Request, RunInv, RouteGoes
  <2>2. RouteGoes'
    BY <1>1, <2>1 DEF RouteGoes, R!NoData
  <2>3. WireFollows' /\ DataFollows'
    BY <1>1, <2>1 DEF WireFollows, DataFollows
  <2>. QED
    BY <1>1, <1>3, <2>1, <2>2, <2>3 DEF RunInv, Flows
<1>5. CASE R!ResponseArrives
  <2>1. UNCHANGED <<route, wired, wire, cut>> /\ client = "requesting" /\ wired = "up"
    BY <1>5 DEF R!ResponseArrives, R!server, R!connection
  <2>2. Awaits /\ WireFollows' = WireFollows /\ DataFollows' = DataFollows
    BY <1>1, <2>1 DEF Awaits, WireFollows, DataFollows
  <2>. QED
    BY <1>1, <1>3, <2>1, <2>2 DEF RunInv, RouteGoes, Flows
<1>6. CASE R!ListenerThrows \/ R!BodyEnds
  <2>1. UNCHANGED <<route, wire, cut>> /\ client' = "error"
    BY <1>6 DEF R!ListenerThrows, R!BodyEnds, R!server, R!connection
  <2>. QED
    BY <1>1, <1>3, <2>1 DEF RunInv, RouteGoes, Flows, Awaits
<1>7. CASE R!Abort
  <2>1. UNCHANGED route /\ wire' = <<>> /\ ~cut' /\ client' = "error"
    BY <1>7 DEF R!Abort, R!Hangs, R!server
  <2>. QED
    BY <1>1, <1>3, <2>1 DEF RunInv, RouteGoes, Flows, Awaits
<1>. QED
  BY <1>4, <1>5, <1>6, <1>7

-----------------------------------------------------------------------------
(* The server                                                              *)

LEMMA StartKeeps == ASSUME RunInv, R!Lookup \/ R!Invoke PROVE RunInv'
<1>1. UNCHANGED <<written, wired, wire, cut, client, buffer, heard>> /\ route \in {"lookup", "invoke"}
  BY DEF R!Lookup, R!Invoke, R!connection, R!caller
<1>2. /\ runtime = "none" /\ data = R!NoData /\ written = <<>> /\ wire = <<>> /\ heard = <<>> /\ ~cut /\ client # "new"
  BY <1>1 DEF RunInv, RouteGoes
<1>3. CASE route' \in {"invoke", "refused"} /\ UNCHANGED <<data, runtime>>
  BY <1>1, <1>2, <1>3 DEF RunInv, RunTyped, HeardAsWritten, RouteGoes, Flows, Awaits, WireFollows, DataFollows
<1>4. CASE route' = "consuming" /\ data' = [buf |-> <<>>, st |-> "open"] /\ runtime' = "running"
  <2>1. /\ <<>> \in Seq(Sayings) /\ Len(<<>>) = 0 /\ data'.buf = <<>> /\ data'.st = "open"
        /\ data' \in Streams
    BY <1>4 DEF Streams
  <2>2. RunTyped' /\ HeardAsWritten' /\ RouteGoes'
    BY <1>1, <1>2, <1>4, <2>1 DEF RunInv, RunTyped, HeardAsWritten, RouteGoes
  <2>3. WireFollows' /\ DataFollows'
    BY <1>1, <1>2, <2>1 DEF WireFollows, DataFollows
  <2>4. Awaits' = Awaits
    BY <1>1 DEF Awaits
  <2>. QED
    BY <1>1, <2>2, <2>3, <2>4 DEF RunInv, Flows
<1>. QED
  BY <1>3, <1>4 DEF R!Lookup, R!Invoke

(* The response gets a message of the stream, or the error at its end.     *)
LEMMA ConsumeKeeps ==
  ASSUME RunInv, R!Consume \/ R!ConsumeEnds PROVE RunInv'
<1>1. UNCHANGED <<runtime, written, wired, cut, client, buffer, heard>> /\ route = "consuming"
  BY DEF R!Consume, R!ConsumeEnds, R!caller
<1>2. /\ wire \in Seq(Sayings) /\ Len(wire) \in Nat /\ written \in Seq(Sayings) /\ Len(written) \in Nat
      /\ heard \in Seq(Sayings) /\ Len(heard) \in Nat /\ data.buf \in Seq(Sayings) /\ data \in Streams
  BY DEF RunInv, RunTyped, Streams
<1>3. /\ RouteGoes /\ HeardAsWritten' /\ Awaits' = Awaits /\ runtime # "none" /\ client # "new" /\ data.st # "none"
  BY <1>1 DEF RunInv, RouteGoes, HeardAsWritten, Awaits
<1>4. CASE R!Consume /\ http = "open"
  <2>0. /\ data.buf # <<>> /\ route' = route /\ data' = [data EXCEPT !.buf = Tail(data.buf)]
        /\ R!Send(Head(data.buf)) /\ Tail(data.buf) \in Seq(Sayings)
    BY <1>2, <1>4, OneLess DEF R!Consume
  <2>1. /\ data.buf # <<>> /\ route' = route /\ data'.buf = Tail(data.buf) /\ data'.st = data.st
        /\ R!Send(Head(data.buf)) /\ data' \in Streams
    BY <1>2, <2>0, OtherBuffer
  <2>2. /\ data'.buf \in Seq(Sayings) /\ Len(data'.buf) = Len(data.buf) - 1
        /\ Len(data.buf) \in Nat /\ Len(data.buf) > 0 /\ Head(data.buf) \in Sayings /\ Head(data.buf) = data.buf[1]
        /\ \A i \in 1..(Len(data.buf) - 1) : data'.buf[i] = data.buf[i + 1]
    BY <1>2, <2>1, OneLess
  <2>3. wire' \in Seq(Sayings)
    BY <1>2, <2>1, <2>2, OneMore DEF R!Send
  <2>4. RouteGoes'
    BY <1>1, <1>3, <2>1 DEF RouteGoes
  <2>5. ASSUME Awaits PROVE WireFollows' /\ DataFollows'
    <3>1. /\ Len(wire') = Len(wire) + 1 /\ \A i \in 1..Len(wire) : wire'[i] = wire[i]
          /\ wire'[Len(wire) + 1] = data.buf[1]
      BY <1>2, <2>1, <2>2, <2>5, OneMore DEF R!Send, Awaits
    <3>2. /\ Len(heard) + Len(wire) + Len(data.buf) = Len(written)
          /\ \A i \in 1..Len(data.buf) : data.buf[i] = written[Len(heard) + Len(wire) + i]
      BY <1>1, <1>3, <2>1, <2>5 DEF RunInv, Flows, DataFollows, RouteGoes
    <3>3. \A i \in 1..Len(wire) : Len(heard) + i <= Len(written) /\ wire[i] = written[Len(heard) + i]
      BY <1>1, <2>5 DEF RunInv, Flows, WireFollows
    <3>4. 1 \in 1..Len(data.buf) /\ Len(heard) + (Len(wire) + 1) <= Len(written)
          /\ wire'[Len(wire) + 1] = written[Len(heard) + (Len(wire) + 1)]
      <4>1. 1 \in 1..Len(data.buf) /\ Len(heard) + Len(wire) + 1 = Len(heard) + (Len(wire) + 1)
        BY <1>2, <2>2
      <4>2. data.buf[1] = written[Len(heard) + Len(wire) + 1]
        BY <3>2, <4>1
      <4>3. Len(heard) + (Len(wire) + 1) <= Len(written)
        BY <1>2, <2>2, <3>2, Counted
      <4>. QED
        BY <3>1, <4>1, <4>2, <4>3
    <3>5. WireFollows'
      <4>1. SUFFICES ASSUME NEW i \in 1..(Len(wire) + 1)
                     PROVE  Len(heard) + i <= Len(written) /\ wire'[i] = written[Len(heard) + i]
        BY <1>1, <3>1 DEF WireFollows
      <4>2. CASE i \in 1..Len(wire)
        BY <4>2, <3>1, <3>3
      <4>3. CASE i = Len(wire) + 1
        BY <4>3, <3>4
      <4>. QED
        BY <1>2, <4>2, <4>3
    <3>6. DataFollows'
      <4>1. Len(heard) + Len(wire') + Len(data'.buf) = Len(written)
        <5>1. PICK a \in Nat, b \in Nat, c \in Nat, d \in Nat :
                a = Len(heard) /\ b = Len(wire) /\ c = Len(data.buf) /\ d = Len(written)
          BY <1>2, <2>2
        <5>2. a + b + c = d /\ c > 0 /\ Len(wire') = b + 1 /\ Len(data'.buf) = c - 1
          BY <2>2, <3>1, <3>2, <5>1
        <5>3. a + (b + 1) + (c - 1) = d
          BY <5>2, Counted
        <5>. QED
          BY <5>1, <5>2, <5>3
      <4>2. ASSUME NEW i \in 1..Len(data'.buf)
            PROVE  data'.buf[i] = written[Len(heard) + Len(wire') + i]
        <5>1. PICK k \in 1..Len(data.buf) : k = i + 1
          BY <2>2
        <5>2. data'.buf[i] = data.buf[k]
          BY <2>2, <5>1
        <5>3. PICK a \in Nat, b \in Nat, e \in Nat : a = Len(heard) /\ b = Len(wire) /\ e = i
          BY <1>2, <2>2
        <5>4. Len(wire') = b + 1 /\ k = e + 1
          BY <3>1, <5>1, <5>3
        <5>5. a + (b + 1) + e = a + b + (e + 1)
          OBVIOUS
        <5>. QED
          BY <3>2, <5>1, <5>2, <5>3, <5>4, <5>5
      <4>. QED
        BY <1>1, <4>1, <4>2 DEF DataFollows
    <3>. QED
      BY <3>5, <3>6
  <2>. QED
    BY <1>1, <1>2, <1>3, <2>1, <2>3, <2>4, <2>5 DEF RunInv, RunTyped, Flows
<1>5. CASE R!Consume /\ http # "open"
  <2>1. route' = "over" /\ data' = [buf |-> <<>>, st |-> "failed"] /\ wire' = wire
    BY <1>5 DEF R!Consume
  <2>2. data'.buf = <<>> /\ data'.st = "failed" /\ data' \in Streams
    BY <2>1, FailedStream
  <2>3. RouteGoes' /\ RunTyped'
    BY <1>1, <1>2, <1>3, <2>1, <2>2 DEF RouteGoes, RunTyped
  <2>4. Awaits => WireFollows' /\ DataFollows'
    BY <1>1, <2>1 DEF RunInv, Flows, WireFollows, DataFollows
  <2>. QED
    BY <1>1, <1>3, <2>3, <2>4 DEF RunInv, Flows
<1>6. CASE R!ConsumeEnds
  <2>1. route' = "over" /\ data' = data /\ data.st # "open"
    BY <1>6 DEF R!ConsumeEnds
  <2>2. PICK last \in Sayings : last = [kind |-> "error", n |-> 0]
    BY DEF Sayings, R!Kinds
  <2>3. wire' = wire \/ wire' = Append(wire, last)
    BY <1>6, <2>2 DEF R!ConsumeEnds, R!Send
  <2>4. /\ wire' \in Seq(Sayings) /\ Len(wire') \in {Len(wire), Len(wire) + 1}
        /\ \A i \in 1..Len(wire) : wire'[i] = wire[i]
        /\ Len(wire') = Len(wire) + 1 => wire'[Len(wire) + 1] = last
    <3>1. CASE wire' = wire
      BY <1>2, <3>1
    <3>2. CASE wire' = Append(wire, last)
      BY <1>2, <3>2, OneMore
    <3>. QED
      BY <2>3, <3>1, <3>2
  <2>5. RouteGoes' /\ RunTyped'
    BY <1>1, <1>2, <1>3, <2>1, <2>4 DEF RouteGoes, RunTyped
  <2>6. last.kind = "error"
    BY <2>2
  <2>7. Awaits => WireFollows'
    <3>1. SUFFICES ASSUME Awaits, NEW i \in 1..Len(wire')
                   PROVE  \/ Len(heard) + i <= Len(written) /\ wire'[i] = written[Len(heard) + i]
                          \/ i = Len(wire') /\ wire'[i].kind = "error"
      BY <1>1, <2>1 DEF WireFollows
    <3>2. CASE i \in 1..Len(wire)
      BY <1>1, <2>4, <3>1, <3>2 DEF RunInv, Flows, WireFollows
    <3>3. CASE i \notin 1..Len(wire)
      <4>1. i = Len(wire) + 1 /\ Len(wire') = Len(wire) + 1
        BY <1>2, <2>4, <3>3
      <4>. QED
        BY <4>1, <2>4, <2>6
    <3>. QED
      BY <3>2, <3>3
  <2>8. DataFollows'
    BY <2>1 DEF DataFollows
  <2>. QED
    BY <1>1, <1>3, <2>5, <2>7, <2>8 DEF RunInv, Flows
<1>. QED
  BY <1>4, <1>5, <1>6

(* The response is cancelled: its connection is gone.                      *)
LEMMA CancelKeeps == ASSUME RunInv, R!Cancel PROVE RunInv'
<1>1. UNCHANGED <<route, runtime, written, wired, wire, cut, client, buffer, heard>> /\ wired = "down" /\ data' = R!CloseData
  BY DEF R!Cancel, R!connection, R!caller
<1>2. /\ data'.buf = data.buf /\ (data.st = "open" => data'.st = "ended")
      /\ data.st # "open" => data' = data
      /\ data' \in Streams
  BY <1>1, ClosedStream DEF RunInv, RunTyped
<1>3. data = R!NoData => data' = R!NoData
  BY <1>2 DEF R!NoData
<1>. QED
  BY <1>1, <1>2, <1>3 DEF RunInv, RunTyped, HeardAsWritten, RouteGoes, Flows, Awaits

-----------------------------------------------------------------------------
(* The tool                                                                *)

LEMMA WriteKeeps == ASSUME RunInv, R!Write PROVE RunInv'
<1>1. UNCHANGED <<route, wired, wire, cut, client, buffer, heard>> /\ runtime = "running"
  BY DEF R!Write, R!connection, R!caller
<1>2. /\ wire \in Seq(Sayings) /\ Len(wire) \in Nat /\ written \in Seq(Sayings) /\ Len(written) \in Nat
      /\ heard \in Seq(Sayings) /\ Len(heard) \in Nat /\ data.buf \in Seq(Sayings) /\ RouteGoes
      /\ data \in Streams
  BY DEF RunInv, RunTyped, Streams
<1>3. CASE data.st # "open"
  <2>1. runtime' = "over" /\ UNCHANGED <<data, written>>
    BY <1>3 DEF R!Write
  <2>. QED
    BY <1>1, <2>1 DEF RunInv, RunTyped, HeardAsWritten, RouteGoes, Flows, Awaits, WireFollows, DataFollows
<1>4. CASE data.st = "open"
  <2>1. PICK kind \in R!Kinds :
          LET m == [kind |-> kind, n |-> Len(written) + 1]
          IN data' = [data EXCEPT !.buf = Append(@, m)] /\ written' = Append(written, m) /\ runtime' = runtime
    BY <1>4 DEF R!Write
  <2>0. PICK next \in Nat : next = Len(written) + 1
    BY <1>2
  <2>2. PICK m \in Sayings : m = [kind |-> kind, n |-> Len(written) + 1]
    BY <2>0 DEF Sayings
  <2>3. route = "consuming" /\ data # R!NoData
    BY <1>2, <1>4 DEF RouteGoes, R!NoData
  <2>4. /\ data'.st = data.st /\ data'.buf = Append(data.buf, m) /\ data' \in Streams
        /\ written' = Append(written, m)
    <3>1. data' = [data EXCEPT !.buf = Append(data.buf, m)] /\ written' = Append(written, m)
      BY <2>1, <2>2
    <3>. QED
      BY <1>2, <3>1, OneMore, OtherBuffer
  <2>5. /\ written' \in Seq(Sayings) /\ Len(written') = Len(written) + 1
        /\ \A i \in 1..Len(written) : written'[i] = written[i]
        /\ written'[Len(written) + 1] = m
    BY <1>2, <2>4, OneMore
  <2>6. /\ data'.buf \in Seq(Sayings) /\ Len(data'.buf) = Len(data.buf) + 1 /\ Len(data.buf) \in Nat
        /\ \A i \in 1..Len(data.buf) : data'.buf[i] = data.buf[i]
        /\ data'.buf[Len(data.buf) + 1] = m
    BY <1>2, <2>4, OneMore
  <2>7. RunTyped'
    BY <1>1, <1>2, <2>4, <2>5 DEF RunTyped
  <2>8. HeardAsWritten'
    <3>1. /\ Len(heard) <= Len(written)
          /\ \A i \in 1..Len(heard) : heard[i] = written[i] /\ written[i].kind = "stream"
          /\ client = "output" => Len(heard) < Len(written) /\ written[Len(heard) + 1].kind = "response"
      BY DEF RunInv, HeardAsWritten
    <3>2. Len(heard) <= Len(written') /\ \A i \in 1..Len(heard) : i \in 1..Len(written)
      BY <1>2, <2>5, <3>1
    <3>3. Len(heard) < Len(written) => Len(heard) < Len(written') /\ Len(heard) + 1 \in 1..Len(written)
      BY <1>2, <2>5
    <3>. QED
      BY <1>1, <2>5, <3>1, <3>2, <3>3 DEF HeardAsWritten
  <2>9. RouteGoes'
    BY <1>1, <1>2, <1>4, <2>1, <2>3, <2>4 DEF RouteGoes
  <2>10. ASSUME Awaits PROVE WireFollows' /\ DataFollows'
    <3>1. /\ Len(heard) + Len(wire) + Len(data.buf) = Len(written)
          /\ \A i \in 1..Len(data.buf) : data.buf[i] = written[Len(heard) + Len(wire) + i]
      BY <1>4, <2>3, <2>10 DEF RunInv, Flows, DataFollows
    <3>2. WireFollows'
      <4>1. SUFFICES ASSUME NEW i \in 1..Len(wire)
                     PROVE  Len(heard) + i <= Len(written') /\ wire[i] = written'[Len(heard) + i]
        BY <1>1 DEF WireFollows
      <4>2. Len(heard) + i <= Len(written) /\ wire[i] = written[Len(heard) + i]
        BY <2>3, <2>10 DEF RunInv, Flows, WireFollows
      <4>. QED
        BY <1>2, <2>5, <4>2
    <3>3. DataFollows'
      <4>1. PICK a \in Nat, b \in Nat, c \in Nat, d \in Nat :
            a = Len(heard) /\ b = Len(wire) /\ c = Len(data.buf) /\ d = Len(written)
        BY <1>2, <2>6
      <4>2. a + b + c = d /\ Len(data'.buf) = c + 1 /\ Len(written') = d + 1
        BY <2>5, <2>6, <3>1, <4>1
      <4>3. a + b + (c + 1) = d + 1 /\ \A i \in 1..c : a + b + i \in 1..d
        BY <4>2, Counted
      <4>4. Len(heard) + Len(wire) + Len(data'.buf) = Len(written')
        BY <4>1, <4>2, <4>3
      <4>5. ASSUME NEW i \in 1..Len(data'.buf)
            PROVE  data'.buf[i] = written'[Len(heard) + Len(wire) + i]
        <5>1. CASE i \in 1..Len(data.buf)
          <6>1. Len(heard) + Len(wire) + i \in 1..Len(written)
            BY <4>1, <4>3, <5>1
          <6>. QED
            BY <5>1, <6>1, <2>5, <2>6, <3>1
        <5>2. CASE i \notin 1..Len(data.buf)
          <6>1. i = Len(data.buf) + 1 /\ Len(heard) + Len(wire) + i = Len(written) + 1
            <7>1. i = c + 1
              BY <2>6, <4>1, <5>2
            <7>. QED
              BY <4>1, <4>3, <7>1
          <6>. QED
            BY <6>1, <2>5, <2>6
        <5>. QED
          BY <5>1, <5>2
      <4>. QED
        BY <1>1, <4>4, <4>5 DEF DataFollows
    <3>. QED
      BY <3>2, <3>3
  <2>11. Awaits' = Awaits
    BY <1>1 DEF Awaits
  <2>. QED
    BY <1>1, <2>7, <2>8, <2>9, <2>10, <2>11 DEF RunInv, Flows
<1>. QED
  BY <1>3, <1>4

LEMMA ToolEndsKeeps == ASSUME RunInv, R!ToolEnds PROVE RunInv'
<1>1. UNCHANGED <<route, written, wired, wire, cut, client, buffer, heard>> /\ runtime = "running" /\ runtime' = "over"
  BY DEF R!ToolEnds, R!connection, R!caller
<1>2. route \notin {"idle", "lookup", "invoke", "refused"} /\ data.st # "none"
  BY <1>1 DEF RunInv, RouteGoes
<1>3. data \in Streams
  BY DEF RunInv, RunTyped
<1>4. /\ data' \in Streams
      /\ \/ data' = data
         \/ data'.buf = data.buf /\ data.st = "open" /\ data'.st = "ended"
         \/ data'.buf = <<>> /\ data'.st = "failed"
  <2>1. CASE data' = R!CloseData
    BY <1>3, <2>1, ClosedStream
  <2>2. CASE data' = [buf |-> <<>>, st |-> "failed"]
    BY <2>2, FailedStream
  <2>. QED
    BY <1>3, <2>1, <2>2 DEF R!ToolEnds
<1>5. RunTyped' /\ HeardAsWritten'
  BY <1>1, <1>4 DEF RunInv, RunTyped, HeardAsWritten
<1>6. RouteGoes'
  BY <1>1, <1>2, <1>4 DEF RunInv, RouteGoes
<1>7. Awaits => WireFollows' /\ DataFollows'
  BY <1>1, <1>4 DEF RunInv, Flows, WireFollows, DataFollows
<1>. QED
  BY <1>1, <1>5, <1>6, <1>7 DEF RunInv, Flows, Awaits

LEMMA RunInvKept == ASSUME RunInv, [R!Next]_runVars PROVE RunInv'
<1>1. CASE UNCHANGED runVars
  BY <1>1 DEF runVars, R!server, R!connection, R!caller, RunInv, RunTyped, HeardAsWritten, RouteGoes, Flows, Awaits,
     WireFollows, DataFollows
<1>. QED
  BY <1>1, ReadBodyKeeps, CallerKeeps, StartKeeps, ConsumeKeeps, CancelKeeps, WriteKeeps, ToolEndsKeeps
     DEF R!Next, R!Call, R!Serve

-----------------------------------------------------------------------------
(* LocalDebug: a call of a tool that is debugged without a gateway         *)

Outputs == {"stream", "response", "bad", "error"}

(* What the tool has sent: messages, and one last when it is done.         *)
SentAsKnown ==
  /\ sent \in Seq(Outputs)
  /\ handler \in {"idle", "works", "uploads", "done"}
  /\ handler = "idle" => sent = <<>>
  /\ handler # "done" => ~ended /\ \A i \in 1..Len(sent) : sent[i] = "stream"
  /\ handler = "done" =>
       /\ ended /\ Len(sent) > 0
       /\ \A i \in 1..(Len(sent) - 1) : sent[i] = "stream"
       /\ sent[Len(sent)] \in {"response", "bad", "error"}

(* What the command has consumed, and the outcome it knows of.             *)
TakenAsSent ==
  /\ taken \in 0..Len(sent)
  /\ \A i \in 1..taken : sent[i] # "bad"
  /\ result.response = (IF ended /\ taken = Len(sent) /\ sent[Len(sent)] = "response" THEN taken ELSE 0)
  /\ result.error = (IF ended /\ taken = Len(sent) /\ sent[Len(sent)] = "error" THEN taken ELSE 0)

(* Where the command is: nothing runs before it has loaded the plugin.     *)
StepsOfCommand ==
  /\ command \in {"load", "import", "ready", "loaded", "run", "refused"} => handler = "idle"
  /\ command \in {"shown", "error shown"} =>
       /\ ended /\ taken = Len(sent)
       /\ command = "error shown" <=> result.error > 0
  /\ command = "threw" => ended /\ sent[Len(sent)] = "bad"
  /\ command \notin {"import", "ready"} => ~current
  /\ hosted.told = "url" => ~hosted.breaks /\ stored = hosted.chunks
  /\ handler = "uploads" => hosted.told = "nothing"

LocalInv == SentAsKnown /\ TakenAsSent /\ StepsOfCommand

LEMMA LocalInvAtStart == ASSUME L!Init PROVE LocalInv
BY DEF L!Init, LocalInv, SentAsKnown, TakenAsSent, StepsOfCommand, L!NoResult, L!NoUpload

LEMMA LocalInvSuffices == ASSUME LocalInv PROVE L!AnswersAreTrue
<1> USE DEF LocalInv
<1>1. Len(sent) \in Nat
  BY DEF SentAsKnown
<1>2. ASSUME command \in {"shown", "error shown"}
      PROVE  /\ taken = Len(sent) /\ handler = "done"
             /\ (command = "error shown") = (sent[Len(sent)] = "error")
             /\ (command = "shown") = (result.response = Len(sent))
  <2>1. ended /\ taken = Len(sent) /\ (command = "error shown" <=> result.error > 0)
    BY <1>2 DEF StepsOfCommand
  <2>2. PICK n \in Nat : n = Len(sent)
    BY <1>1
  <2>3. taken = n
    BY <2>1, <2>2
  <2>4. handler = "done" /\ Len(sent) > 0 /\ sent[Len(sent)] \in {"response", "bad", "error"}
    <3>1. handler = "done"
      BY <2>1 DEF SentAsKnown
    <3>. QED
      BY <3>1 DEF SentAsKnown
  <2>5. sent[Len(sent)] # "bad"
    <3>1. \A i \in 1..taken : sent[i] # "bad"
      BY DEF TakenAsSent
    <3>2. n > 0
      BY <2>4, <2>2
    <3>3. n \in 1..taken
      BY <2>3, <3>2
    <3>. QED
      BY <3>1, <3>3, <2>2
  <2>6. CASE sent[Len(sent)] = "error"
    <3>1. result.error = taken /\ result.response = 0
      BY <2>1, <2>6 DEF TakenAsSent
    <3>2. result.error > 0 /\ result.response # Len(sent)
      BY <2>4, <2>2, <2>3, <3>1
    <3>3. command = "error shown" /\ command # "shown"
      BY <2>1, <3>2
    <3>. QED
      BY <2>1, <2>4, <2>6, <3>2, <3>3
  <2>7. CASE sent[Len(sent)] = "response"
    <3>1. result.error = 0 /\ result.response = taken
      BY <2>1, <2>7 DEF TakenAsSent
    <3>2. ~(result.error > 0) /\ result.response = Len(sent)
      BY <2>2, <2>3, <3>1
    <3>3. command = "shown" /\ command # "error shown"
      BY <1>2, <2>1, <3>2
    <3>. QED
      BY <2>1, <2>4, <2>7, <3>2, <3>3
  <2>. QED
    BY <2>4, <2>5, <2>6, <2>7
<1>. QED
  BY <1>2 DEF L!AnswersAreTrue, StepsOfCommand

(* The command consumes one more.                                          *)
LEMMA CommandKeeps == ASSUME LocalInv, L!Consume PROVE LocalInv'
<1>1. /\ command = "consume" /\ taken < Len(sent) /\ UNCHANGED <<L!loading, handler, sent, ended, L!uploading>>
      /\ command' = (IF sent[taken + 1] = "bad" THEN "threw" ELSE command)
      /\ taken' = (IF sent[taken + 1] = "bad" THEN taken ELSE taken + 1)
      /\ result'.response = (IF sent[taken + 1] = "response" THEN taken + 1 ELSE result.response)
      /\ result'.error = (IF sent[taken + 1] = "error" THEN taken + 1 ELSE result.error)
  BY DEF L!Consume
<1>2. Len(sent) \in Nat /\ taken \in Nat /\ taken + 1 \in 1..Len(sent)
  BY <1>1 DEF LocalInv, SentAsKnown, TakenAsSent
<1>3. sent[taken + 1] \in Outputs
  BY <1>2 DEF LocalInv, SentAsKnown
<1>4. result.response = 0 /\ result.error = 0
  BY <1>1, <1>2 DEF LocalInv, TakenAsSent
<1>5. SentAsKnown'
  BY <1>1 DEF LocalInv, SentAsKnown, L!loading, L!uploading
<1>6. sent[taken + 1] # "stream" => ended /\ handler = "done" /\ taken + 1 = Len(sent)
  BY <1>2, <1>3 DEF LocalInv, SentAsKnown
<1>7. ended /\ taken + 1 = Len(sent) => sent[taken + 1] # "stream"
  <2>1. SUFFICES ASSUME ended, taken + 1 = Len(sent) PROVE sent[Len(sent)] # "stream"
    OBVIOUS
  <2>2. handler = "done"
    BY <2>1 DEF LocalInv, SentAsKnown
  <2>. QED
    BY <2>2 DEF LocalInv, SentAsKnown
<1>8. CASE sent[taken + 1] = "bad"
  <2>1. ended /\ taken + 1 = Len(sent) /\ taken' = taken /\ command' = "threw" /\ result'.response = 0 /\ result'.error = 0
    BY <1>1, <1>4, <1>6, <1>8
  <2>2. TakenAsSent'
    BY <1>1, <1>2, <2>1 DEF LocalInv, TakenAsSent, L!loading, L!uploading
  <2>3. StepsOfCommand'
    BY <1>1, <1>8, <2>1 DEF LocalInv, StepsOfCommand, L!loading, L!uploading
  <2>. QED
    BY <1>5, <2>2, <2>3 DEF LocalInv
<1>9. CASE sent[taken + 1] # "bad"
  <2>1. taken' = taken + 1 /\ command' = command /\ ended' = ended /\ sent' = sent
    BY <1>1, <1>9
  <2>2. /\ taken' \in 0..Len(sent') /\ \A i \in 1..taken' : sent'[i] # "bad"
    BY <1>2, <1>9, <2>1 DEF LocalInv, TakenAsSent
  <2>3. /\ result'.response = (IF ended' /\ taken' = Len(sent') /\ sent'[Len(sent')] = "response" THEN taken' ELSE 0)
        /\ result'.error = (IF ended' /\ taken' = Len(sent') /\ sent'[Len(sent')] = "error" THEN taken' ELSE 0)
    BY <1>1, <1>2, <1>4, <1>6, <1>7, <2>1
  <2>4. StepsOfCommand'
    BY <1>1, <2>1 DEF LocalInv, StepsOfCommand, L!loading, L!uploading
  <2>. QED
    BY <1>5, <2>2, <2>3, <2>4 DEF LocalInv, TakenAsSent
<1>. QED
  BY <1>8, <1>9

(* The tool sends a message, before its last or as its last.               *)
LEMMA SendKeeps ==
  ASSUME LocalInv, handler = "works", UNCHANGED <<command, L!loading, taken, result, L!uploading>>,
         NEW last \in Outputs, sent' = Append(sent, last),
         \/ last = "stream" /\ UNCHANGED <<handler, ended>>
         \/ last # "stream" /\ handler' = "done" /\ ended' = TRUE
  PROVE  LocalInv'
<1>1. sent \in Seq(Outputs) /\ Len(sent) \in Nat /\ ~ended /\ \A i \in 1..Len(sent) : sent[i] = "stream"
  BY DEF LocalInv, SentAsKnown
<1>2. /\ sent' \in Seq(Outputs) /\ Len(sent') = Len(sent) + 1
      /\ \A i \in 1..Len(sent) : sent'[i] = sent[i]
      /\ sent'[Len(sent) + 1] = last
  BY <1>1
<1>3. SentAsKnown'
  BY <1>1, <1>2 DEF SentAsKnown, Outputs
<1>4. taken \in 0..Len(sent) /\ result.response = 0 /\ result.error = 0 /\ taken' = taken /\ result' = result
  BY <1>1 DEF LocalInv, TakenAsSent
<1>5. taken' \in 0..Len(sent') /\ taken' # Len(sent') /\ \A i \in 1..taken' : sent'[i] # "bad"
  BY <1>1, <1>2, <1>4
<1>6. TakenAsSent'
  BY <1>4, <1>5 DEF TakenAsSent
<1>7. command' = command /\ current' = current /\ hosted' = hosted /\ stored' = stored
  BY DEF L!loading, L!uploading
<1>8. command \notin {"load", "import", "ready", "loaded", "run", "refused", "shown", "error shown", "threw"}
  BY <1>1 DEF LocalInv, StepsOfCommand
<1>9. StepsOfCommand'
  BY <1>7, <1>8 DEF LocalInv, StepsOfCommand
<1>. QED
  BY <1>3, <1>6, <1>9 DEF LocalInv

LEMMA LocalInvKept ==
  ASSUME LocalInv, [L!Next]_localVars PROVE LocalInv'
<1> USE DEF L!loading, L!running, L!uploading
<1>1. CASE L!Load \/ L!ImportFails \/ L!Import \/ L!Ready \/ L!Options \/ L!Notify
  <2>1. UNCHANGED <<L!running, L!uploading>> /\ (handler = "idle" \/ command \notin {"load", "import", "ready", "loaded"})
    BY <1>1 DEF L!Load, L!ImportFails, L!Import, L!Ready, L!Options, L!Notify, L!Goes, LocalInv, StepsOfCommand
  <2>2. SentAsKnown' /\ TakenAsSent'
    BY <2>1 DEF LocalInv, SentAsKnown, TakenAsSent
  <2>3. StepsOfCommand'
    <3>1. command' = command \/ (command' \in {"refused", "import", "ready", "loaded", "run"} /\ handler = "idle")
      BY <1>1, <2>1 DEF L!Load, L!ImportFails, L!Import, L!Ready, L!Options, L!Notify, L!Goes
    <3>2. command' \notin {"import", "ready"} => ~current'
      <4>1. command \notin {"import", "ready"} => ~current
        BY DEF LocalInv, StepsOfCommand
      <4>2. CASE L!Load
        BY <4>1, <4>2 DEF L!Load, L!Goes
      <4>3. CASE L!ImportFails \/ L!Ready
        BY <4>3 DEF L!ImportFails, L!Ready, L!Restore
      <4>4. CASE L!Import
        BY <4>4 DEF L!Import
      <4>5. CASE L!Options \/ L!Notify
        BY <4>1, <4>5 DEF L!Options, L!Notify, L!Goes
      <4>. QED
        BY <1>1, <4>2, <4>3, <4>4, <4>5
    <3>. QED
      BY <2>1, <3>1, <3>2 DEF LocalInv, StepsOfCommand
  <2>. QED
    BY <2>2, <2>3 DEF LocalInv
<1>2. CASE L!Run
  <2>1. /\ command = "run" /\ command' = "consume" /\ handler = "idle" /\ sent = <<>> /\ taken' = 0 /\ ~ended /\ taken = 0
        /\ result.response = 0 /\ result.error = 0 /\ UNCHANGED <<L!loading, taken, result, L!uploading>>
    BY <1>2 DEF L!Run, LocalInv, StepsOfCommand, SentAsKnown, TakenAsSent
  <2>2. CASE handler' = "works" /\ UNCHANGED <<sent, ended>>
    <3>1. SentAsKnown' /\ TakenAsSent'
      BY <2>1, <2>2 DEF LocalInv, SentAsKnown, TakenAsSent
    <3>2. StepsOfCommand'
      BY <2>1, <2>2 DEF LocalInv, StepsOfCommand
    <3>. QED
      BY <3>1, <3>2 DEF LocalInv
  <2>3. CASE handler' = "done" /\ sent' = <<"error">> /\ ended' = TRUE
    <3>1. "error" \in Outputs
      BY DEF Outputs
    <3>2. PICK e \in Outputs : e = "error"
      BY <3>1
    <3>3. sent' = <<e>> /\ sent' \in Seq(Outputs) /\ Len(sent') = 1 /\ sent'[1] = e
      BY <2>3, <3>2
    <3>4. SentAsKnown'
      BY <2>3, <3>2, <3>3 DEF SentAsKnown
    <3>5. TakenAsSent'
      BY <2>1, <3>2, <3>3 DEF TakenAsSent
    <3>6. StepsOfCommand'
      BY <2>1, <2>3 DEF LocalInv, StepsOfCommand
    <3>. QED
      BY <3>4, <3>5, <3>6 DEF LocalInv
  <2>. QED
    BY <1>2, <2>2, <2>3 DEF L!Run
<1>3. CASE L!Stream
  <2>1. "stream" \in Outputs
    BY DEF Outputs
  <2>. QED
    BY <1>3, <2>1, SendKeeps DEF L!Stream
<1>4. CASE L!Finish
  <2>1. PICK last \in {"response", "bad", "error"} : sent' = Append(sent, last)
    BY <1>4 DEF L!Finish
  <2>2. last \in Outputs /\ last # "stream"
    BY DEF Outputs
  <2>. QED
    BY <1>4, <2>1, <2>2, SendKeeps DEF L!Finish
<1>5. CASE L!BeginUpload \/ L!OtherMethod \/ L!Upload
  <2>1. UNCHANGED <<command, L!loading, sent, ended, taken, result>> /\ handler \in {"works", "uploads"} /\ handler' \in {"works", "uploads"}
    BY <1>5 DEF L!BeginUpload, L!OtherMethod, L!Upload
  <2>2. SentAsKnown' /\ TakenAsSent'
    BY <2>1 DEF LocalInv, SentAsKnown, TakenAsSent
  <2>3. command \notin {"load", "import", "ready", "loaded", "run", "refused"}
    BY <2>1 DEF LocalInv, StepsOfCommand
  <2>4. /\ hosted'.told = "url" => ~hosted'.breaks /\ stored' = hosted'.chunks
        /\ handler' = "uploads" => hosted'.told = "nothing"
    <3>1. CASE L!BeginUpload
      BY <3>1 DEF L!BeginUpload
    <3>2. CASE L!OtherMethod
      BY <3>2 DEF L!OtherMethod
    <3>3. CASE L!Upload
      BY <3>3 DEF L!Upload
    <3>. QED
      BY <1>5, <3>1, <3>2, <3>3
  <2>5. StepsOfCommand'
    BY <2>1, <2>3, <2>4 DEF LocalInv, StepsOfCommand
  <2>. QED
    BY <2>2, <2>5 DEF LocalInv
<1>6. CASE L!Show
  <2>1. UNCHANGED <<L!loading, L!running, L!uploading>> /\ ended /\ taken = Len(sent) /\ command = "consume"
        /\ command' = (IF result.error > 0 THEN "error shown" ELSE "shown")
    BY <1>6 DEF L!Show, L!Goes
  <2>2. SentAsKnown' /\ TakenAsSent'
    BY <2>1 DEF LocalInv, SentAsKnown, TakenAsSent
  <2>3. command' \in {"shown", "error shown"} /\ (command' = "error shown" <=> result'.error > 0)
    BY <2>1
  <2>4. StepsOfCommand'
    BY <2>1, <2>3 DEF LocalInv, StepsOfCommand
  <2>. QED
    BY <2>2, <2>4 DEF LocalInv
<1>7. CASE UNCHANGED localVars
  BY <1>7 DEF localVars, LocalInv, SentAsKnown, TakenAsSent, StepsOfCommand
<1>. QED
  BY <1>1, <1>2, <1>3, <1>4, <1>5, <1>6, <1>7, CommandKeeps DEF L!Next, L!Command

-----------------------------------------------------------------------------
(* A step of the two is a step of one of them.                             *)
LEMMA ClientsStep == ASSUME [ClientsNext]_allVars PROVE [R!Next]_runVars /\ [L!Next]_localVars
BY DEF ClientsNext, allVars

(* What a caller hears is what the tool said, however it is cut on the     *)
(* way: its messages in order, each once, and the output it ended with.    *)
THEOREM TruthIsAlwaysHeard == ClientsSpec => []TruthIsHeard
<1>1. ClientsInit => RunInv /\ LocalInv
  BY RunInvAtStart, LocalInvAtStart DEF ClientsInit
<1>2. RunInv /\ [ClientsNext]_allVars => RunInv'
  BY RunInvKept, ClientsStep
<1>3. LocalInv /\ [ClientsNext]_allVars => LocalInv'
  BY LocalInvKept, ClientsStep
<1>4. RunInv /\ LocalInv => TruthIsHeard
  BY RunInvSuffices, LocalInvSuffices DEF TruthIsHeard
<1>. QED
  BY <1>1, <1>2, <1>3, <1>4, PTL DEF ClientsSpec
=============================================================================
