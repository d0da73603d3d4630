----------------------- MODULE DebugInvocationProofs -----------------------
(***************************************************************************)
(* What a debugged plugin streams arrives whole, for every number of        *)
(* requests, connections and chunks and every length of a mailbox.         *)
(***************************************************************************)
EXTENDS DebugInvocation, SequenceTheorems, TLAPS

(* Positions in what is taken from, cut off, or added to a sequence.        *)
LEMMA TailAt ==
  ASSUME NEW S, NEW s \in Seq(S), s # <<>>
  PROVE  /\ Head(s) = s[1] /\ Head(s) \in S /\ Tail(s) \in Seq(S) /\ Len(s) \in Nat \ {0}
         /\ Len(Tail(s)) = Len(s) - 1
         /\ \A i \in 1..Len(s) - 1 : Tail(s)[i] = s[i + 1]
BY HeadTailProperties, EmptySeq

LEMMA PrefixAt ==
  ASSUME NEW S, NEW s \in Seq(S), NEW k \in 0..Len(s)
  PROVE  /\ SubSeq(s, 1, k) \in Seq(S) /\ Len(SubSeq(s, 1, k)) = k
         /\ \A i \in 1..k : SubSeq(s, 1, k)[i] = s[i]
         /\ SubSeq(s, 1, k) # <<>> => s # <<>>
<1>1. SubSeq(s, 1, k) \in Seq(S) /\ Len(SubSeq(s, 1, k)) = k
  BY SubSeqProperties
<1>2. \A i \in 1..k : SubSeq(s, 1, k)[i] = s[i]
  BY SubSeqProperties
<1> QED BY <1>1, <1>2, EmptySeq

LEMMA AppendAt ==
  ASSUME NEW S, NEW s \in Seq(S), NEW e \in S
  PROVE  /\ Append(s, e) \in Seq(S) /\ Len(Append(s, e)) = Len(s) + 1 /\ Len(s) \in Nat
         /\ \A i \in 1..Len(s) : Append(s, e)[i] = s[i]
         /\ Append(s, e)[Len(s) + 1] = e
BY AppendProperties

LEMMA ConcatAt ==
  ASSUME NEW S, NEW s \in Seq(S), NEW t \in Seq(S)
  PROVE  /\ s \o t \in Seq(S) /\ Len(s \o t) = Len(s) + Len(t) /\ Len(s) \in Nat /\ Len(t) \in Nat
         /\ \A i \in 1..Len(s) : (s \o t)[i] = s[i]
         /\ \A i \in Len(s) + 1..Len(s) + Len(t) : (s \o t)[i] = t[i - Len(s)]
BY ConcatProperties

(* A mailbox after a message was added: its oldest may be trimmed.          *)
LEMMA AddedAt ==
  ASSUME NEW S, NEW s \in Seq(S), NEW e \in S, NEW box \in Added(s, e)
  PROVE  /\ box \in Seq(S) /\ Len(s) \in Nat
         /\ \/ /\ Len(box) = Len(s) + 1 /\ box[Len(s) + 1] = e
               /\ \A i \in 1..Len(s) : box[i] = s[i]
            \/ /\ Len(box) = Len(s) /\ Len(s) # 0 /\ box[Len(s)] = e
               /\ \A i \in 1..Len(s) - 1 : box[i] = s[i + 1]
<1> DEFINE all == Append(s, e)
<1>1. /\ all \in Seq(S) /\ Len(all) = Len(s) + 1 /\ Len(s) \in Nat /\ all[Len(s) + 1] = e
      /\ \A i \in 1..Len(s) : all[i] = s[i]
  BY AppendAt
<1>2. box = all \/ (box = Tail(all) /\ Len(all) > MaxLen)
  BY DEF Added
<1> HIDE DEF all
<1>3. CASE box = all
  BY <1>1, <1>3
<1>4. CASE box = Tail(all) /\ Len(all) > MaxLen
  <2>1. all # <<>> /\ Len(s) > 0
    BY <1>1, <1>4, InvocationAssumption, EmptySeq
  <2>2. /\ box \in Seq(S) /\ Len(box) = Len(s)
        /\ \A i \in 1..Len(s) : box[i] = all[i + 1]
    BY <1>1, <1>4, <2>1, TailAt
  <2>3. box[Len(s)] = e
    BY <1>1, <2>1, <2>2
  <2> QED BY <1>1, <2>1, <2>2, <2>3
<1> QED BY <1>2, <1>3, <1>4

-----------------------------------------------------------------------------
(* Types, and which connections requests travel on                         *)

(* The gateway reads the mailbox of c, or has done so.                     *)
Pumped(c) == served[c] \in {"bound", "closed"}

(* Requests are sent on connections whose mailbox is read.                 *)
Asked(c) == \A i \in 1..Len(toClient[c]) : toClient[c][i].kind = "request" => Pumped(c)

Links ==
  /\ loop = "bound" => attempt \in Conns
  /\ \A c \in Conns : c > attempt => served[c] = "none"
  /\ \A c \in active : Pumped(c)
  /\ \A r \in Requests : run[r].st # "none" => run[r].conn \in Conns /\ Pumped(run[r].conn)
  /\ \A r \in Requests : driver[r].st \in {"found", "reading"} => driver[r].conn \in Conns
  /\ \A c \in Conns : Asked(c)

LinkInv == TypeOK /\ Links

(* The requests of t are those of s from one on, in the same places.       *)
Fewer(t, s) ==
  \E k \in 0..Len(s) :
    \A i \in 1..Len(t) : t[i].kind = "request" => i + k \in 1..Len(s) /\ t[i] = s[i + k]

LEMMA FewerAt ==
  ASSUME NEW s \in Seq(Messages)
  PROVE  /\ Fewer(s, s)
         /\ \A t : Len(t) = 0 => Fewer(t, s)
         /\ s # <<>> => Fewer(Tail(s), s)
         /\ \A k \in 0..Len(s) : Fewer(SubSeq(s, 1, k), s)
         /\ \A m \in Messages : m.kind # "request" => Fewer(Append(s, m), s)
<1>1. Len(s) \in Nat /\ 0 \in 0..Len(s)
  OBVIOUS
<1>2. Fewer(s, s)
  BY <1>1 DEF Fewer
<1>3. \A t : Len(t) = 0 => Fewer(t, s)
  BY <1>1 DEF Fewer
<1>4. ASSUME s # <<>> PROVE Fewer(Tail(s), s)
  <2>1. /\ Len(s) \in Nat \ {0} /\ Len(Tail(s)) = Len(s) - 1
        /\ \A i \in 1..Len(s) - 1 : Tail(s)[i] = s[i + 1]
    BY <1>4, TailAt
  <2>2. 1 \in 0..Len(s) /\ \A i \in 1..Len(Tail(s)) : i + 1 \in 1..Len(s) /\ Tail(s)[i] = s[i + 1]
    BY <2>1
  <2> QED BY <2>2 DEF Fewer
<1>5. ASSUME NEW k \in 0..Len(s) PROVE Fewer(SubSeq(s, 1, k), s)
  <2>1. Len(SubSeq(s, 1, k)) = k /\ \A i \in 1..k : SubSeq(s, 1, k)[i] = s[i]
    BY PrefixAt
  <2>2. \A i \in 1..Len(SubSeq(s, 1, k)) : i + 0 \in 1..Len(s) /\ SubSeq(s, 1, k)[i] = s[i + 0]
    BY <1>1, <2>1
  <2> QED BY <1>1, <2>2 DEF Fewer
<1>6. ASSUME NEW m \in Messages, m.kind # "request" PROVE Fewer(Append(s, m), s)
  <2>1. /\ Len(Append(s, m)) = Len(s) + 1 /\ Append(s, m)[Len(s) + 1] = m
        /\ \A i \in 1..Len(s) : Append(s, m)[i] = s[i]
    BY AppendAt
  <2>2. \A i \in 1..Len(Append(s, m)) : Append(s, m)[i].kind = "request" =>
          i + 0 \in 1..Len(s) /\ Append(s, m)[i] = s[i + 0]
    BY <1>1, <1>6, <2>1
  <2> QED BY <1>1, <2>2 DEF Fewer
<1> QED BY <1>2, <1>3, <1>4, <1>5, <1>6

(* What an end of a connection sends joins its queue, if that is open.     *)
LEMMA SendsToClient ==
  ASSUME LinkInv, NEW c \in Conns, NEW m \in Messages, SendToClient(c, m)
  PROVE  /\ toClient' \in [Conns -> Seq(Messages)]
         /\ \A d \in Conns : toClient'[d] # <<>> => socket[d]
         /\ \A d \in Conns : \/ toClient'[d] = toClient[d]
                             \/ d = c /\ toClient'[d] = Append(toClient[d], m)
<1>1. /\ toClient \in [Conns -> Seq(Messages)]
      /\ \A d \in Conns : toClient[d] # <<>> => socket[d]
  BY DEF LinkInv, TypeOK
<1>2. Append(toClient[c], m) \in Seq(Messages)
  BY <1>1, AppendAt
<1> QED BY <1>1, <1>2 DEF SendToClient

LEMMA SendsToGateway ==
  ASSUME LinkInv, NEW c \in Conns, NEW frames \in Seq(Frames), SendToGateway(c, frames)
  PROVE  /\ fromClient' \in [Conns -> Seq(Frames)]
         /\ \A d \in Conns : fromClient'[d] # <<>> => Open(d)
         /\ \A d \in Conns : \/ fromClient'[d] = fromClient[d]
                             \/ d = c /\ fromClient'[d] = fromClient[d] \o frames
<1>1. /\ fromClient \in [Conns -> Seq(Frames)]
      /\ \A d \in Conns : fromClient[d] # <<>> => Open(d)
  BY DEF LinkInv, TypeOK
<1>2. fromClient[c] \o frames \in Seq(Frames)
  BY <1>1, ConcatAt
<1> QED BY <1>1, <1>2 DEF SendToGateway

(* What is taken from a queue leaves the others and the rest of it.        *)
LEMMA TakesMessage ==
  ASSUME LinkInv, NEW c \in Conns, toClient[c] # <<>>, toClient' = [toClient EXCEPT ![c] = Tail(@)]
  PROVE  /\ toClient' \in [Conns -> Seq(Messages)] /\ Head(toClient[c]) \in Messages
         /\ Head(toClient[c]) = toClient[c][1] /\ 1 \in 1..Len(toClient[c])
         /\ \A d \in Conns : toClient'[d] # <<>> => socket[d]
         /\ \A d \in Conns : Fewer(toClient'[d], toClient[d])
         /\ \A d \in Conns \ {c} : toClient'[d] = toClient[d]
         /\ \A i \in 1..Len(toClient'[c]) : i + 1 \in 1..Len(toClient[c]) /\ toClient'[c][i] = toClient[c][i + 1]
<1>1. /\ toClient \in [Conns -> Seq(Messages)] /\ toClient'[c] = Tail(toClient[c])
      /\ \A d \in Conns : toClient[d] # <<>> => socket[d]
  BY DEF LinkInv, TypeOK
<1>2. /\ Head(toClient[c]) = toClient[c][1] /\ Head(toClient[c]) \in Messages
      /\ Tail(toClient[c]) \in Seq(Messages) /\ Len(toClient[c]) \in Nat \ {0}
      /\ Len(Tail(toClient[c])) = Len(toClient[c]) - 1
      /\ \A i \in 1..Len(toClient[c]) - 1 : Tail(toClient[c])[i] = toClient[c][i + 1]
  BY <1>1, TailAt
<1>3. \A d \in Conns : Fewer(toClient[d], toClient[d]) /\ Fewer(toClient'[c], toClient[c])
  BY <1>1, FewerAt
<1> QED BY <1>1, <1>2, <1>3

(* The two ways in which a connection closes.                              *)
LEMMA ClosesByClient ==
  ASSUME LinkInv, NEW c \in Conns, ClientCloses(c)
  PROVE  /\ socket' \in [Conns -> BOOLEAN] /\ toClient' \in [Conns -> Seq(Messages)]
         /\ fromClient' \in [Conns -> Seq(Frames)]
         /\ \A d \in Conns : /\ toClient'[d] # <<>> => socket'[d]
                             /\ fromClient'[d] # <<>> => Open(d)
                             /\ Fewer(toClient'[d], toClient[d])
                             /\ Len(fromClient'[d]) \in 0..Len(fromClient[d])
                             /\ \A i \in 1..Len(fromClient'[d]) : fromClient'[d][i] = fromClient[d][i]
<1>1. /\ toClient \in [Conns -> Seq(Messages)] /\ fromClient \in [Conns -> Seq(Frames)]
      /\ socket \in [Conns -> BOOLEAN]
      /\ \A d \in Conns : /\ toClient[d] # <<>> => socket[d]
                          /\ fromClient[d] # <<>> => Open(d)
      /\ \A d \in Conns : Len(fromClient[d]) \in Nat
  BY DEF LinkInv, TypeOK
<1>2. <<>> \in Seq(Messages) /\ Len(<<>>) = 0
  BY EmptySeq
<1>3. PICK k \in 0..Len(fromClient[c]) : fromClient' = [fromClient EXCEPT ![c] = SubSeq(@, 1, k)]
  BY DEF ClientCloses
<1> DEFINE rest == SubSeq(fromClient[c], 1, k)
<1>4. /\ rest \in Seq(Frames) /\ Len(rest) = k /\ \A i \in 1..k : rest[i] = fromClient[c][i]
      /\ rest # <<>> => fromClient[c] # <<>>
  BY <1>1, PrefixAt
<1>5. fromClient' = [fromClient EXCEPT ![c] = rest]
  BY <1>3
<1> HIDE DEF rest
<1>6. socket' = [socket EXCEPT ![c] = FALSE] /\ toClient' = [toClient EXCEPT ![c] = <<>>]
  BY DEF ClientCloses
<1>7. \A d \in Conns : Fewer(toClient'[d], toClient[d])
  BY <1>1, <1>2, <1>6, FewerAt
<1>8. \A d \in Conns : toClient'[d] # <<>> => socket'[d]
  BY <1>1, <1>6
<1>9. \A d \in Conns : /\ fromClient'[d] # <<>> => Open(d)
                       /\ Len(fromClient'[d]) \in 0..Len(fromClient[d])
                       /\ \A i \in 1..Len(fromClient'[d]) : fromClient'[d][i] = fromClient[d][i]
  BY <1>1, <1>4, <1>5
<1> QED BY <1>1, <1>2, <1>4, <1>5, <1>6, <1>7, <1>8, <1>9

LEMMA ClosesByGateway ==
  ASSUME LinkInv, NEW c \in Conns, GatewayCloses(c)
  PROVE  /\ served' \in [Conns -> Served] /\ toClient' \in [Conns -> Seq(Messages)]
         /\ fromClient' \in [Conns -> Seq(Frames)]
         /\ \A d \in Conns : /\ toClient'[d] # <<>> => socket[d]
                             /\ fromClient'[d] # <<>> => Open(d)'
                             /\ Pumped(d) => Pumped(d)'
                             /\ served[d] = "none" => served'[d] = "none"
                             /\ Fewer(toClient'[d], toClient[d])
                             /\ Len(fromClient'[d]) \in 0..Len(fromClient[d])
                             /\ \A i \in 1..Len(fromClient'[d]) : fromClient'[d][i] = fromClient[d][i]
<1>1. /\ toClient \in [Conns -> Seq(Messages)] /\ fromClient \in [Conns -> Seq(Frames)]
      /\ served \in [Conns -> Served]
      /\ \A d \in Conns : /\ toClient[d] # <<>> => socket[d]
                          /\ fromClient[d] # <<>> => Open(d)
      /\ \A d \in Conns : Len(fromClient[d]) \in Nat
  BY DEF LinkInv, TypeOK
<1>2. <<>> \in Seq(Frames) /\ Len(<<>>) = 0
  BY EmptySeq
<1>3. PICK k \in 0..Len(toClient[c]) : toClient' = [toClient EXCEPT ![c] = SubSeq(@, 1, k)]
  BY DEF GatewayCloses
<1> DEFINE rest == SubSeq(toClient[c], 1, k)
<1>4. /\ rest \in Seq(Messages) /\ Fewer(rest, toClient[c])
      /\ rest # <<>> => toClient[c] # <<>>
  BY <1>1, PrefixAt, FewerAt
<1>5. toClient' = [toClient EXCEPT ![c] = rest]
  BY <1>3
<1> HIDE DEF rest
<1>6. /\ served' = [served EXCEPT ![c] = IF @ = "unbound" THEN "half" ELSE "closed"]
      /\ fromClient' = [fromClient EXCEPT ![c] = <<>>] /\ served[c] \in {"unbound", "bound"}
  BY DEF GatewayCloses, Open
<1>7. \A d \in Conns : Fewer(toClient'[d], toClient[d]) /\ (toClient'[d] # <<>> => socket[d])
  BY <1>1, <1>4, <1>5, FewerAt
<1>8. \A d \in Conns : /\ fromClient'[d] # <<>> => Open(d)'
                       /\ Len(fromClient'[d]) \in 0..Len(fromClient[d])
                       /\ \A i \in 1..Len(fromClient'[d]) : fromClient'[d][i] = fromClient[d][i]
  BY <1>1, <1>2, <1>6 DEF Open
<1>9. served' \in [Conns -> Served]
      /\ \A d \in Conns : (Pumped(d) => Pumped(d)') /\ (served[d] = "none" => served'[d] = "none")
  BY <1>1, <1>6 DEF Served, Pumped
<1> QED BY <1>1, <1>2, <1>4, <1>5, <1>6, <1>7, <1>8, <1>9
(* Every step keeps the types and the links, and what is pumped stays so.  *)
LinksKept == LinkInv' /\ \A d \in Conns : Pumped(d) => Pumped(d)'

LEMMA LinksIf ==
  ASSUME LinkInv, TypeOK', attempt' = attempt, loop' = "bound" => attempt \in Conns,
         \A d \in Conns : Pumped(d) => Pumped(d)',
         \A d \in Conns : served[d] = "none" => served'[d] = "none",
         \A d \in active' : d \in active \/ Pumped(d)',
         \A r \in Requests : \/ run'[r].st = "none"
                             \/ run[r].st # "none" /\ run'[r].conn = run[r].conn
                             \/ run'[r].conn \in Conns /\ Pumped(run[r].conn)',
         \A r \in Requests : \/ driver'[r].st \notin {"found", "reading"}
                             \/ driver'[r].conn \in Conns,
         \A d \in Conns : Fewer(toClient'[d], toClient[d]) \/ Pumped(d)'
  PROVE  LinksKept
<1>1. Links /\ TypeOK
  BY DEF LinkInv
<1>2. ASSUME NEW d \in Conns PROVE Asked(d)'
  <2>1. CASE Pumped(d)'
    BY <2>1 DEF Asked
  <2>2. CASE Fewer(toClient'[d], toClient[d])
    BY <1>1, <2>2 DEF Asked, Fewer, Links
  <2> QED BY <2>1, <2>2
<1>3. \A r \in Requests : run'[r].st # "none" => run'[r].conn \in Conns /\ Pumped(run[r].conn)'
  BY <1>1 DEF Links, Pumped
<1>4. \A d \in active' : Pumped(d)'
  BY <1>1 DEF Links, TypeOK
<1>5. \A d \in Conns : d > attempt' => served'[d] = "none"
  BY <1>1 DEF Links
<1> QED BY <1>2, <1>3, <1>4, <1>5 DEF LinkInv, Links, LinksKept

(* A tool that has ended has sent its chunks and their end, an error, or   *)
(* nothing, when its connection was closed.                                *)
LEMMA ToolSends ==
  ASSUME LinkInv, NEW r \in Requests, ToolEnds(r)
  PROVE  /\ run[r].st = "running" /\ run[r].conn \in Conns
         /\ \E n \in 0..MaxChunks, frames \in Seq(Frames) :
              /\ run' = [run EXCEPT ![r] = [st |-> "done", conn |-> run[r].conn, made |-> n]]
              /\ \/ /\ fromClient' = fromClient
                 \/ /\ SendToGateway(run[r].conn, frames)
                    /\ \/ frames = Append(Chunks(r, n), Frame("end", r, 0))
                       \/ frames = <<Frame("error", r, 0)>>
<1>1. /\ run \in [Requests -> RunRecord] /\ run[r].st = "running" /\ run[r].conn \in Conns
      /\ run[r].made \in 0..MaxChunks
  BY DEF LinkInv, TypeOK, Links, ToolEnds, RunRecord
<1>2. \A n : run' = [run EXCEPT ![r].st = "done", ![r].made = n]
        => run' = [run EXCEPT ![r] = [st |-> "done", conn |-> run[r].conn, made |-> n]]
  BY <1>1 DEF RunRecord
<1>3. run' = [run EXCEPT ![r].st = "done"]
        => run' = [run EXCEPT ![r] = [st |-> "done", conn |-> run[r].conn, made |-> run[r].made]]
  BY <1>1 DEF RunRecord
<1>4. CASE fromClient' = fromClient /\ run' = [run EXCEPT ![r].st = "done"]
  <2>1. <<>> \in Seq(Frames)
    BY EmptySeq
  <2> QED BY <1>1, <1>3, <1>4, <2>1
<1>5. ASSUME NEW n \in 0..MaxChunks,
             SendToGateway(run[r].conn, Append(Chunks(r, n), Frame("end", r, 0))),
             run' = [run EXCEPT ![r].st = "done", ![r].made = n]
      PROVE  \E frames \in Seq(Frames) :
               /\ SendToGateway(run[r].conn, frames)
               /\ frames = Append(Chunks(r, n), Frame("end", r, 0))
  <2>1. \A i \in 1..n : Frame("chunk", r, i) \in Frames
    BY InvocationAssumption DEF Frame, Frames
  <2>2. Chunks(r, n) \in Seq(Frames) /\ Frame("end", r, 0) \in Frames
    BY <2>1, InvocationAssumption DEF Chunks, Frame, Frames
  <2>3. Append(Chunks(r, n), Frame("end", r, 0)) \in Seq(Frames)
    BY <2>2, AppendAt
  <2> QED BY <1>5, <2>3
<1>6. CASE SendToGateway(run[r].conn, <<Frame("error", r, 0)>>) /\ run' = [run EXCEPT ![r].st = "done"]
  <2>1. Frame("error", r, 0) \in Frames
    BY DEF Frame, Frames
  <2>2. <<Frame("error", r, 0)>> \in Seq(Frames)
    BY <2>1
  <2> QED BY <1>1, <1>3, <1>6, <2>2
<1>7. \/ fromClient' = fromClient /\ run' = [run EXCEPT ![r].st = "done"]
      \/ \E n \in 0..MaxChunks :
           /\ SendToGateway(run[r].conn, Append(Chunks(r, n), Frame("end", r, 0)))
           /\ run' = [run EXCEPT ![r].st = "done", ![r].made = n]
      \/ SendToGateway(run[r].conn, <<Frame("error", r, 0)>>) /\ run' = [run EXCEPT ![r].st = "done"]
  BY DEF ToolEnds
<1> QED BY <1>1, <1>2, <1>4, <1>5, <1>6, <1>7

(* A request that arrives is accepted, or refused.                         *)
LEMMA RequestTaken ==
  ASSUME LinkInv, NEW c \in Conns, RequestArrives(c)
  PROVE  /\ toClient[c] # <<>> /\ toClient' = [toClient EXCEPT ![c] = Tail(@)]
         /\ Pumped(c)
         /\ \E r \in Requests, kind \in {"accepted", "error"}, st \in {"running", "done"} :
              /\ toClient[c][1] = [kind |-> "request", r |-> r]
              /\ <<Frame(kind, r, 0)>> \in Seq(Frames) /\ (st = "running" => kind = "accepted")
              /\ (st = "done" => kind = "error")
              /\ SendToGateway(c, <<Frame(kind, r, 0)>>)
              /\ run' = [run EXCEPT ![r] = [st |-> st, conn |-> c, made |-> 0]]
<1> DEFINE m == Head(toClient[c])
<1>1. toClient[c] # <<>> /\ m.kind = "request" /\ toClient' = [toClient EXCEPT ![c] = Tail(@)]
  BY DEF RequestArrives
<1>2. m \in Messages /\ m = toClient[c][1] /\ 1 \in 1..Len(toClient[c])
  BY <1>1, TakesMessage
<1>3. PICK kind \in {"accepted", "error"}, st \in {"running", "done"} :
        /\ (st = "running" => kind = "accepted") /\ (st = "done" => kind = "error")
        /\ SendToGateway(c, <<Frame(kind, m.r, 0)>>)
        /\ run' = [run EXCEPT ![m.r] = [st |-> st, conn |-> c, made |-> 0]]
  BY DEF RequestArrives
<1> HIDE DEF m
<1>4. m.r \in Requests /\ m = [kind |-> "request", r |-> m.r]
  BY <1>1, <1>2 DEF Messages
<1>5. Frame(kind, m.r, 0) \in Frames
  BY <1>4 DEF Frame, Frames
<1>6. <<Frame(kind, m.r, 0)>> \in Seq(Frames)
  BY <1>5
<1>7. Pumped(c)
  BY <1>1, <1>2 DEF LinkInv, Links, Asked
<1> QED BY <1>1, <1>2, <1>3, <1>4, <1>6, <1>7

LEMMA ClientKeepsLinks ==
  ASSUME LinkInv,
         \/ Connect \/ Quit
         \/ \E c \in Conns : BoundArrives(c) \/ RequestArrives(c) \/ SocketCloses(c)
         \/ \E r \in Requests : ToolEnds(r)
  PROVE  LinksKept
<1>1. TypeOK /\ Links
  BY DEF LinkInv
<1>2. \A d \in Conns : Fewer(toClient[d], toClient[d])
  BY <1>1, FewerAt DEF TypeOK
<1>3. CASE Connect
  <2> DEFINE c == attempt + 1
  <2>1. c \in Conns /\ served[c] = "none" /\ served' = [served EXCEPT ![c] = "unbound"] /\ attempt' = c
    BY <1>1, <1>3 DEF Connect, Links, Conns, TypeOK
  <2>2. \A d \in Conns : Pumped(d) <=> Pumped(d)'
    BY <1>1, <2>1 DEF Pumped, TypeOK
  <2>3. \A d \in Conns : Open(d) => Open(d)'
    BY <1>1, <2>1 DEF Open, TypeOK
  <2>4. \A d \in Conns : socket[d] => socket'[d]
    BY <1>1, <1>3 DEF Connect, TypeOK
  <2>5. TypeOK'
    BY <1>1, <1>3, <2>1, <2>3, <2>4 DEF Connect, TypeOK, Loops, Served, Conns
  <2>6. \A d \in Conns : d > attempt' => served'[d] = "none"
    BY <1>1, <2>1 DEF Links, Conns, TypeOK
  <2>7. \A d \in Conns : Asked(d)'
    BY <1>1, <1>3, <2>2 DEF Connect, Links, Asked
  <2>8. \A d \in active' : Pumped(d)'
    BY <1>1, <1>3, <2>2 DEF Connect, Links, TypeOK
  <2>9. \A r \in Requests : run'[r].st # "none" => run'[r].conn \in Conns /\ Pumped(run[r].conn)'
    BY <1>1, <1>3, <2>2 DEF Connect, Links, Pumped
  <2>10. Links'
    BY <1>1, <1>3, <2>1, <2>6, <2>7, <2>8, <2>9 DEF Connect, Links
  <2> QED BY <2>2, <2>5, <2>10 DEF LinkInv, LinksKept
<1>4. CASE Quit
  <2>1. CASE loop = "bound" /\ attempt \in Conns
    <3>1. ClientCloses(attempt) /\ loop' = "ended" /\ quit'
          /\ UNCHANGED <<attempt, served, active, mailbox, run, reply, driver, lost>>
      BY <1>4, <2>1 DEF Quit, gateway
    <3>2. TypeOK'
      BY <1>1, <2>1, <3>1, ClosesByClient DEF TypeOK, Open, Loops
    <3>3. \A d \in Conns : Fewer(toClient'[d], toClient[d])
      BY <2>1, <3>1, ClosesByClient
    <3> QED BY <1>1, <3>1, <3>2, <3>3, LinksIf DEF Links, Pumped
  <2>2. CASE loop # "bound"
    <3>1. UNCHANGED <<socket, toClient, fromClient, attempt, served, active, mailbox, run, reply, driver, lost>>
          /\ loop' \in Loops \ {"bound"} /\ quit'
      BY <1>1, <1>4, <2>2 DEF Quit, gateway, Loops, TypeOK
    <3>2. TypeOK'
      BY <1>1, <3>1 DEF TypeOK, Open
    <3> QED BY <1>1, <1>2, <3>1, <3>2, LinksIf DEF Links, Pumped
  <2> QED BY <1>1, <2>1, <2>2 DEF Links
<1>5. ASSUME NEW c \in Conns, BoundArrives(c) PROVE LinksKept
  <2>1. /\ toClient[c] # <<>> /\ toClient' = [toClient EXCEPT ![c] = Tail(@)]
        /\ attempt = c /\ loop' \in Loops
        /\ UNCHANGED <<attempt, quit, socket, served, active, mailbox, fromClient, run, reply, driver, lost>>
    BY <1>5 DEF BoundArrives, Retries, Loops, gateway
  <2>2. TypeOK'
    BY <1>1, <2>1, TakesMessage DEF TypeOK, Open
  <2>3. \A d \in Conns : Fewer(toClient'[d], toClient[d])
    BY <2>1, TakesMessage
  <2> QED BY <1>1, <2>1, <2>2, <2>3, LinksIf DEF Links, Pumped
<1>6. ASSUME NEW c \in Conns, RequestArrives(c) PROVE LinksKept
  <2>1. /\ toClient[c] # <<>> /\ toClient' = [toClient EXCEPT ![c] = Tail(@)] /\ Pumped(c)
        /\ UNCHANGED <<loop, attempt, quit, socket, served, active, mailbox, reply, driver, lost>>
    BY <1>6, RequestTaken DEF RequestArrives, client, gateway
  <2>2. PICK r \in Requests, kind \in {"accepted", "error"}, st \in {"running", "done"} :
          /\ <<Frame(kind, r, 0)>> \in Seq(Frames)
          /\ SendToGateway(c, <<Frame(kind, r, 0)>>)
          /\ run' = [run EXCEPT ![r] = [st |-> st, conn |-> c, made |-> 0]]
    BY <1>6, RequestTaken
  <2>3. fromClient' \in [Conns -> Seq(Frames)] /\ \A d \in Conns : fromClient'[d] # <<>> => Open(d)
    BY <2>2, SendsToGateway
  <2>4. run' \in [Requests -> RunRecord]
    <3>1. [st |-> st, conn |-> c, made |-> 0] \in RunRecord
      BY InvocationAssumption DEF RunRecord
    <3> QED BY <1>1, <2>2, <3>1 DEF TypeOK
  <2>5. TypeOK'
    BY <1>1, <2>1, <2>3, <2>4, TakesMessage DEF TypeOK, Open
  <2>6. \A q \in Requests : run'[q] = run[q] \/ run'[q].conn = c
    BY <1>1, <2>2 DEF TypeOK
  <2>7. \A q \in Requests : \/ run'[q].st = "none"
                            \/ run[q].st # "none" /\ run'[q].conn = run[q].conn
                            \/ run'[q].conn \in Conns /\ Pumped(run[q].conn)'
    BY <2>1, <2>6 DEF Pumped
  <2>8. \A d \in Conns : Fewer(toClient'[d], toClient[d])
    BY <2>1, TakesMessage
  <2>9. /\ \A d \in Conns : Pumped(d) => Pumped(d)'
        /\ \A d \in Conns : served[d] = "none" => served'[d] = "none"
        /\ \A q \in Requests : driver'[q].st \notin {"found", "reading"} \/ driver'[q].conn \in Conns
        /\ loop' = "bound" => attempt \in Conns
        /\ \A d \in active' : d \in active
    BY <1>1, <2>1 DEF Pumped, Links
  <2> QED BY <2>1, <2>5, <2>7, <2>8, <2>9, LinksIf
<1>7. ASSUME NEW c \in Conns, SocketCloses(c) PROVE LinksKept
  <2>1. /\ ClientCloses(c) /\ loop' \in Loops /\ (loop' = "bound" => loop = "bound")
        /\ UNCHANGED <<attempt, quit, served, active, mailbox, run, reply, driver, lost>>
    BY <1>1, <1>7 DEF SocketCloses, Retries, Loops, gateway, TypeOK
  <2>2. TypeOK'
    BY <1>1, <2>1, ClosesByClient DEF TypeOK, Open
  <2>3. \A d \in Conns : Fewer(toClient'[d], toClient[d])
    BY <2>1, ClosesByClient
  <2> QED BY <1>1, <2>1, <2>2, <2>3, LinksIf DEF Links, Pumped
<1>8. ASSUME NEW r \in Requests, ToolEnds(r) PROVE LinksKept
  <2>1. /\ loop' \in {loop, "ended"}
        /\ UNCHANGED <<attempt, quit, socket, served, active, mailbox, toClient, reply, driver, lost>>
    BY <1>8 DEF ToolEnds, gateway
  <2>2. PICK n \in 0..MaxChunks, frames \in Seq(Frames) :
          /\ run' = [run EXCEPT ![r] = [st |-> "done", conn |-> run[r].conn, made |-> n]]
          /\ fromClient' = fromClient \/ SendToGateway(run[r].conn, frames)
    BY <1>8, ToolSends
  <2>3. run[r].st = "running" /\ run[r].conn \in Conns
    BY <1>8, ToolSends
  <2>4. fromClient' \in [Conns -> Seq(Frames)] /\ \A d \in Conns : fromClient'[d] # <<>> => Open(d)
    BY <1>1, <2>2, <2>3, SendsToGateway DEF TypeOK
  <2>5. /\ run' \in [Requests -> RunRecord]
        /\ \A q \in Requests : run'[q].conn = run[q].conn /\ (run'[q].st # "none" => run[q].st # "none")
    <3>1. [st |-> "done", conn |-> run[r].conn, made |-> n] \in RunRecord
      BY <2>3 DEF RunRecord
    <3> QED BY <1>1, <2>2, <2>3, <3>1 DEF TypeOK
  <2>6. TypeOK'
    BY <1>1, <2>1, <2>4, <2>5 DEF TypeOK, Open, Loops
  <2> QED BY <1>1, <1>2, <2>1, <2>5, <2>6, LinksIf DEF Links, Pumped
<1> QED BY <1>3, <1>4, <1>5, <1>6, <1>7, <1>8
LEMMA GatewayKeepsLinks ==
  ASSUME LinkInv,
         NEW c \in Conns, Bind(c) \/ GatewayCloses(c) \/ SessionEnds(c) \/ Pump(c) \/ PublishResponse(c)
  PROVE  LinksKept
<1>1. TypeOK /\ Links
  BY DEF LinkInv
<1>2. \A d \in Conns : Fewer(toClient[d], toClient[d])
  BY <1>1, FewerAt DEF TypeOK
<1>3. CASE Bind(c)
  <2>1. PICK kind \in {"bound", "duplicate", "refused"} :
          /\ SendToClient(c, [kind |-> kind, r |-> None])
          /\ \/ /\ served' = [served EXCEPT ![c] = IF @ = "half" THEN "closed" ELSE "bound"]
                /\ active' = {c}
             \/ /\ served' = [served EXCEPT ![c] = "closed"] /\ active' = active
    BY <1>3 DEF Bind
  <2>2. /\ UNCHANGED <<loop, attempt, quit, socket, mailbox, run, reply, driver, lost>>
        /\ served[c] \in {"unbound", "half"}
        /\ fromClient' = IF served'[c] = "closed" THEN [fromClient EXCEPT ![c] = <<>>] ELSE fromClient
    BY <1>3 DEF Bind, client
  <2>3. [kind |-> kind, r |-> None] \in Messages /\ kind # "request"
    BY DEF Messages
  <2>4. /\ toClient' \in [Conns -> Seq(Messages)]
        /\ \A d \in Conns : toClient'[d] # <<>> => socket[d]
        /\ \A d \in Conns : \/ toClient'[d] = toClient[d]
                            \/ d = c /\ toClient'[d] = Append(toClient[d], [kind |-> kind, r |-> None])
    BY <2>1, <2>3, SendsToClient
  <2>5. \A d \in Conns : Fewer(toClient'[d], toClient[d])
    BY <1>1, <1>2, <2>3, <2>4, FewerAt DEF TypeOK
  <2>6. /\ served' \in [Conns -> Served] /\ \A d \in Conns : Pumped(d) => Pumped(d)'
        /\ \A d \in Conns : served[d] = "none" => served'[d] = "none"
        /\ Pumped(c)' /\ \A d \in Conns \ {c} : served'[d] = served[d]
        /\ served'[c] \in {"bound", "closed"}
    BY <1>1, <2>1, <2>2 DEF Served, Pumped, TypeOK
  <2>7. <<>> \in Seq(Frames)
    BY EmptySeq
  <2>8. fromClient' \in [Conns -> Seq(Frames)] /\ \A d \in Conns : fromClient'[d] # <<>> => Open(d)'
    <3>1. CASE served'[c] = "closed"
      BY <1>1, <2>2, <2>6, <2>7, <3>1 DEF TypeOK, Open
    <3>2. CASE served'[c] # "closed"
      BY <1>1, <2>2, <2>6, <3>2 DEF TypeOK, Open
    <3> QED BY <3>1, <3>2
  <2>9. active' \subseteq Conns /\ \A d \in active' : d \in active \/ Pumped(d)'
    BY <1>1, <2>1, <2>6 DEF TypeOK
  <2>10. TypeOK'
    BY <1>1, <2>2, <2>4, <2>6, <2>8, <2>9 DEF TypeOK
  <2>11. /\ attempt' = attempt /\ (loop' = "bound" => attempt \in Conns)
         /\ \A r \in Requests : run'[r] = run[r] /\ driver'[r] = driver[r]
         /\ \A r \in Requests : driver[r].st \in {"found", "reading"} => driver[r].conn \in Conns
    BY <1>1, <2>2 DEF Links
  <2> QED BY <2>5, <2>6, <2>9, <2>10, <2>11, LinksIf
<1>4. CASE GatewayCloses(c)
  <2>1. UNCHANGED <<loop, attempt, quit, socket, active, mailbox, run, reply, driver, lost>>
    BY <1>4 DEF GatewayCloses, client
  <2>2. TypeOK'
    BY <1>1, <1>4, <2>1, ClosesByGateway DEF TypeOK
  <2>3. \A d \in Conns : Fewer(toClient'[d], toClient[d]) /\ (Pumped(d) => Pumped(d)')
                           /\ (served[d] = "none" => served'[d] = "none")
    BY <1>4, ClosesByGateway
  <2> QED BY <1>1, <2>1, <2>2, <2>3, LinksIf DEF Links
<1>5. CASE SessionEnds(c)
  <2>1. /\ UNCHANGED <<loop, attempt, quit, socket, served, mailbox, toClient, fromClient, run, reply, driver, lost>>
        /\ active' = active \ {c}
    BY <1>5 DEF SessionEnds, client
  <2>2. TypeOK'
    BY <1>1, <2>1 DEF TypeOK, Open
  <2> QED BY <1>1, <1>2, <2>1, <2>2, LinksIf DEF Links, Pumped
<1>6. CASE Pump(c)
  <2> DEFINE m == [kind |-> "request", r |-> Head(mailbox[c])]
  <2>1. /\ UNCHANGED <<loop, attempt, quit, socket, served, active, fromClient, run, reply, driver, lost>>
        /\ Pumped(c) /\ mailbox[c] # <<>> /\ SendToClient(c, m)
        /\ mailbox' = [mailbox EXCEPT ![c] = Tail(@)]
    BY <1>6 DEF Pump, client, Pumped, Taken
  <2>2. Head(mailbox[c]) \in Requests /\ Tail(mailbox[c]) \in Seq(Requests)
    BY <1>1, <2>1, TailAt DEF TypeOK
  <2>3. m \in Messages
    BY <2>2 DEF Messages
  <2> HIDE DEF m
  <2>4. /\ toClient' \in [Conns -> Seq(Messages)]
        /\ \A d \in Conns : toClient'[d] # <<>> => socket[d]
        /\ \A d \in Conns : toClient'[d] = toClient[d] \/ d = c
    BY <2>1, <2>3, SendsToClient
  <2>5. TypeOK'
    BY <1>1, <2>1, <2>2, <2>4 DEF TypeOK, Open
  <2>6. \A d \in Conns : Fewer(toClient'[d], toClient[d]) \/ Pumped(d)'
    BY <1>2, <2>1, <2>4 DEF Pumped
  <2> QED BY <1>1, <2>1, <2>5, <2>6, LinksIf DEF Links, Pumped
<1>7. CASE PublishResponse(c)
  <2> DEFINE e == Head(fromClient[c])
  <2>1. /\ UNCHANGED <<loop, attempt, quit, socket, served, active, mailbox, toClient, run, driver>>
        /\ served[c] = "bound" /\ fromClient[c] # <<>> /\ fromClient' = [fromClient EXCEPT ![c] = Tail(@)]
        /\ \/ reply' = reply
           \/ \E box \in Added(reply[e.r], e) : reply' = [reply EXCEPT ![e.r] = box]
        /\ lost' \in {lost, lost \cup {e.r}}
    BY <1>7 DEF PublishResponse, client, gateway
  <2>2. e \in Frames /\ Tail(fromClient[c]) \in Seq(Frames)
    BY <1>1, <2>1, TailAt DEF TypeOK
  <2>3. e.r \in Requests
    BY <2>2 DEF Frames
  <2> HIDE DEF e
  <2>4. reply' \in [Requests -> Seq(Frames)]
    <3>1. \A box \in Added(reply[e.r], e) : box \in Seq(Frames)
      BY <1>1, <2>2, <2>3, AddedAt DEF TypeOK
    <3> QED BY <1>1, <2>1, <2>3, <3>1 DEF TypeOK
  <2>5. fromClient' \in [Conns -> Seq(Frames)] /\ \A d \in Conns : fromClient'[d] # <<>> => Open(d)
    BY <1>1, <2>1, <2>2 DEF TypeOK
  <2>6. TypeOK'
    BY <1>1, <2>1, <2>3, <2>4, <2>5 DEF TypeOK, Open
  <2> QED BY <1>1, <1>2, <2>1, <2>6, LinksIf DEF Links, Pumped
<1> QED BY <1>3, <1>4, <1>5, <1>6, <1>7

LEMMA ServerKeepsLinks ==
  ASSUME LinkInv,
         NEW r \in Requests, Invoke(r) \/ Publish(r) \/ Read(r) \/ ReadFails(r)
  PROVE  LinksKept
<1>1. TypeOK /\ Links /\ driver \in [Requests -> DriverRecord] /\ driver[r] \in DriverRecord
  BY DEF LinkInv, TypeOK
<1>2. \A d \in Conns : Fewer(toClient[d], toClient[d])
  BY <1>1, FewerAt DEF TypeOK
<1>3. UNCHANGED <<loop, attempt, quit, socket, served, active, toClient, fromClient, run, lost>>
  BY DEF Invoke, Publish, Read, ReadFails, client, gateway
<1>4. CASE Invoke(r)
  <2>1. UNCHANGED <<mailbox, reply>>
        /\ \/ \E d \in active : driver' = [driver EXCEPT ![r] = [@ EXCEPT !.st = "found", !.conn = d]]
           \/ driver' = [driver EXCEPT ![r].st = "failed"]
    BY <1>4 DEF Invoke, gateway, Fails
  <2>2. \A d \in active : d \in Conns
    BY <1>1 DEF TypeOK
  <2>3. driver' \in [Requests -> DriverRecord]
        /\ \A q \in Requests : driver'[q].st \notin {"found", "reading"} \/ driver'[q].conn \in Conns
    <3>1. \A d \in Conns, st \in {"found", "failed"} : [driver[r] EXCEPT !.st = st, !.conn = d] \in DriverRecord
      BY <1>1 DEF DriverRecord
    <3>2. [driver[r] EXCEPT !.st = "failed"] \in DriverRecord
      BY <1>1 DEF DriverRecord
    <3>3. CASE driver' = [driver EXCEPT ![r].st = "failed"]
      BY <1>1, <3>2, <3>3 DEF Links
    <3>4. ASSUME NEW d \in active, driver' = [driver EXCEPT ![r] = [@ EXCEPT !.st = "found", !.conn = d]]
          PROVE  driver' \in [Requests -> DriverRecord]
                 /\ \A q \in Requests : driver'[q].st \notin {"found", "reading"} \/ driver'[q].conn \in Conns
      <4>1. d \in Conns /\ [driver[r] EXCEPT !.st = "found", !.conn = d] \in DriverRecord
            /\ [driver[r] EXCEPT !.st = "found", !.conn = d].conn = d
        BY <1>1, <2>2, <3>1 DEF DriverRecord
      <4> QED BY <1>1, <3>4, <4>1 DEF Links
    <3> QED BY <2>1, <3>3, <3>4
  <2>4. TypeOK'
    BY <1>1, <1>3, <2>1, <2>3 DEF TypeOK, Open
  <2> QED BY <1>1, <1>2, <1>3, <2>3, <2>4, LinksIf DEF Links, Pumped
<1>5. CASE Publish(r)
  <2> DEFINE c == driver[r].conn
  <2>1. /\ driver[r].st = "found" /\ reply' = reply
        /\ driver' = [driver EXCEPT ![r].st = "reading"] \/ driver' = [driver EXCEPT ![r].st = "failed"]
        /\ \/ mailbox' = mailbox
           \/ \E box \in Added(mailbox[c], r) : mailbox' = [mailbox EXCEPT ![c] = box]
    BY <1>5 DEF Publish, Fails
  <2>2. c \in Conns
    BY <1>1, <2>1 DEF Links
  <2> HIDE DEF c
  <2>3. mailbox' \in [Conns -> Seq(Requests)]
    <3>1. \A box \in Added(mailbox[c], r) : box \in Seq(Requests)
      BY <1>1, <2>2, AddedAt DEF TypeOK
    <3> QED BY <1>1, <2>1, <2>2, <3>1 DEF TypeOK
  <2>4. driver' \in [Requests -> DriverRecord]
        /\ \A q \in Requests : driver'[q].st \notin {"found", "reading"} \/ driver'[q].conn \in Conns
    <3>1. PICK st \in {"reading", "failed"} : driver' = [driver EXCEPT ![r] = [@ EXCEPT !.st = st]]
      BY <2>1
    <3>2. [driver[r] EXCEPT !.st = st] \in DriverRecord /\ [driver[r] EXCEPT !.st = st].conn = driver[r].conn
      BY <1>1 DEF DriverRecord
    <3>3. driver[r].conn \in Conns
      BY <2>2 DEF c
    <3> QED BY <1>1, <3>1, <3>2, <3>3 DEF Links
  <2>5. TypeOK'
    BY <1>1, <1>3, <2>1, <2>3, <2>4 DEF TypeOK, Open
  <2> QED BY <1>1, <1>2, <1>3, <2>4, <2>5, LinksIf DEF Links, Pumped
<1>6. CASE Read(r)
  <2> DEFINE e == Head(reply[r])
  <2>1. /\ driver[r].st = "reading" /\ reply[r] # <<>> /\ mailbox' = mailbox
        /\ reply' = [reply EXCEPT ![r] = IF e.kind \in {"accepted", "chunk"} THEN Tail(reply[r]) ELSE <<>>]
        /\ driver' = [driver EXCEPT ![r] =
             [driver[r] EXCEPT !.got = IF e.kind = "chunk" THEN Append(driver[r].got, e.n) ELSE driver[r].got,
                               !.st = IF e.kind = "error" THEN "failed"
                                      ELSE IF IsTerminal(e) THEN "closed" ELSE driver[r].st]]
    BY <1>1, <1>6 DEF Read, Streaming, Taken, gateway, DriverRecord
  <2>2. e \in Frames /\ Tail(reply[r]) \in Seq(Frames) /\ <<>> \in Seq(Frames)
    BY <1>1, <2>1, TailAt, EmptySeq DEF TypeOK
  <2> HIDE DEF e
  <2>3. reply' \in [Requests -> Seq(Frames)]
    BY <1>1, <2>1, <2>2 DEF TypeOK
  <2>4. e.kind = "chunk" => e.n \in 1..MaxChunks
    BY <2>2 DEF Frames
  <2>5. e.kind = "chunk" => Append(driver[r].got, e.n) \in Seq(1..MaxChunks)
    BY <1>1, <2>4, AppendAt DEF DriverRecord
  <2>6. driver' \in [Requests -> DriverRecord] /\ \A q \in Requests : driver'[q].conn = driver[q].conn
    BY <1>1, <2>1, <2>5 DEF DriverRecord
  <2>7. TypeOK'
    BY <1>1, <1>3, <2>1, <2>3, <2>6 DEF TypeOK, Open
  <2>8. \A q \in Requests : driver'[q].st \notin {"found", "reading"} \/ driver'[q].conn \in Conns
    BY <1>1, <2>1, <2>6 DEF Links
  <2> QED BY <1>1, <1>2, <1>3, <2>7, <2>8, LinksIf DEF Links, Pumped
<1>7. CASE ReadFails(r)
  <2>1. /\ mailbox' = mailbox /\ reply' = [reply EXCEPT ![r] = <<>>]
        /\ driver' = [driver EXCEPT ![r].st = "failed"]
    BY <1>7 DEF ReadFails, Fails, gateway
  <2>2. driver' \in [Requests -> DriverRecord]
        /\ \A q \in Requests : driver'[q].st \notin {"found", "reading"} \/ driver'[q].conn \in Conns
    BY <1>1, <2>1 DEF DriverRecord, Links
  <2>3. <<>> \in Seq(Frames)
    BY EmptySeq
  <2>4. TypeOK'
    BY <1>1, <1>3, <2>1, <2>2, <2>3 DEF TypeOK, Open
  <2> QED BY <1>1, <1>2, <1>3, <2>2, <2>4, LinksIf DEF Links, Pumped
<1> QED BY <1>4, <1>5, <1>6, <1>7

(* The steps of a connection and those of a request.                       *)
StepOfClient ==
  \/ Connect \/ Quit
  \/ \E c \in Conns : BoundArrives(c) \/ RequestArrives(c) \/ SocketCloses(c)
  \/ \E r \in Requests : ToolEnds(r)
StepOfGateway ==
  \E c \in Conns : Bind(c) \/ GatewayCloses(c) \/ SessionEnds(c) \/ Pump(c) \/ PublishResponse(c)
StepOfServer == \E r \in Requests : Invoke(r) \/ Publish(r) \/ Read(r) \/ ReadFails(r)

LEMMA Steps == ASSUME Next PROVE StepOfClient \/ StepOfGateway \/ StepOfServer
BY DEF Next, Serve, Faults, Closing, StepOfClient, StepOfGateway, StepOfServer

LEMMA LinkStep == ASSUME LinkInv, [Next]_vars PROVE LinksKept
<1>1. CASE Next
  BY <1>1, Steps, ClientKeepsLinks, GatewayKeepsLinks, ServerKeepsLinks
  DEF StepOfClient, StepOfGateway, StepOfServer
<1>2. CASE UNCHANGED vars
  BY <1>2 DEF vars, LinksKept, LinkInv, TypeOK, Links, Asked, Pumped, Open
<1> QED BY <1>1, <1>2

LEMMA LinkInit == ASSUME Init PROVE LinkInv
<1>1. <<>> \in Seq(Requests) /\ <<>> \in Seq(Messages) /\ <<>> \in Seq(Frames) /\ <<>> \in Seq(1..MaxChunks)
      /\ Len(<<>>) = 0
  BY EmptySeq
<1>2. NewRun \in RunRecord /\ NewDriver \in DriverRecord
  BY <1>1, InvocationAssumption DEF NewRun, NewDriver, RunRecord, DriverRecord
<1>3. TypeOK
  <2>1. mailbox \in [Conns -> Seq(Requests)] /\ toClient \in [Conns -> Seq(Messages)]
        /\ fromClient \in [Conns -> Seq(Frames)] /\ reply \in [Requests -> Seq(Frames)]
    BY <1>1 DEF Init
  <2>2. run \in [Requests -> RunRecord] /\ driver \in [Requests -> DriverRecord]
    BY <1>2 DEF Init
  <2>3. \A c \in Conns : toClient[c] = <<>> /\ fromClient[c] = <<>>
    BY DEF Init
  <2>4. 0 \in 0..MaxConns
    BY InvocationAssumption
  <2> QED BY <2>1, <2>2, <2>3, <2>4 DEF Init, TypeOK, Loops, Served
<1>4. Links
  BY <1>1 DEF Init, Links, Asked, NewRun, NewDriver
<1> QED BY <1>3, <1>4 DEF LinkInv

(* Every variable of an invocation has its type, for all requests,         *)
(* connections and chunks.                                                 *)
THEOREM InvocationTypes == Spec => []TypeOK
<1>1. LinkInv /\ [Next]_vars => LinkInv'
  BY LinkStep DEF LinksKept
<1>2. LinkInv => TypeOK
  BY DEF LinkInv
<1> QED BY <1>1, <1>2, LinkInit, PTL DEF Spec
-----------------------------------------------------------------------------
(* A request is in one place on its way to the tool, which runs it once.   *)
Boxed(r, c, i) == i \in 1..Len(mailbox[c]) /\ mailbox[c][i] = r
Asking(r, c, i) == i \in 1..Len(toClient[c]) /\ toClient[c][i] = [kind |-> "request", r |-> r]

Published(r) == driver[r].st \notin {"new", "found"}
Begun(r) == run[r].st # "none"

Tokens(r) ==
  /\ Begun(r) => Published(r)
  /\ \A c \in Conns, i \in Nat : Boxed(r, c, i) \/ Asking(r, c, i) => Published(r) /\ ~Begun(r)
  /\ \A c, d \in Conns, i, j \in Nat : Boxed(r, c, i) /\ Boxed(r, d, j) => c = d /\ i = j
  /\ \A c, d \in Conns, i, j \in Nat : Asking(r, c, i) /\ Asking(r, d, j) => c = d /\ i = j
  /\ \A c, d \in Conns, i, j \in Nat : ~(Boxed(r, c, i) /\ Asking(r, d, j))

TokenInv == LinkInv /\ \A r \in Requests : Tokens(r)

(* The request is at most where it was.                                    *)
Rests(r) ==
  \A c \in Conns :
    /\ \E k \in {0, 1} : \A i \in Nat : Boxed(r, c, i)' => Boxed(r, c, i + k)
    /\ \E k \in Nat : \A i \in Nat : Asking(r, c, i)' => Asking(r, c, i + k)

LEMMA TokensIf ==
  ASSUME NEW r \in Requests, Tokens(r), Rests(r),
         Begun(r) <=> Begun(r)', Published(r) <=> Published(r)'
  PROVE  Tokens(r)'
<1>1. ASSUME NEW c \in Conns, NEW i \in Nat, (Boxed(r, c, i) \/ Asking(r, c, i))'
      PROVE  Published(r)' /\ ~Begun(r)'
  <2>1. \E k \in Nat : Boxed(r, c, i + k) \/ Asking(r, c, i + k)
    BY <1>1 DEF Rests
  <2> QED BY <2>1 DEF Tokens
<1>2. ASSUME NEW c \in Conns, NEW d \in Conns, NEW i \in Nat, NEW j \in Nat, (Boxed(r, c, i) /\ Boxed(r, d, j))'
      PROVE  c = d /\ i = j
  <2>1. PICK k \in {0, 1} : \A n \in Nat : Boxed(r, c, n)' => Boxed(r, c, n + k)
    BY DEF Rests
  <2>2. PICK h \in {0, 1} : \A n \in Nat : Boxed(r, d, n)' => Boxed(r, d, n + h)
    BY DEF Rests
  <2>3. c = d /\ i + k = j + h
    BY <1>2, <2>1, <2>2 DEF Tokens
  <2>4. i + k = j + k
    BY <1>2, <2>1, <2>3 DEF Tokens
  <2> QED BY <2>3, <2>4
<1>3. ASSUME NEW c \in Conns, NEW d \in Conns, NEW i \in Nat, NEW j \in Nat, (Asking(r, c, i) /\ Asking(r, d, j))'
      PROVE  c = d /\ i = j
  <2>1. PICK k \in Nat : \A n \in Nat : Asking(r, c, n)' => Asking(r, c, n + k)
    BY DEF Rests
  <2>2. PICK h \in Nat : \A n \in Nat : Asking(r, d, n)' => Asking(r, d, n + h)
    BY DEF Rests
  <2>3. c = d
    BY <1>3, <2>1, <2>2 DEF Tokens
  <2>4. i + k = j + k
    BY <1>3, <2>1, <2>3 DEF Tokens
  <2> QED BY <2>3, <2>4
<1>4. ASSUME NEW c \in Conns, NEW d \in Conns, NEW i \in Nat, NEW j \in Nat PROVE ~(Boxed(r, c, i) /\ Asking(r, d, j))'
  <2>1. \E k \in Nat : (Boxed(r, c, i))' => Boxed(r, c, i + k)
    BY DEF Rests
  <2>2. \E k \in Nat : (Asking(r, d, j))' => Asking(r, d, j + k)
    BY DEF Rests
  <2> QED BY <2>1, <2>2 DEF Tokens
<1>5. Begun(r)' => Published(r)'
  BY DEF Tokens
<1> QED BY <1>1, <1>2, <1>3, <1>4, <1>5 DEF Tokens

(* What is left of the messages on a connection.                           *)
LEMMA FewerAsk ==
  ASSUME LinkInv, NEW r \in Requests, NEW c \in Conns, Fewer(toClient'[c], toClient[c])
  PROVE  \E k \in Nat : \A i \in Nat : Asking(r, c, i)' => Asking(r, c, i + k)
<1>1. Len(toClient[c]) \in Nat
  BY DEF LinkInv, TypeOK
<1>2. PICK k \in 0..Len(toClient[c]) :
        \A i \in 1..Len(toClient'[c]) : toClient'[c][i].kind = "request" =>
          i + k \in 1..Len(toClient[c]) /\ toClient'[c][i] = toClient[c][i + k]
  BY DEF Fewer
<1>3. k \in Nat
  BY <1>1
<1>4. \A i \in Nat : Asking(r, c, i)' => Asking(r, c, i + k)
  BY <1>2 DEF Asking
<1> QED BY <1>3, <1>4

LEMMA BoxSame ==
  ASSUME NEW r \in Requests, NEW c \in Conns, mailbox'[c] = mailbox[c]
  PROVE  \E k \in {0, 1} : \A i \in Nat : Boxed(r, c, i)' => Boxed(r, c, i + k)
BY DEF Boxed

(* A request another one is published after, and one that is.              *)
LEMMA BoxAdded ==
  ASSUME LinkInv, NEW r \in Requests, NEW q \in Requests, NEW c \in Conns,
         mailbox'[c] \in Added(mailbox[c], q)
  PROVE  /\ q # r => \E k \in {0, 1} : \A i \in Nat : Boxed(r, c, i)' => Boxed(r, c, i + k)
         /\ \E k \in {0, 1} : \A i \in Nat : Boxed(r, c, i)' => Boxed(r, c, i + k) \/ i = Len(mailbox'[c])
<1> DEFINE s == mailbox[c]
           t == mailbox'[c]
<1>1. s \in Seq(Requests)
  BY DEF LinkInv, TypeOK
<1>2. /\ Len(s) \in Nat
      /\ \/ /\ Len(t) = Len(s) + 1 /\ t[Len(s) + 1] = q
            /\ \A i \in 1..Len(s) : t[i] = s[i]
         \/ /\ Len(t) = Len(s) /\ Len(s) # 0 /\ t[Len(s)] = q
            /\ \A i \in 1..Len(s) - 1 : t[i] = s[i + 1]
  BY <1>1, AddedAt
<1>3. \A i \in Nat : /\ Boxed(r, c, i)' <=> i \in 1..Len(t) /\ t[i] = r
                     /\ Boxed(r, c, i) <=> i \in 1..Len(s) /\ s[i] = r
  BY DEF Boxed
<1> HIDE DEF s, t
<1>4. CASE /\ Len(t) = Len(s) + 1 /\ t[Len(s) + 1] = q
           /\ \A i \in 1..Len(s) : t[i] = s[i]
  <2>1. \A i \in Nat : Boxed(r, c, i)' => Boxed(r, c, i + 0) \/ (i = Len(t) /\ q = r)
    BY <1>2, <1>3, <1>4
  <2> QED BY <2>1 DEF t
<1>5. CASE /\ Len(t) = Len(s) /\ Len(s) # 0 /\ t[Len(s)] = q
           /\ \A i \in 1..Len(s) - 1 : t[i] = s[i + 1]
  <2>1. \A i \in Nat : Boxed(r, c, i)' => Boxed(r, c, i + 1) \/ (i = Len(t) /\ q = r)
    BY <1>2, <1>3, <1>5
  <2> QED BY <2>1 DEF t
<1> QED BY <1>2, <1>4, <1>5

(* A request is pumped.                                                    *)
LEMMA BoxTaken ==
  ASSUME LinkInv, NEW r \in Requests, NEW c \in Conns, mailbox[c] # <<>>, mailbox'[c] = Tail(mailbox[c])
  PROVE  /\ \A i \in Nat : Boxed(r, c, i)' => Boxed(r, c, i + 1)
         /\ Head(mailbox[c]) \in Requests /\ Boxed(Head(mailbox[c]), c, 1)
<1>1. mailbox[c] \in Seq(Requests)
  BY DEF LinkInv, TypeOK
<1>2. /\ Head(mailbox[c]) = mailbox[c][1] /\ Head(mailbox[c]) \in Requests /\ Len(mailbox[c]) \in Nat \ {0}
      /\ Len(Tail(mailbox[c])) = Len(mailbox[c]) - 1
      /\ \A i \in 1..Len(mailbox[c]) - 1 : Tail(mailbox[c])[i] = mailbox[c][i + 1]
  BY <1>1, TailAt
<1> QED BY <1>2 DEF Boxed

LEMMA PumpKeepsTokens ==
  ASSUME TokenInv, NEW c \in Conns, Pump(c), NEW r \in Requests
  PROVE  Tokens(r)'
<1> DEFINE q == Head(mailbox[c])
           m == [kind |-> "request", r |-> q]
<1>1. /\ UNCHANGED <<run, driver>> /\ mailbox[c] # <<>> /\ SendToClient(c, m)
      /\ mailbox' = [mailbox EXCEPT ![c] = Tail(@)]
  BY DEF Pump, Taken
<1>2. LinkInv /\ Tokens(r) /\ mailbox \in [Conns -> Seq(Requests)] /\ toClient \in [Conns -> Seq(Messages)]
  BY DEF TokenInv, LinkInv, TypeOK
<1>3. /\ \A i \in Nat : Boxed(r, c, i)' => Boxed(r, c, i + 1)
      /\ q \in Requests /\ Boxed(q, c, 1)
  BY <1>1, <1>2, BoxTaken
<1>4. \A d \in Conns : \E k \in {0, 1} : (d = c => k = 1) /\ \A i \in Nat : Boxed(r, d, i)' => Boxed(r, d, i + k)
  BY <1>1, <1>2, <1>3 DEF Boxed
<1>5. m \in Messages
  BY <1>3 DEF Messages
<1>6. \A d \in Conns : \/ toClient'[d] = toClient[d]
                       \/ d = c /\ toClient'[d] = Append(toClient[d], m)
  BY <1>1, <1>2, <1>5, SendsToClient
<1>7. \A d \in Conns, i \in Nat : Asking(r, d, i)' =>
        Asking(r, d, i) \/ (q = r /\ d = c /\ i = Len(toClient[c]) + 1)
  <2>1. ASSUME NEW i \in Nat, toClient'[c] = Append(toClient[c], m), (Asking(r, c, i))'
        PROVE  Asking(r, c, i) \/ (q = r /\ i = Len(toClient[c]) + 1)
    <3>1. /\ Len(toClient'[c]) = Len(toClient[c]) + 1 /\ Len(toClient[c]) \in Nat
          /\ toClient'[c][Len(toClient[c]) + 1] = m
          /\ \A n \in 1..Len(toClient[c]) : toClient'[c][n] = toClient[c][n]
      BY <1>2, <1>5, <2>1, AppendAt
    <3>2. i \in 1..Len(toClient'[c]) /\ toClient'[c][i] = [kind |-> "request", r |-> r]
      BY <2>1 DEF Asking
    <3>3. CASE i \in 1..Len(toClient[c])
      BY <3>1, <3>2, <3>3 DEF Asking
    <3>4. CASE i = Len(toClient[c]) + 1
      BY <3>1, <3>2, <3>4
    <3> QED BY <3>1, <3>2, <3>3, <3>4
  <2> QED BY <1>6, <2>1 DEF Asking
<1> HIDE DEF q, m
<1>8. (Begun(r) <=> Begun(r)') /\ (Published(r) <=> Published(r)')
  BY <1>1 DEF Begun, Published
<1>9. CASE q # r
  <2>1. Rests(r)
    BY <1>4, <1>7, <1>9 DEF Rests
  <2> QED BY <1>2, <1>8, <2>1, TokensIf
<1>10. CASE q = r
  <2>1. /\ Published(r) /\ ~Begun(r)
        /\ \A d \in Conns, i \in Nat : Boxed(r, d, i) => d = c /\ i = 1
        /\ \A d \in Conns, i \in Nat : ~Asking(r, d, i)
    BY <1>2, <1>3, <1>10 DEF Tokens
  <2>2. \A d \in Conns, i \in Nat : ~Boxed(r, d, i)'
    <3> SUFFICES ASSUME NEW d \in Conns, NEW i \in Nat, Boxed(r, d, i)' PROVE FALSE
      OBVIOUS
    <3>1. 0 \notin 1..Len(mailbox'[c])
      OBVIOUS
    <3>2. PICK k \in {0, 1} : (d = c => k = 1) /\ Boxed(r, d, i + k)
      BY <1>4
    <3>3. d = c /\ i = 0
      BY <2>1, <3>2
    <3> QED BY <3>1, <3>3 DEF Boxed
  <2>3. \A d \in Conns, i \in Nat : Asking(r, d, i)' => d = c /\ i = Len(toClient[c]) + 1
    BY <1>7, <2>1
  <2> QED BY <1>8, <2>1, <2>2, <2>3 DEF Tokens
<1> QED BY <1>9, <1>10

LEMMA PublishKeepsTokens ==
  ASSUME TokenInv, NEW q \in Requests, Publish(q), NEW r \in Requests
  PROVE  Tokens(r)'
<1> DEFINE c == driver[q].conn
<1>1. /\ UNCHANGED <<run, toClient>> /\ driver[q].st = "found"
      /\ \/ mailbox' = mailbox
         \/ \E box \in Added(mailbox[c], q) : mailbox' = [mailbox EXCEPT ![c] = box]
      /\ driver' = [driver EXCEPT ![q].st = "reading"] \/ driver' = [driver EXCEPT ![q].st = "failed"]
  BY DEF Publish, Fails
<1>2. /\ LinkInv /\ Tokens(r) /\ Tokens(q) /\ mailbox \in [Conns -> Seq(Requests)]
      /\ driver \in [Requests -> DriverRecord] /\ c \in Conns
  BY <1>1 DEF TokenInv, LinkInv, TypeOK, Links
<1> HIDE DEF c
<1>3. /\ \A d \in Conns : mailbox'[d] = mailbox[d] \/ (d = c /\ mailbox'[d] \in Added(mailbox[d], q))
      /\ mailbox' = mailbox \/ mailbox'[c] \in Added(mailbox[c], q)
  BY <1>1, <1>2
<1>4. /\ \A p \in Requests \ {q} : driver'[p] = driver[p]
      /\ driver'[q].st \in {"reading", "failed"}
  BY <1>1, <1>2 DEF DriverRecord
<1>5. \A d \in Conns, i \in Nat : Asking(r, d, i)' => Asking(r, d, i + 0)
  BY <1>1 DEF Asking
<1>6. CASE q # r
  <2>1. \A d \in Conns : \E k \in {0, 1} : \A i \in Nat : Boxed(r, d, i)' => Boxed(r, d, i + k)
    BY <1>2, <1>3, <1>6, BoxSame, BoxAdded
  <2>2. Rests(r)
    BY <1>5, <2>1 DEF Rests
  <2>3. (Begun(r) <=> Begun(r)') /\ (Published(r) <=> Published(r)')
    BY <1>1, <1>4, <1>6 DEF Begun, Published
  <2> QED BY <1>2, <2>2, <2>3, TokensIf
<1>7. CASE q = r
  <2>1. /\ \A d \in Conns, i \in Nat : ~Boxed(r, d, i) /\ ~Asking(r, d, i)
        /\ ~Begun(r)
    BY <1>1, <1>2, <1>7 DEF Tokens, Published
  <2>2. ~Begun(r)' /\ Published(r)'
    BY <1>1, <1>4, <1>7, <2>1 DEF Begun, Published
  <2>3. \A d \in Conns, i \in Nat : ~Asking(r, d, i)'
    BY <1>5, <2>1
  <2>4. \A d \in Conns, i \in Nat : Boxed(r, d, i)' => d = c /\ i = Len(mailbox'[c])
    <3> SUFFICES ASSUME NEW d \in Conns, NEW i \in Nat, Boxed(r, d, i)'
                 PROVE  d = c /\ i = Len(mailbox'[c])
      OBVIOUS
    <3>1. CASE mailbox'[d] = mailbox[d]
      BY <2>1, <3>1 DEF Boxed
    <3>2. CASE d = c /\ mailbox'[d] \in Added(mailbox[d], q)
      <4>1. \E k \in {0, 1} : Boxed(r, d, i + k) \/ i = Len(mailbox'[d])
        BY <1>2, <3>2, BoxAdded
      <4> QED BY <2>1, <3>2, <4>1
    <3> QED BY <1>3, <3>1, <3>2
  <2> QED BY <2>2, <2>3, <2>4 DEF Tokens
<1> QED BY <1>6, <1>7

LEMMA ArrivalKeepsTokens ==
  ASSUME TokenInv, NEW c \in Conns, RequestArrives(c), NEW r \in Requests
  PROVE  Tokens(r)'
<1>1. /\ UNCHANGED <<mailbox, driver>> /\ toClient[c] # <<>> /\ toClient' = [toClient EXCEPT ![c] = Tail(@)]
  BY DEF RequestArrives, gateway
<1>2. LinkInv /\ Tokens(r) /\ run \in [Requests -> RunRecord]
  BY DEF TokenInv, LinkInv, TypeOK
<1>3. PICK q \in Requests, st \in {"running", "done"} :
        /\ toClient[c][1] = [kind |-> "request", r |-> q]
        /\ run' = [run EXCEPT ![q] = [st |-> st, conn |-> c, made |-> 0]]
  BY <1>2, RequestTaken
<1>4. /\ 1 \in 1..Len(toClient[c])
      /\ \A d \in Conns : Fewer(toClient'[d], toClient[d])
      /\ \A d \in Conns \ {c} : toClient'[d] = toClient[d]
      /\ \A i \in 1..Len(toClient'[c]) : i + 1 \in 1..Len(toClient[c]) /\ toClient'[c][i] = toClient[c][i + 1]
  BY <1>1, <1>2, TakesMessage
<1>5. \A d \in Conns, i \in Nat : Boxed(r, d, i)' => Boxed(r, d, i + 0)
  BY <1>1 DEF Boxed
<1>6. CASE q # r
  <2>1. Rests(r)
    BY <1>2, <1>4, <1>5, FewerAsk DEF Rests
  <2>2. (Begun(r) <=> Begun(r)') /\ (Published(r) <=> Published(r)')
    BY <1>1, <1>2, <1>3, <1>6 DEF Begun, Published
  <2> QED BY <1>2, <2>1, <2>2, TokensIf
<1>7. CASE q = r
  <2>1. Asking(r, c, 1)
    BY <1>3, <1>4, <1>7 DEF Asking
  <2>2. /\ Published(r)
        /\ \A d \in Conns, i \in Nat : ~Boxed(r, d, i)
        /\ \A d \in Conns, i \in Nat : Asking(r, d, i) => d = c /\ i = 1
    BY <1>2, <2>1 DEF Tokens
  <2>3. Published(r)'
    BY <1>1, <2>2 DEF Published
  <2>4. \A d \in Conns, i \in Nat : ~Boxed(r, d, i)'
    BY <1>5, <2>2
  <2>5. \A d \in Conns, i \in Nat : ~Asking(r, d, i)'
    <3> SUFFICES ASSUME NEW d \in Conns, NEW i \in Nat, Asking(r, d, i)' PROVE FALSE
      OBVIOUS
    <3>1. CASE d # c
      <4>1. Asking(r, d, i)
        BY <1>4, <3>1 DEF Asking
      <4> QED BY <2>2, <3>1, <4>1
    <3>2. CASE d = c
      <4>1. i \in 1..Len(toClient'[c]) /\ Asking(r, c, i + 1)
        BY <1>4, <3>2 DEF Asking
      <4>2. i + 1 = 1
        BY <2>2, <4>1
      <4> QED BY <4>1, <4>2
    <3> QED BY <3>1, <3>2
  <2> QED BY <2>3, <2>4, <2>5 DEF Tokens
<1> QED BY <1>6, <1>7
(* A reply that is read; the stream ends with the last one, or goes on.    *)
LEMMA Reads ==
  ASSUME LinkInv, NEW r \in Requests, Read(r), NEW e, e = reply[r][1]
  PROVE  /\ driver[r].st = "reading" /\ e \in Frames /\ reply[r] # <<>>
         /\ \A q \in Requests \ {r} : driver'[q] = driver[q] /\ reply'[q] = reply[q]
         /\ driver'[r].got = IF e.kind = "chunk" THEN Append(driver[r].got, e.n) ELSE driver[r].got
         /\ \/ /\ e.kind \in {"accepted", "chunk"}
               /\ driver'[r].st = "reading" /\ reply'[r] = Tail(reply[r])
            \/ /\ e.kind = "end" /\ driver'[r].st = "closed" /\ reply'[r] = <<>>
            \/ /\ e.kind = "error" /\ driver'[r].st = "failed" /\ reply'[r] = <<>>
<1>1. /\ reply \in [Requests -> Seq(Frames)] /\ driver \in [Requests -> DriverRecord]
      /\ driver[r] \in DriverRecord
  BY DEF LinkInv, TypeOK
<1>2. /\ driver[r].st = "reading" /\ reply[r] # <<>>
      /\ reply' = [reply EXCEPT ![r] = IF Head(reply[r]).kind \in {"accepted", "chunk"} THEN Tail(reply[r]) ELSE <<>>]
      /\ driver' = [driver EXCEPT ![r] =
           [driver[r] EXCEPT !.got = IF Head(reply[r]).kind = "chunk"
                                     THEN Append(driver[r].got, Head(reply[r]).n) ELSE driver[r].got,
                             !.st = IF Head(reply[r]).kind = "error" THEN "failed"
                                    ELSE IF IsTerminal(Head(reply[r])) THEN "closed" ELSE driver[r].st]]
  BY <1>1 DEF Read, Streaming, Taken, DriverRecord
<1>3. Head(reply[r]) = e /\ e \in Frames
  BY <1>1, <1>2, TailAt
<1>4. e.kind \in {"accepted", "chunk", "end", "error"}
  BY <1>3 DEF Frames
<1>5. /\ driver'[r].got = IF e.kind = "chunk" THEN Append(driver[r].got, e.n) ELSE driver[r].got
      /\ driver'[r].st = IF e.kind = "error" THEN "failed" ELSE IF IsTerminal(e) THEN "closed" ELSE driver[r].st
      /\ \A q \in Requests \ {r} : driver'[q] = driver[q]
  BY <1>1, <1>2, <1>3 DEF DriverRecord
<1>6. /\ reply'[r] = IF e.kind \in {"accepted", "chunk"} THEN Tail(reply[r]) ELSE <<>>
      /\ \A q \in Requests \ {r} : reply'[q] = reply[q]
  BY <1>1, <1>2, <1>3
<1> QED BY <1>2, <1>3, <1>4, <1>5, <1>6 DEF IsTerminal

LEMMA TokenStep == ASSUME TokenInv, [Next]_vars PROVE TokenInv'
<1>1. LinkInv /\ TypeOK /\ Links /\ \A r \in Requests : Tokens(r)
  BY DEF TokenInv, LinkInv
<1>2. LinkInv'
  BY <1>1, LinkStep DEF LinksKept
<1>3. /\ toClient \in [Conns -> Seq(Messages)] /\ run \in [Requests -> RunRecord]
      /\ driver \in [Requests -> DriverRecord]
  BY <1>1 DEF TypeOK
<1>4. \A d \in Conns : Fewer(toClient[d], toClient[d])
  BY <1>3, FewerAt
<1> SUFFICES ASSUME NEW r \in Requests PROVE Tokens(r)'
  BY <1>2 DEF TokenInv
<1>5. ASSUME mailbox' = mailbox, \A d \in Conns : Fewer(toClient'[d], toClient[d]),
             Begun(r) <=> Begun(r)', Published(r) <=> Published(r)'
      PROVE  Tokens(r)'
  BY <1>1, <1>5, FewerAsk, BoxSame, TokensIf DEF Rests
<1>6. CASE StepOfClient
  <2>1. CASE Connect \/ \E q \in Requests : ToolEnds(q)
    <3>1. UNCHANGED <<mailbox, toClient, driver>>
      BY <2>1 DEF Connect, ToolEnds, gateway
    <3>2. ASSUME NEW q \in Requests, ToolEnds(q) PROVE Begun(r) <=> Begun(r)'
      <4>1. /\ run[q].st = "running"
            /\ \E n \in 0..MaxChunks : run' = [run EXCEPT ![q] = [st |-> "done", conn |-> run[q].conn, made |-> n]]
        BY <1>1, <3>2, ToolSends
      <4> QED BY <1>3, <4>1 DEF Begun
    <3>3. Begun(r) <=> Begun(r)'
      BY <2>1, <3>2 DEF Connect, Begun
    <3> QED BY <1>4, <1>5, <3>1, <3>3 DEF Published
  <2>2. CASE Quit
    <3>1. UNCHANGED <<mailbox, driver, run>>
      BY <2>2 DEF Quit, gateway
    <3>2. \A d \in Conns : Fewer(toClient'[d], toClient[d])
      BY <1>1, <1>4, <2>2, ClosesByClient DEF Quit, Links
    <3> QED BY <1>5, <3>1, <3>2 DEF Published, Begun
  <2>3. ASSUME NEW c \in Conns, BoundArrives(c) PROVE Tokens(r)'
    <3>1. UNCHANGED <<mailbox, driver, run>> /\ toClient[c] # <<>> /\ toClient' = [toClient EXCEPT ![c] = Tail(@)]
      BY <2>3 DEF BoundArrives, gateway
    <3>2. \A d \in Conns : Fewer(toClient'[d], toClient[d])
      BY <1>1, <3>1, TakesMessage
    <3> QED BY <1>5, <3>1, <3>2 DEF Published, Begun
  <2>4. ASSUME NEW c \in Conns, SocketCloses(c) PROVE Tokens(r)'
    <3>1. UNCHANGED <<mailbox, driver, run>> /\ ClientCloses(c)
      BY <2>4 DEF SocketCloses, gateway
    <3>2. \A d \in Conns : Fewer(toClient'[d], toClient[d])
      BY <1>1, <3>1, ClosesByClient
    <3> QED BY <1>5, <3>1, <3>2 DEF Published, Begun
  <2> QED BY <1>6, <2>1, <2>2, <2>3, <2>4, ArrivalKeepsTokens DEF StepOfClient
<1>7. CASE StepOfGateway
  <2>1. ASSUME NEW c \in Conns, Bind(c) PROVE Tokens(r)'
    <3>1. PICK kind \in {"bound", "duplicate", "refused"} : SendToClient(c, [kind |-> kind, r |-> None])
      BY <2>1 DEF Bind
    <3>2. [kind |-> kind, r |-> None] \in Messages /\ kind # "request" /\ UNCHANGED <<mailbox, driver, run>>
      BY <2>1 DEF Messages, Bind
    <3>3. \A d \in Conns : \/ toClient'[d] = toClient[d]
                           \/ d = c /\ toClient'[d] = Append(toClient[d], [kind |-> kind, r |-> None])
      BY <1>1, <3>1, <3>2, SendsToClient
    <3>4. \A d \in Conns : Fewer(toClient'[d], toClient[d])
      BY <1>3, <1>4, <3>2, <3>3, FewerAt
    <3> QED BY <1>5, <3>2, <3>4 DEF Published, Begun
  <2>2. ASSUME NEW c \in Conns, GatewayCloses(c) PROVE Tokens(r)'
    <3>1. UNCHANGED <<mailbox, driver, run>>
      BY <2>2 DEF GatewayCloses
    <3>2. \A d \in Conns : Fewer(toClient'[d], toClient[d])
      BY <1>1, <2>2, ClosesByGateway
    <3> QED BY <1>5, <3>1, <3>2 DEF Published, Begun
  <2>3. ASSUME NEW c \in Conns, SessionEnds(c) \/ PublishResponse(c) PROVE Tokens(r)'
    <3>1. UNCHANGED <<mailbox, driver, run, toClient>>
      BY <2>3 DEF SessionEnds, PublishResponse, gateway
    <3> QED BY <1>4, <1>5, <3>1 DEF Published, Begun
  <2> QED BY <1>7, <2>1, <2>2, <2>3, PumpKeepsTokens DEF StepOfGateway
<1>8. CASE StepOfServer
  <2>1. ASSUME NEW q \in Requests, Read(q) \/ ReadFails(q) PROVE Tokens(r)'
    <3>1. UNCHANGED <<mailbox, run, toClient>>
      BY <2>1 DEF Read, ReadFails, gateway
    <3>2. /\ driver[q].st = "reading" /\ \A p \in Requests \ {q} : driver'[p] = driver[p]
          /\ driver'[q].st \in {"reading", "closed", "failed"}
      BY <1>1, <1>3, <2>1, Reads DEF ReadFails, Fails, Streaming, DriverRecord
    <3>3. Published(r) <=> Published(r)'
      BY <3>2 DEF Published
    <3> QED BY <1>4, <1>5, <3>1, <3>3 DEF Begun
  <2>2. ASSUME NEW q \in Requests, Invoke(q) PROVE Tokens(r)'
    <3>1. UNCHANGED <<mailbox, run, toClient>> /\ driver[q].st = "new"
      BY <2>2 DEF Invoke, gateway
    <3>2. /\ \A p \in Requests \ {q} : driver'[p] = driver[p]
          /\ driver'[q].st \in {"found", "failed"}
      BY <1>3, <2>2 DEF Invoke, Fails, DriverRecord
    <3>3. CASE r # q
      BY <1>4, <1>5, <3>1, <3>2, <3>3 DEF Begun, Published
    <3>4. CASE r = q
      <4>1. ~Begun(r) /\ \A d \in Conns, i \in Nat : ~Boxed(r, d, i) /\ ~Asking(r, d, i)
        BY <1>1, <3>1, <3>4 DEF Tokens, Published
      <4> QED BY <3>1, <4>1 DEF Tokens, Begun, Boxed, Asking
    <3> QED BY <3>3, <3>4
  <2> QED BY <1>8, <2>1, <2>2, PublishKeepsTokens DEF StepOfServer
<1>9. CASE UNCHANGED vars
  BY <1>4, <1>5, <1>9 DEF vars, Begun, Published
<1> QED BY <1>6, <1>7, <1>8, <1>9, Steps

LEMMA TokenInit == ASSUME Init PROVE TokenInv
<1>1. Len(<<>>) = 0
  BY EmptySeq
<1>2. \A r \in Requests, c \in Conns, i \in Nat : ~Boxed(r, c, i) /\ ~Asking(r, c, i)
  BY <1>1 DEF Init, Boxed, Asking
<1>3. \A r \in Requests : ~Begun(r)
  BY DEF Init, Begun, NewRun
<1> QED BY <1>2, <1>3, LinkInit DEF TokenInv, Tokens
-----------------------------------------------------------------------------
(* The order of replies.  Position of f in what a tool with m chunks sends; *)
(* an error may come at any time but is the last.                          *)
Pos(f, m) ==
  IF f.kind = "accepted" THEN 0
  ELSE IF f.kind = "chunk" THEN f.n
  ELSE IF f.kind = "end" THEN m + 1 ELSE MaxChunks + 2

Data == {"chunk", "end"}
Has(s, r, k) == \E j \in 1..Len(s) : s[j] = Frame("chunk", r, k)

(* What a reader of g chunks finds in the reply mailbox R: replies in order, *)
(* none it has read, and for each all the chunks before it.                *)
Waiting(R, r, g, m) ==
  /\ \A i \in 1..Len(R) : R[i].kind # "accepted" => Pos(R[i], m) > g
  /\ \A i, j \in 1..Len(R) : i < j => Pos(R[i], m) < Pos(R[j], m)
  /\ \A i \in 1..Len(R) : R[i].kind \in Data => \A k \in g + 1..Pos(R[i], m) - 1 : Has(R, r, k)

(* The same of the frames of r on the connection F, which come after.      *)
Coming(R, F, r, g, m) ==
  /\ \A i \in 1..Len(F) : F[i].r = r =>
       /\ F[i].kind # "accepted" => Pos(F[i], m) > g
       /\ \A j \in 1..Len(R) : Pos(R[j], m) < Pos(F[i], m)
       /\ F[i].kind \in Data => \A k \in g + 1..Pos(F[i], m) - 1 : Has(R, r, k) \/ Has(F, r, k)
  /\ \A i, j \in 1..Len(F) : i < j /\ F[i].r = r /\ F[j].r = r => Pos(F[i], m) < Pos(F[j], m)

LEMMA FrameIs ==
  ASSUME NEW f \in Frames, NEW m \in 0..MaxChunks
  PROVE  /\ f.kind \in {"accepted", "chunk", "end", "error"} /\ f.r \in Requests
         /\ f.n \in 0..MaxChunks /\ f = Frame(f.kind, f.r, f.n) /\ Pos(f, m) \in Nat
         /\ f.kind = "accepted" => Pos(f, m) = 0
         /\ f.kind = "chunk" => Pos(f, m) = f.n /\ f.n \in 1..MaxChunks
         /\ f.kind = "end" => Pos(f, m) = m + 1
         /\ f.kind = "error" => Pos(f, m) = MaxChunks + 2
BY InvocationAssumption DEF Frames, Frame, Pos

(* What is left of F for r: its frames from the first or second place on,  *)
(* up to a cut.                                                            *)
Follows(t, s, r) ==
  \E h \in {0, 1} :
    /\ \A i \in 1..Len(t) : t[i].r = r => i + h \in 1..Len(s) /\ t[i] = s[i + h]
    /\ \A i \in 1..Len(t), j \in 1..Len(s) :
         t[i].r = r /\ s[j].r = r /\ j < i + h => j - h \in 1..Len(t) /\ t[j - h] = s[j]

LEMMA FollowsAt ==
  ASSUME NEW s \in Seq(Frames), NEW r
  PROVE  /\ \A t \in Seq(Frames) :
              Len(t) <= Len(s) /\ (\A i \in 1..Len(t) : t[i] = s[i]) => Follows(t, s, r)
         /\ \A t \in Seq(Frames) : (\A i \in 1..Len(t) : t[i].r # r) => Follows(s \o t, s, r)
         /\ s # <<>> /\ s[1].r # r => Follows(Tail(s), s, r)
<1>1. ASSUME NEW t \in Seq(Frames), Len(t) <= Len(s), \A i \in 1..Len(t) : t[i] = s[i]
      PROVE  Follows(t, s, r)
  <2>1. Len(t) \in Nat /\ Len(s) \in Nat
    OBVIOUS
  <2>2. \A i \in 1..Len(t) : i + 0 \in 1..Len(s) /\ t[i] = s[i + 0]
    BY <1>1, <2>1
  <2>3. \A i \in 1..Len(t), j \in 1..Len(s) : j < i + 0 => j - 0 \in 1..Len(t) /\ t[j - 0] = s[j]
    BY <1>1, <2>1
  <2> QED BY <2>2, <2>3 DEF Follows
<1>2. ASSUME NEW t \in Seq(Frames), \A i \in 1..Len(t) : t[i].r # r
      PROVE  Follows(s \o t, s, r)
  <2> DEFINE u == s \o t
  <2>1. /\ Len(u) = Len(s) + Len(t) /\ Len(s) \in Nat /\ Len(t) \in Nat
        /\ \A i \in 1..Len(s) : u[i] = s[i]
        /\ \A i \in Len(s) + 1..Len(s) + Len(t) : u[i] = t[i - Len(s)]
    BY ConcatAt
  <2> HIDE DEF u
  <2>2. ASSUME NEW i \in 1..Len(u), u[i].r = r PROVE i \in 1..Len(s)
    <3>1. CASE i \in Len(s) + 1..Len(s) + Len(t)
      <4>1. i - Len(s) \in 1..Len(t) /\ u[i] = t[i - Len(s)]
        BY <2>1, <3>1
      <4> QED BY <1>2, <2>2, <4>1
    <3> QED BY <2>1, <3>1
  <2>3. \A i \in 1..Len(u) : u[i].r = r => i + 0 \in 1..Len(s) /\ u[i] = s[i + 0]
    BY <2>1, <2>2
  <2>4. \A i \in 1..Len(u), j \in 1..Len(s) : j < i + 0 => j - 0 \in 1..Len(u) /\ u[j - 0] = s[j]
    BY <2>1
  <2>5. Follows(u, s, r)
    BY <2>3, <2>4 DEF Follows
  <2> QED BY <2>5 DEF u
<1>3. ASSUME s # <<>>, s[1].r # r PROVE Follows(Tail(s), s, r)
  <2>1. /\ Len(s) \in Nat \ {0} /\ Len(Tail(s)) = Len(s) - 1
        /\ \A i \in 1..Len(s) - 1 : Tail(s)[i] = s[i + 1]
    BY <1>3, TailAt
  <2>2. \A i \in 1..Len(Tail(s)) : i + 1 \in 1..Len(s) /\ Tail(s)[i] = s[i + 1]
    BY <2>1
  <2>3. ASSUME NEW i \in 1..Len(Tail(s)), NEW j \in 1..Len(s), s[j].r = r, j < i + 1
        PROVE  j - 1 \in 1..Len(Tail(s)) /\ Tail(s)[j - 1] = s[j]
    <3>1. j # 1
      BY <1>3, <2>3
    <3>2. j - 1 \in 1..Len(s) - 1
      BY <2>1, <2>3, <3>1
    <3> QED BY <2>1, <3>2
  <2> QED BY <2>2, <2>3 DEF Follows
<1> QED BY <1>1, <1>2, <1>3

(* Frames are lost from the end, or those of others come and go.           *)
LEMMA ComingFollows ==
  ASSUME NEW R, NEW F \in Seq(Frames), NEW t, NEW r \in Requests, NEW g \in Nat, NEW m \in 0..MaxChunks,
         Coming(R, F, r, g, m), Follows(t, F, r)
  PROVE  Coming(R, t, r, g, m)
<1>1. PICK h \in {0, 1} :
        /\ \A i \in 1..Len(t) : t[i].r = r => i + h \in 1..Len(F) /\ t[i] = F[i + h]
        /\ \A i \in 1..Len(t), j \in 1..Len(F) :
             t[i].r = r /\ F[j].r = r /\ j < i + h => j - h \in 1..Len(t) /\ t[j - h] = F[j]
  BY DEF Follows
<1>2. ASSUME NEW i \in 1..Len(t), t[i].r = r
      PROVE  /\ t[i].kind # "accepted" => Pos(t[i], m) > g
             /\ \A j \in 1..Len(R) : Pos(R[j], m) < Pos(t[i], m)
             /\ t[i].kind \in Data => \A k \in g + 1..Pos(t[i], m) - 1 : Has(R, r, k) \/ Has(t, r, k)
  <2>1. i + h \in 1..Len(F) /\ t[i] = F[i + h] /\ t[i] \in Frames /\ Pos(t[i], m) \in Nat
    BY <1>1, <1>2, FrameIs
  <2>2. ASSUME t[i].kind \in Data, NEW k \in g + 1..Pos(t[i], m) - 1, ~Has(R, r, k)
        PROVE  Has(t, r, k)
    <3>1. Has(F, r, k)
      BY <1>2, <2>1, <2>2 DEF Coming
    <3>2. PICK j \in 1..Len(F) : F[j] = Frame("chunk", r, k)
      BY <3>1 DEF Has
    <3>3. F[j].r = r /\ Pos(F[j], m) = k
      BY <3>2 DEF Frame, Pos
    <3>4. ~(i + h < j) /\ i + h # j
      BY <1>2, <2>1, <2>2, <3>3 DEF Coming
    <3>5. j < i + h
      BY <3>4
    <3>6. j - h \in 1..Len(t) /\ t[j - h] = F[j]
      BY <1>1, <1>2, <3>3, <3>5
    <3> QED BY <3>2, <3>6 DEF Has
  <2> QED BY <1>2, <2>1, <2>2 DEF Coming
<1>3. ASSUME NEW i \in 1..Len(t), NEW j \in 1..Len(t), i < j, t[i].r = r, t[j].r = r
      PROVE  Pos(t[i], m) < Pos(t[j], m)
  <2>1. i + h \in 1..Len(F) /\ t[i] = F[i + h] /\ j + h \in 1..Len(F) /\ t[j] = F[j + h] /\ i + h < j + h
    BY <1>1, <1>3
  <2> QED BY <1>3, <2>1 DEF Coming
<1> QED BY <1>2, <1>3 DEF Coming

(* The first frame on the connection is published.                         *)
LEMMA FramePublished ==
  ASSUME NEW R \in Seq(Frames), NEW F \in Seq(Frames), NEW r \in Requests, NEW g \in Nat, NEW m \in 0..MaxChunks,
         Waiting(R, r, g, m), Coming(R, F, r, g, m), F # <<>>, F[1].r = r
  PROVE  Waiting(Append(R, F[1]), r, g, m) /\ Coming(Append(R, F[1]), Tail(F), r, g, m)
<1> DEFINE e == F[1]
           A == Append(R, e)
           t == Tail(F)
<1>1. /\ e \in Frames /\ Len(F) \in Nat \ {0} /\ Len(t) = Len(F) - 1
      /\ \A i \in 1..Len(F) - 1 : t[i] = F[i + 1]
  BY TailAt
<1>2. /\ Len(A) = Len(R) + 1 /\ Len(R) \in Nat /\ A[Len(R) + 1] = e
      /\ \A i \in 1..Len(R) : A[i] = R[i]
  BY <1>1, AppendAt
<1>3. /\ 1 \in 1..Len(F) /\ e = F[1] /\ e.r = r
      /\ \A i \in 1..Len(F) : F[i] \in Frames /\ Pos(F[i], m) \in Nat
      /\ \A i \in 1..Len(R) : R[i] \in Frames /\ Pos(R[i], m) \in Nat
  BY <1>1, FrameIs
<1> HIDE DEF e, A, t
<1>4. \A k : Has(R, r, k) => Has(A, r, k)
  BY <1>2 DEF Has
<1>5. ASSUME NEW k, Has(F, r, k) PROVE Has(t, r, k) \/ (e = Frame("chunk", r, k) /\ Pos(e, m) = k)
  <2>1. PICK j \in 1..Len(F) : F[j] = Frame("chunk", r, k)
    BY <1>5 DEF Has
  <2>2. CASE j = 1
    BY <1>3, <2>1, <2>2 DEF Frame, Pos
  <2>3. CASE j # 1
    <3>1. j - 1 \in 1..Len(F) - 1 /\ t[j - 1] = F[(j - 1) + 1]
      BY <1>1, <2>3
    <3>2. j - 1 \in 1..Len(t) /\ t[j - 1] = F[j]
      BY <1>1, <3>1
    <3> QED BY <2>1, <3>2 DEF Has
  <2> QED BY <2>2, <2>3
<1>6. \A k : e = Frame("chunk", r, k) => Has(A, r, k)
  BY <1>2 DEF Has
<1>7. e.kind \in Data => \A k \in g + 1..Pos(e, m) - 1 : Has(A, r, k)
  <2> SUFFICES ASSUME e.kind \in Data, NEW k \in g + 1..Pos(e, m) - 1 PROVE Has(A, r, k)
    OBVIOUS
  <2>1. Has(R, r, k) \/ Has(F, r, k)
    BY <1>3 DEF Coming
  <2>2. CASE Has(F, r, k)
    <3>1. PICK j \in 1..Len(F) : F[j] = Frame("chunk", r, k)
      BY <2>2 DEF Has
    <3>2. F[j].r = r /\ Pos(F[j], m) = k
      BY <3>1 DEF Frame, Pos
    <3>3. CASE j = 1
      BY <1>3, <3>2, <3>3
    <3>4. CASE 1 < j
      <4>1. Pos(e, m) < k
        BY <1>3, <3>2, <3>4 DEF Coming
      <4> QED BY <1>3, <4>1
    <3> QED BY <3>3, <3>4
  <2> QED BY <1>4, <2>1, <2>2
<1>8. Waiting(A, r, g, m)
  <2>1. ASSUME NEW i \in 1..Len(A)
        PROVE  /\ A[i].kind # "accepted" => Pos(A[i], m) > g
               /\ A[i].kind \in Data => \A k \in g + 1..Pos(A[i], m) - 1 : Has(A, r, k)
    <3>1. CASE i \in 1..Len(R)
      BY <1>2, <1>4, <3>1 DEF Waiting
    <3>2. CASE i = Len(R) + 1
      BY <1>2, <1>3, <1>7, <3>2 DEF Coming
    <3> QED BY <1>2, <3>1, <3>2
  <2>2. ASSUME NEW i \in 1..Len(A), NEW j \in 1..Len(A), i < j
        PROVE  Pos(A[i], m) < Pos(A[j], m)
    <3>1. i \in 1..Len(R) /\ A[i] = R[i]
      BY <1>2, <2>2
    <3>2. CASE j \in 1..Len(R)
      BY <1>2, <2>2, <3>1, <3>2 DEF Waiting
    <3>3. CASE j = Len(R) + 1
      BY <1>2, <1>3, <3>1, <3>3 DEF Coming
    <3> QED BY <1>2, <3>2, <3>3
  <2> QED BY <2>1, <2>2 DEF Waiting
<1>9. Coming(A, t, r, g, m)
  <2>1. ASSUME NEW i \in 1..Len(t), t[i].r = r
        PROVE  /\ t[i].kind # "accepted" => Pos(t[i], m) > g
               /\ \A j \in 1..Len(A) : Pos(A[j], m) < Pos(t[i], m)
               /\ t[i].kind \in Data => \A k \in g + 1..Pos(t[i], m) - 1 : Has(A, r, k) \/ Has(t, r, k)
    <3>1. i + 1 \in 1..Len(F) /\ t[i] = F[i + 1] /\ 1 < i + 1
      BY <1>1
    <3>2. Pos(e, m) < Pos(t[i], m)
      BY <1>3, <2>1, <3>1 DEF Coming
    <3>3. \A j \in 1..Len(A) : Pos(A[j], m) < Pos(t[i], m)
      <4> SUFFICES ASSUME NEW j \in 1..Len(A) PROVE Pos(A[j], m) < Pos(t[i], m)
        OBVIOUS
      <4>1. CASE j \in 1..Len(R)
        BY <1>2, <2>1, <3>1, <4>1 DEF Coming
      <4>2. CASE j = Len(R) + 1
        BY <1>2, <3>2, <4>2
      <4> QED BY <1>2, <4>1, <4>2
    <3>4. t[i].kind \in Data => \A k \in g + 1..Pos(t[i], m) - 1 : Has(R, r, k) \/ Has(F, r, k)
      BY <2>1, <3>1 DEF Coming
    <3>5. t[i].kind # "accepted" => Pos(t[i], m) > g
      BY <2>1, <3>1 DEF Coming
    <3> QED BY <1>4, <1>5, <1>6, <3>3, <3>4, <3>5
  <2>2. ASSUME NEW i \in 1..Len(t), NEW j \in 1..Len(t), i < j, t[i].r = r, t[j].r = r
        PROVE  Pos(t[i], m) < Pos(t[j], m)
    <3>1. i + 1 \in 1..Len(F) /\ t[i] = F[i + 1] /\ j + 1 \in 1..Len(F) /\ t[j] = F[j + 1] /\ i + 1 < j + 1
      BY <1>1, <2>2
    <3> QED BY <2>2, <3>1 DEF Coming
  <2> QED BY <2>1, <2>2 DEF Coming
<1> QED BY <1>8, <1>9 DEF A, t, e

(* The first reply is read: a chunk is the next one, the end comes after    *)
(* the last.                                                               *)
LEMMA NextIsRead ==
  ASSUME NEW R \in Seq(Frames), NEW r \in Requests, NEW g \in Nat, NEW m \in 0..MaxChunks,
         Waiting(R, r, g, m), R # <<>>, R[1].kind \in Data
  PROVE  Pos(R[1], m) = g + 1
<1>1. /\ 1 \in 1..Len(R) /\ Len(R) \in Nat
      /\ \A i \in 1..Len(R) : R[i] \in Frames /\ Pos(R[i], m) \in Nat
  BY TailAt, FrameIs
<1>2. Pos(R[1], m) > g
  BY <1>1 DEF Waiting, Data
<1>3. ASSUME g + 1 < Pos(R[1], m) PROVE FALSE
  <2>1. g + 1 \in g + 1..Pos(R[1], m) - 1
    BY <1>1, <1>3
  <2>2. Has(R, r, g + 1)
    BY <1>1, <2>1 DEF Waiting
  <2>3. PICK j \in 1..Len(R) : R[j] = Frame("chunk", r, g + 1)
    BY <2>2 DEF Has
  <2>4. Pos(R[j], m) = g + 1
    BY <2>3 DEF Frame, Pos
  <2>5. CASE j = 1
    BY <1>1, <1>3, <2>4, <2>5
  <2>6. CASE 1 < j
    <3>1. Pos(R[1], m) < Pos(R[j], m)
      BY <1>1, <2>6 DEF Waiting
    <3> QED BY <1>1, <1>3, <2>4, <3>1
  <2> QED BY <1>1, <2>5, <2>6
<1> QED BY <1>1, <1>2, <1>3

LEMMA RestIsRead ==
  ASSUME NEW R \in Seq(Frames), NEW F \in Seq(Frames), NEW r \in Requests, NEW g \in Nat, NEW m \in 0..MaxChunks,
         Waiting(R, r, g, m), R # <<>>, NEW h \in {g, g + 1},
         R[1].kind = "accepted" => h = g, R[1].kind # "accepted" => h = g + 1 /\ R[1].kind = "chunk"
  PROVE  Waiting(Tail(R), r, h, m) /\ (Coming(R, F, r, g, m) => Coming(Tail(R), F, r, h, m))
<1> DEFINE t == Tail(R)
<1>1. /\ Len(R) \in Nat \ {0} /\ Len(t) = Len(R) - 1 /\ 1 \in 1..Len(R)
      /\ \A i \in 1..Len(R) - 1 : t[i] = R[i + 1]
      /\ \A i \in 1..Len(R) : R[i] \in Frames /\ Pos(R[i], m) \in Nat
  BY TailAt, FrameIs
<1>2. /\ R[1].kind # "accepted" => Pos(R[1], m) = g + 1
      /\ R[1].kind = "accepted" => Pos(R[1], m) = 0
  <2>1. CASE R[1].kind # "accepted"
    <3>1. R[1].kind \in Data
      BY <2>1 DEF Data
    <3> QED BY <2>1, <3>1, NextIsRead
  <2>2. CASE R[1].kind = "accepted"
    BY <2>2 DEF Pos
  <2> QED BY <2>1, <2>2
<1> HIDE DEF t
<1>3. \A i \in 1..Len(t) : i + 1 \in 1..Len(R) /\ t[i] = R[i + 1] /\ Pos(R[1], m) < Pos(t[i], m)
  BY <1>1 DEF Waiting
<1>4. ASSUME NEW k \in Nat, k > h, Has(R, r, k) PROVE Has(t, r, k)
  <2>1. PICK j \in 1..Len(R) : R[j] = Frame("chunk", r, k)
    BY <1>4 DEF Has
  <2>2. j # 1
    <3>1. R[j].kind = "chunk" /\ Pos(R[j], m) = k
      BY <2>1 DEF Frame, Pos
    <3> QED BY <1>2, <1>4, <3>1
  <2>3. j - 1 \in 1..Len(R) - 1
    BY <1>1, <2>2
  <2>4. t[j - 1] = R[(j - 1) + 1]
    BY <1>1, <2>3
  <2>5. j - 1 \in 1..Len(t) /\ t[j - 1] = R[j]
    BY <1>1, <2>3, <2>4
  <2> QED BY <2>1, <2>5 DEF Has
<1>5. ASSUME NEW p \in Nat, NEW k \in h + 1..p - 1 PROVE k \in Nat /\ k > h /\ k \in g + 1..p - 1
  OBVIOUS
<1>6. Waiting(t, r, h, m)
  <2>1. ASSUME NEW i \in 1..Len(t)
        PROVE  /\ t[i].kind # "accepted" => Pos(t[i], m) > h
               /\ t[i].kind \in Data => \A k \in h + 1..Pos(t[i], m) - 1 : Has(t, r, k)
    <3>1. i + 1 \in 1..Len(R) /\ t[i] = R[i + 1] /\ Pos(R[1], m) < Pos(t[i], m) /\ Pos(t[i], m) \in Nat
      BY <1>1, <1>3
    <3>2. t[i].kind # "accepted" => Pos(t[i], m) > h
      BY <1>1, <1>2, <3>1 DEF Waiting
    <3>3. t[i].kind \in Data => \A k \in g + 1..Pos(t[i], m) - 1 : Has(R, r, k)
      BY <3>1 DEF Waiting
    <3> QED BY <1>4, <1>5, <3>1, <3>2, <3>3
  <2>2. ASSUME NEW i \in 1..Len(t), NEW j \in 1..Len(t), i < j
        PROVE  Pos(t[i], m) < Pos(t[j], m)
    <3>1. i + 1 \in 1..Len(R) /\ t[i] = R[i + 1] /\ j + 1 \in 1..Len(R) /\ t[j] = R[j + 1] /\ i + 1 < j + 1
      BY <1>1, <1>3, <2>2
    <3> QED BY <3>1 DEF Waiting
  <2> QED BY <2>1, <2>2 DEF Waiting
<1>7. ASSUME Coming(R, F, r, g, m) PROVE Coming(t, F, r, h, m)
  <2>1. ASSUME NEW i \in 1..Len(F), F[i].r = r
        PROVE  /\ F[i].kind # "accepted" => Pos(F[i], m) > h
               /\ \A j \in 1..Len(t) : Pos(t[j], m) < Pos(F[i], m)
               /\ F[i].kind \in Data => \A k \in h + 1..Pos(F[i], m) - 1 : Has(t, r, k) \/ Has(F, r, k)
    <3>1. Pos(F[i], m) \in Nat /\ Pos(R[1], m) < Pos(F[i], m)
      BY <1>1, <1>7, <2>1, FrameIs DEF Coming
    <3>2. F[i].kind # "accepted" => Pos(F[i], m) > h
      BY <1>1, <1>2, <1>7, <2>1, <3>1 DEF Coming
    <3>3. \A j \in 1..Len(t) : Pos(t[j], m) < Pos(F[i], m)
      BY <1>3, <1>7, <2>1 DEF Coming
    <3>4. F[i].kind \in Data => \A k \in g + 1..Pos(F[i], m) - 1 : Has(R, r, k) \/ Has(F, r, k)
      BY <1>7, <2>1 DEF Coming
    <3> QED BY <1>4, <1>5, <3>1, <3>2, <3>3, <3>4
  <2> QED BY <1>7, <2>1 DEF Coming
<1> QED BY <1>6, <1>7 DEF t
(* Frames join those on the connection.                                    *)
LEMMA FramesJoin ==
  ASSUME NEW R \in Seq(Frames), NEW F \in Seq(Frames), NEW G \in Seq(Frames),
         NEW r \in Requests, NEW g \in Nat, NEW m \in 0..MaxChunks, Coming(R, F, r, g, m),
         \A j \in 1..Len(G) :
           /\ G[j].kind # "accepted" => Pos(G[j], m) > g
           /\ \A i \in 1..Len(R) : Pos(R[i], m) < Pos(G[j], m)
           /\ \A i \in 1..Len(F) : F[i].r = r => Pos(F[i], m) < Pos(G[j], m)
           /\ G[j].kind \in Data => \A k \in g + 1..Pos(G[j], m) - 1 : Has(G, r, k),
         \A i, j \in 1..Len(G) : i < j => Pos(G[i], m) < Pos(G[j], m)
  PROVE  Coming(R, F \o G, r, g, m)
<1> DEFINE u == F \o G
<1>1. /\ Len(u) = Len(F) + Len(G) /\ Len(F) \in Nat /\ Len(G) \in Nat
      /\ \A i \in 1..Len(F) : u[i] = F[i]
      /\ \A i \in Len(F) + 1..Len(F) + Len(G) : u[i] = G[i - Len(F)]
  BY ConcatAt
<1> HIDE DEF u
<1>2. \A i \in 1..Len(u) : \/ i \in 1..Len(F) /\ u[i] = F[i]
                           \/ i > Len(F) /\ i - Len(F) \in 1..Len(G) /\ u[i] = G[i - Len(F)]
  BY <1>1
<1>3. \A k : Has(F, r, k) => Has(u, r, k)
  <2> SUFFICES ASSUME NEW k, Has(F, r, k) PROVE Has(u, r, k)
    OBVIOUS
  <2>1. PICK j \in 1..Len(F) : F[j] = Frame("chunk", r, k)
    BY DEF Has
  <2>2. j \in 1..Len(u) /\ u[j] = F[j]
    BY <1>1
  <2> QED BY <2>1, <2>2 DEF Has
<1>4. \A k : Has(G, r, k) => Has(u, r, k)
  <2> SUFFICES ASSUME NEW k, Has(G, r, k) PROVE Has(u, r, k)
    OBVIOUS
  <2>1. PICK j \in 1..Len(G) : G[j] = Frame("chunk", r, k)
    BY DEF Has
  <2>2. PICK i : i = Len(F) + j
    OBVIOUS
  <2>3. i \in Len(F) + 1..Len(F) + Len(G) /\ i - Len(F) = j /\ i \in 1..Len(u)
    BY <1>1, <2>2
  <2>4. u[i] = G[j]
    BY <1>1, <2>3
  <2> QED BY <2>1, <2>3, <2>4 DEF Has
<1>5. ASSUME NEW i \in 1..Len(u), u[i].r = r
      PROVE  /\ u[i].kind # "accepted" => Pos(u[i], m) > g
             /\ \A j \in 1..Len(R) : Pos(R[j], m) < Pos(u[i], m)
             /\ u[i].kind \in Data => \A k \in g + 1..Pos(u[i], m) - 1 : Has(R, r, k) \/ Has(u, r, k)
  <2>1. CASE i \in 1..Len(F) /\ u[i] = F[i]
    BY <1>3, <1>5, <2>1 DEF Coming
  <2>2. CASE i - Len(F) \in 1..Len(G) /\ u[i] = G[i - Len(F)]
    BY <1>4, <2>2
  <2> QED BY <1>2, <2>1, <2>2
<1>6. ASSUME NEW i \in 1..Len(u), NEW j \in 1..Len(u), i < j, u[i].r = r, u[j].r = r
      PROVE  Pos(u[i], m) < Pos(u[j], m)
  <2>1. CASE j \in 1..Len(F)
    <3>1. i \in 1..Len(F) /\ u[i] = F[i] /\ u[j] = F[j]
      BY <1>1, <1>6, <2>1
    <3> QED BY <1>6, <2>1, <3>1 DEF Coming
  <2>2. CASE j > Len(F) /\ j - Len(F) \in 1..Len(G) /\ u[j] = G[j - Len(F)]
    <3>1. CASE i \in 1..Len(F) /\ u[i] = F[i]
      BY <1>6, <2>2, <3>1
    <3>2. CASE i - Len(F) \in 1..Len(G) /\ u[i] = G[i - Len(F)]
      <4>1. i - Len(F) < j - Len(F)
        BY <1>1, <1>6
      <4> QED BY <2>2, <3>2, <4>1
    <3> QED BY <1>2, <3>1, <3>2
  <2> QED BY <1>2, <2>1, <2>2
<1>7. Coming(R, u, r, g, m)
  BY <1>5, <1>6 DEF Coming
<1> QED BY <1>7 DEF u

(* Before anything of r was read, and after its tool was only accepted.    *)
OnlyAccepted(s, r) == \A i \in 1..Len(s) : s[i].r = r => s[i].kind = "accepted"

LEMMA AcceptedIsFirst ==
  ASSUME NEW R \in Seq(Frames), NEW F \in Seq(Frames), NEW r \in Requests,
         NEW m \in 0..MaxChunks, NEW n \in 0..MaxChunks,
         \A i \in 1..Len(R) : R[i].r = r, OnlyAccepted(R, r), OnlyAccepted(F, r)
  PROVE  /\ Waiting(R, r, 0, m) => Waiting(R, r, 0, n)
         /\ Coming(R, F, r, 0, m) => Coming(R, F, r, 0, n)
         /\ \A i \in 1..Len(R) : Pos(R[i], n) = 0
         /\ \A i \in 1..Len(F) : F[i].r = r => Pos(F[i], n) = 0
<1>1. \A i \in 1..Len(R) : R[i].kind = "accepted" /\ Pos(R[i], n) = 0 /\ Pos(R[i], m) = 0
  BY DEF OnlyAccepted, Pos
<1>2. \A i \in 1..Len(F) : F[i].r = r => F[i].kind = "accepted" /\ Pos(F[i], n) = 0 /\ Pos(F[i], m) = 0
  BY DEF OnlyAccepted, Pos
<1>3. "accepted" \notin Data
  BY DEF Data
<1>4. Waiting(R, r, 0, m) => Waiting(R, r, 0, n)
  BY <1>1, <1>3 DEF Waiting
<1>5. Coming(R, F, r, 0, m) => Coming(R, F, r, 0, n)
  BY <1>1, <1>2, <1>3 DEF Coming
<1> QED BY <1>1, <1>2, <1>4, <1>5

(* All chunks and their end, or an error, are sent.                        *)
LEMMA AllIsSent ==
  ASSUME NEW R \in Seq(Frames), NEW F \in Seq(Frames), NEW G \in Seq(Frames),
         NEW r \in Requests, NEW m \in 0..MaxChunks, NEW n \in 0..MaxChunks,
         Coming(R, F, r, 0, m),
         \A i \in 1..Len(R) : R[i].r = r, OnlyAccepted(R, r), OnlyAccepted(F, r),
         \/ G = Append(Chunks(r, n), Frame("end", r, 0))
         \/ G = <<Frame("error", r, 0)>>
  PROVE  Coming(R, F \o G, r, 0, n)
<1>1. /\ Coming(R, F, r, 0, n)
      /\ \A i \in 1..Len(R) : Pos(R[i], n) = 0
      /\ \A i \in 1..Len(F) : F[i].r = r => Pos(F[i], n) = 0
  BY AcceptedIsFirst
<1>2. MaxChunks \in Nat /\ n \in Nat
  BY InvocationAssumption
<1>3. CASE G = <<Frame("error", r, 0)>>
  <2>1. Len(G) = 1 /\ G[1] = Frame("error", r, 0)
    BY <1>3
  <2>2. G[1].kind = "error" /\ Pos(G[1], n) = MaxChunks + 2 /\ "error" \notin Data
    BY <2>1 DEF Frame, Pos, Data
  <2>3. \A j \in 1..Len(G) : j = 1
    BY <2>1
  <2>4. \A j \in 1..Len(G) :
          /\ G[j].kind # "accepted" => Pos(G[j], n) > 0
          /\ \A i \in 1..Len(R) : Pos(R[i], n) < Pos(G[j], n)
          /\ \A i \in 1..Len(F) : F[i].r = r => Pos(F[i], n) < Pos(G[j], n)
          /\ G[j].kind \in Data => \A k \in 0 + 1..Pos(G[j], n) - 1 : Has(G, r, k)
    BY <1>1, <1>2, <2>2, <2>3
  <2>5. \A i, j \in 1..Len(G) : i < j => Pos(G[i], n) < Pos(G[j], n)
    BY <2>3
  <2> QED BY <1>1, <2>4, <2>5, FramesJoin
<1>4. CASE G = Append(Chunks(r, n), Frame("end", r, 0))
  <2>1. \A i \in 1..n : Frame("chunk", r, i) \in Frames
    BY <1>2 DEF Frame, Frames
  <2>2. Chunks(r, n) \in Seq(Frames) /\ Len(Chunks(r, n)) = n /\ Frame("end", r, 0) \in Frames
        /\ \A i \in 1..n : Chunks(r, n)[i] = Frame("chunk", r, i)
    BY <1>2, <2>1 DEF Chunks, Frame, Frames
  <2>3. /\ Len(G) = n + 1 /\ G[n + 1] = Frame("end", r, 0)
        /\ \A i \in 1..n : G[i] = Frame("chunk", r, i)
    BY <1>4, <2>2, AppendAt
  <2>4. \A j \in 1..Len(G) : Pos(G[j], n) = j /\ G[j].kind # "accepted"
    <3> SUFFICES ASSUME NEW j \in 1..Len(G) PROVE Pos(G[j], n) = j /\ G[j].kind # "accepted"
      OBVIOUS
    <3>1. CASE j \in 1..n
      <4>1. G[j] = Frame("chunk", r, j)
        BY <2>3, <3>1
      <4>2. G[j].kind = "chunk" /\ G[j].n = j
        BY <4>1 DEF Frame
      <4> QED BY <4>2 DEF Pos
    <3>2. CASE j = n + 1
      BY <2>3, <3>2 DEF Frame, Pos
    <3> QED BY <1>2, <2>3, <3>1, <3>2
  <2>5. \A j \in 1..Len(G) : \A k \in 1..j - 1 : Has(G, r, k)
    <3> SUFFICES ASSUME NEW j \in 1..Len(G), NEW k \in 1..j - 1 PROVE Has(G, r, k)
      OBVIOUS
    <3>1. k \in 1..n /\ k \in 1..Len(G)
      BY <1>2, <2>3
    <3> QED BY <2>3, <3>1 DEF Has
  <2>6. \A j \in 1..Len(G) :
          /\ G[j].kind # "accepted" => Pos(G[j], n) > 0
          /\ \A i \in 1..Len(R) : Pos(R[i], n) < Pos(G[j], n)
          /\ \A i \in 1..Len(F) : F[i].r = r => Pos(F[i], n) < Pos(G[j], n)
          /\ G[j].kind \in Data => \A k \in 0 + 1..Pos(G[j], n) - 1 : Has(G, r, k)
    BY <1>1, <2>4, <2>5
  <2>7. \A i, j \in 1..Len(G) : i < j => Pos(G[i], n) < Pos(G[j], n)
    BY <2>4
  <2> QED BY <1>1, <2>6, <2>7, FramesJoin
<1> QED BY <1>3, <1>4

(* The first frame of a request.                                           *)
LEMMA FirstIsSent ==
  ASSUME NEW R \in Seq(Frames), NEW F \in Seq(Frames), NEW r \in Requests, NEW m \in 0..MaxChunks,
         1..Len(R) = {}, \A i \in 1..Len(F) : F[i].r # r
  PROVE  /\ Waiting(R, r, 0, m) /\ Coming(R, F, r, 0, m)
         /\ \A kind \in {"accepted", "error"} :
              <<Frame(kind, r, 0)>> \in Seq(Frames) => Coming(R, F \o <<Frame(kind, r, 0)>>, r, 0, m)
<1>1. Waiting(R, r, 0, m) /\ Coming(R, F, r, 0, m)
  BY DEF Waiting, Coming
<1>2. ASSUME NEW kind \in {"accepted", "error"}, NEW G \in Seq(Frames), G = <<Frame(kind, r, 0)>>
      PROVE  Coming(R, F \o G, r, 0, m)
  <2>1. Len(G) = 1 /\ G[1].kind = kind
    BY <1>2 DEF Frame
  <2>2. (kind # "accepted" => Pos(G[1], m) > 0) /\ kind \notin Data
    BY <1>2, InvocationAssumption DEF Frame, Pos, Data
  <2>3. \A j \in 1..Len(G) : j = 1
    BY <2>1
  <2>4. \A j \in 1..Len(G) :
          /\ G[j].kind # "accepted" => Pos(G[j], m) > 0
          /\ \A i \in 1..Len(R) : Pos(R[i], m) < Pos(G[j], m)
          /\ \A i \in 1..Len(F) : F[i].r = r => Pos(F[i], m) < Pos(G[j], m)
          /\ G[j].kind \in Data => \A k \in 0 + 1..Pos(G[j], m) - 1 : Has(G, r, k)
    BY <2>1, <2>2, <2>3
  <2>5. \A i, j \in 1..Len(G) : i < j => Pos(G[i], m) < Pos(G[j], m)
    BY <2>3
  <2> QED BY <1>1, <2>4, <2>5, FramesJoin
<1> QED BY <1>1, <1>2
-----------------------------------------------------------------------------
(* A stream arrives whole.                                                 *)
Got(r) == Len(driver[r].got)
Route(r) == fromClient[run[r].conn]

(* Frames of r are sent once its tool runs, on the connection of the run,   *)
(* and kept while their reader listens; before the tool has ended they only *)
(* say that it was accepted, and nothing is read of it.                    *)
Sent(r) ==
  /\ \A c \in Conns : \A i \in 1..Len(fromClient[c]) : fromClient[c][i].r = r =>
       /\ Begun(r) /\ run[r].conn = c
       /\ run[r].st = "running" => fromClient[c][i].kind = "accepted"
  /\ Len(reply[r]) # 0 => Streaming(r) /\ Begun(r)
  /\ \A i \in 1..Len(reply[r]) :
       reply[r][i].r = r /\ (run[r].st = "running" => reply[r][i].kind = "accepted")
  /\ run[r].st # "done" => Got(r) = 0 /\ driver[r].st # "closed"

WholeFor(r) ==
  r \notin lost =>
    /\ \A i \in 1..Got(r) : driver[r].got[i] = i
    /\ driver[r].st = "closed" => run[r].st = "done" /\ Got(r) = run[r].made
    /\ Streaming(r) =>
         /\ Waiting(reply[r], r, Got(r), run[r].made)
         /\ Begun(r) /\ run[r].conn \in active => Coming(reply[r], Route(r), r, Got(r), run[r].made)

Flows(r) == Sent(r) /\ WholeFor(r)
FlowInv == TokenInv /\ \A r \in Requests : Flows(r)

LEMMA FlowTypes ==
  ASSUME LinkInv
  PROVE  /\ fromClient \in [Conns -> Seq(Frames)] /\ reply \in [Requests -> Seq(Frames)]
         /\ run \in [Requests -> RunRecord] /\ driver \in [Requests -> DriverRecord]
         /\ \A r \in Requests :
              /\ reply[r] \in Seq(Frames) /\ run[r].made \in 0..MaxChunks
              /\ driver[r].got \in Seq(1..MaxChunks) /\ Got(r) \in Nat
              /\ Begun(r) => run[r].conn \in Conns /\ Route(r) \in Seq(Frames)
         /\ lost \subseteq Requests /\ active \subseteq Conns
<1>1. /\ fromClient \in [Conns -> Seq(Frames)] /\ reply \in [Requests -> Seq(Frames)]
      /\ run \in [Requests -> RunRecord] /\ driver \in [Requests -> DriverRecord]
      /\ lost \subseteq Requests /\ active \subseteq Conns
  BY DEF LinkInv, TypeOK
<1>2. \A r \in Requests : Begun(r) => run[r].conn \in Conns
  BY DEF LinkInv, Links, Begun
<1>3. \A r \in Requests : run[r].made \in 0..MaxChunks /\ driver[r].got \in Seq(1..MaxChunks)
  BY <1>1 DEF RunRecord, DriverRecord
<1>4. \A r \in Requests : Got(r) \in Nat
  <2>1. \A s \in Seq(1..MaxChunks) : Len(s) \in Nat
    OBVIOUS
  <2> QED BY <1>3, <2>1 DEF Got
<1> QED BY <1>1, <1>2, <1>3, <1>4 DEF Route

(* A step of other requests, or one that loses frames of r at the end of   *)
(* its connection, with its session or with its reader.                    *)
LEMMA FlowsIf ==
  ASSUME LinkInv, NEW r \in Requests, Flows(r),
         run'[r] = run[r], driver'[r].got = driver[r].got,
         driver'[r].st = "closed" => driver[r].st = "closed",
         \/ reply'[r] = reply[r] /\ (Streaming(r)' <=> Streaming(r))
         \/ Len(reply'[r]) = 0 /\ ~Streaming(r)',
         r \in lost => r \in lost',
         \A c \in Conns : \A i \in 1..Len(fromClient'[c]) : fromClient'[c][i].r = r =>
           \E j \in 1..Len(fromClient[c]) : fromClient'[c][i] = fromClient[c][j],
         \/ r \in lost' \/ ~Streaming(r)'
         \/ Begun(r) /\ run[r].conn \in active' =>
              run[r].conn \in active /\ Follows(fromClient'[run[r].conn], Route(r), r)
  PROVE  Flows(r)'
<1>1. Sent(r) /\ WholeFor(r)
  BY DEF Flows
<1>2. (Begun(r)' <=> Begun(r)) /\ Got(r)' = Got(r)
  BY DEF Begun, Got
<1>3. Sent(r)'
  <2>1. ASSUME NEW c \in Conns, NEW i \in 1..Len(fromClient'[c]), fromClient'[c][i].r = r
        PROVE  /\ Begun(r) /\ run[r].conn = c
               /\ run[r].st = "running" => fromClient'[c][i].kind = "accepted"
    <3>1. PICK j \in 1..Len(fromClient[c]) : fromClient'[c][i] = fromClient[c][j]
      BY <2>1
    <3> QED BY <1>1, <2>1, <3>1 DEF Sent
  <2>2. /\ Len(reply'[r]) # 0 => Streaming(r)' /\ Begun(r)
        /\ \A i \in 1..Len(reply'[r]) :
             reply'[r][i].r = r /\ (run[r].st = "running" => reply'[r][i].kind = "accepted")
    BY <1>1 DEF Sent
  <2>3. run[r].st # "done" => Got(r) = 0 /\ driver'[r].st # "closed"
    BY <1>1 DEF Sent
  <2> QED BY <1>2, <2>1, <2>2, <2>3 DEF Sent
<1>4. WholeFor(r)'
  <2> SUFFICES ASSUME r \notin lost' PROVE WholeFor(r)'
    BY DEF WholeFor
  <2>1. r \notin lost
    OBVIOUS
  <2>2. /\ \A i \in 1..Got(r) : driver'[r].got[i] = i
        /\ driver'[r].st = "closed" => run[r].st = "done" /\ Got(r) = run[r].made
    BY <1>1, <2>1 DEF WholeFor
  <2>3. ASSUME Streaming(r)'
        PROVE  /\ Waiting(reply'[r], r, Got(r), run[r].made)
               /\ Begun(r) /\ run[r].conn \in active' =>
                    Coming(reply'[r], fromClient'[run[r].conn], r, Got(r), run[r].made)
    <3>1. reply'[r] = reply[r] /\ Streaming(r)
      BY <2>3
    <3>2. Waiting(reply[r], r, Got(r), run[r].made)
      BY <1>1, <2>1, <3>1 DEF WholeFor
    <3>3. ASSUME Begun(r), run[r].conn \in active'
          PROVE  Coming(reply[r], fromClient'[run[r].conn], r, Got(r), run[r].made)
      <4>1. run[r].conn \in active /\ Follows(fromClient'[run[r].conn], Route(r), r)
        BY <2>3, <3>3
      <4>2. Coming(reply[r], Route(r), r, Got(r), run[r].made)
        BY <1>1, <2>1, <3>1, <3>3, <4>1 DEF WholeFor
      <4> QED BY <3>3, <4>1, <4>2, FlowTypes, ComingFollows
    <3> QED BY <3>1, <3>2, <3>3
  <2> QED BY <1>2, <2>2, <2>3 DEF WholeFor, Route
<1> QED BY <1>3, <1>4 DEF Flows

(* A step that leaves all frames to follow.                                *)
LEMMA QuietFlows ==
  ASSUME LinkInv, NEW r \in Requests, Flows(r), UNCHANGED <<run, reply, driver, lost>>,
         \A c \in Conns : fromClient'[c] \in Seq(Frames) /\ Len(fromClient'[c]) <= Len(fromClient[c])
                            /\ \A i \in 1..Len(fromClient'[c]) : fromClient'[c][i] = fromClient[c][i],
         \A c \in active' : c \in active \/ ~Pumped(c)
  PROVE  Flows(r)'
<1>1. Begun(r) => /\ run[r].conn \in Conns /\ Pumped(run[r].conn) /\ Route(r) \in Seq(Frames)
                  /\ Follows(fromClient'[run[r].conn], Route(r), r)
  <2>1. Begun(r) => run[r].conn \in Conns /\ Pumped(run[r].conn) /\ Route(r) \in Seq(Frames)
    BY FlowTypes DEF LinkInv, Links, Begun
  <2> QED BY <2>1, FollowsAt DEF Route
<1>2. \A c \in Conns : \A i \in 1..Len(fromClient'[c]) :
        i \in 1..Len(fromClient[c]) /\ fromClient'[c][i] = fromClient[c][i]
  <2>1. \A c \in Conns : Len(fromClient[c]) \in Nat
    BY FlowTypes
  <2> QED BY <2>1
<1>3. Streaming(r)' <=> Streaming(r)
  BY DEF Streaming
<1> QED BY <1>1, <1>2, <1>3, FlowsIf

LEMMA ClientKeepsFlows ==
  ASSUME TokenInv, NEW r \in Requests, Flows(r),
         Connect \/ Quit \/ \E c \in Conns : BoundArrives(c) \/ SocketCloses(c)
  PROVE  Flows(r)'
<1>1. LinkInv /\ fromClient \in [Conns -> Seq(Frames)] /\ \A c \in Conns : Len(fromClient[c]) \in Nat
  BY FlowTypes DEF TokenInv
<1>2. UNCHANGED <<active, run, reply, driver, lost>>
  BY DEF Connect, Quit, BoundArrives, SocketCloses, gateway
<1>3. \/ fromClient' = fromClient
      \/ \E c \in Conns : ClientCloses(c)
  BY <1>1 DEF Connect, Quit, BoundArrives, SocketCloses, LinkInv, Links
<1>4. \A c \in Conns : fromClient'[c] \in Seq(Frames) /\ Len(fromClient'[c]) <= Len(fromClient[c])
                          /\ \A i \in 1..Len(fromClient'[c]) : fromClient'[c][i] = fromClient[c][i]
  <2>1. CASE fromClient' = fromClient
    BY <1>1, <2>1
  <2>2. ASSUME NEW d \in Conns, ClientCloses(d)
        PROVE  \A c \in Conns : fromClient'[c] \in Seq(Frames) /\ Len(fromClient'[c]) <= Len(fromClient[c])
                                  /\ \A i \in 1..Len(fromClient'[c]) : fromClient'[c][i] = fromClient[c][i]
    BY <1>1, <2>2, ClosesByClient
  <2> QED BY <1>3, <2>1, <2>2
<1> QED BY <1>1, <1>2, <1>4, QuietFlows

LEMMA GatewayKeepsFlows ==
  ASSUME TokenInv, NEW r \in Requests, Flows(r),
         NEW c \in Conns, Bind(c) \/ GatewayCloses(c) \/ SessionEnds(c) \/ Pump(c)
  PROVE  Flows(r)'
<1>1. LinkInv /\ fromClient \in [Conns -> Seq(Frames)] /\ \A d \in Conns : Len(fromClient[d]) \in Nat
  BY FlowTypes DEF TokenInv
<1>2. UNCHANGED <<run, reply, driver, lost>>
  BY DEF Bind, GatewayCloses, SessionEnds, Pump
<1>3. \A d \in active' : d \in active \/ ~Pumped(d)
  BY DEF Bind, GatewayCloses, SessionEnds, Pump, Pumped
<1>4. <<>> \in Seq(Frames) /\ Len(<<>>) = 0
  BY EmptySeq
<1>5. \A d \in Conns : fromClient'[d] \in Seq(Frames) /\ Len(fromClient'[d]) <= Len(fromClient[d])
                          /\ \A i \in 1..Len(fromClient'[d]) : fromClient'[d][i] = fromClient[d][i]
  <2>1. CASE fromClient' = fromClient
    BY <1>1, <2>1
  <2>2. CASE fromClient' = [fromClient EXCEPT ![c] = <<>>]
    BY <1>1, <1>4, <2>2
  <2> QED BY <2>1, <2>2 DEF Bind, GatewayCloses, SessionEnds, Pump
<1> QED BY <1>1, <1>2, <1>3, <1>5, QuietFlows

(* The frames of other requests join or leave.                             *)
LEMMA OthersFollow ==
  ASSUME LinkInv, NEW r \in Requests,
         \/ fromClient' = fromClient
         \/ \E c \in Conns, G \in Seq(Frames) :
              /\ SendToGateway(c, G) /\ \A i \in 1..Len(G) : G[i].r # r
         \/ \E c \in Conns :
              /\ fromClient[c] # <<>> /\ fromClient[c][1].r # r
              /\ fromClient' = [fromClient EXCEPT ![c] = Tail(@)]
  PROVE  \A d \in Conns :
           /\ Follows(fromClient'[d], fromClient[d], r)
           /\ \A i \in 1..Len(fromClient'[d]) : fromClient'[d][i].r = r =>
                \E j \in 1..Len(fromClient[d]) : fromClient'[d][i] = fromClient[d][j]
<1>1. fromClient \in [Conns -> Seq(Frames)] /\ \A d \in Conns : Len(fromClient[d]) \in Nat
  BY FlowTypes
<1>2. ASSUME NEW d \in Conns PROVE Follows(fromClient[d], fromClient[d], r)
  <2>1. fromClient[d] \in Seq(Frames) /\ Len(fromClient[d]) <= Len(fromClient[d])
    BY <1>1
  <2> QED BY <2>1, FollowsAt
<1>3. \A d \in Conns : Follows(fromClient'[d], fromClient[d], r)
  <2>1. ASSUME NEW c \in Conns, NEW G \in Seq(Frames), SendToGateway(c, G),
               \A i \in 1..Len(G) : G[i].r # r, NEW d \in Conns
        PROVE  Follows(fromClient'[d], fromClient[d], r)
    <3>1. Follows(fromClient[c] \o G, fromClient[c], r)
      BY <1>1, <2>1, FollowsAt
    <3>2. fromClient'[d] = fromClient[d] \/ (d = c /\ fromClient'[d] = fromClient[d] \o G)
      BY <2>1, SendsToGateway
    <3> QED BY <1>2, <3>1, <3>2
  <2>2. ASSUME NEW c \in Conns, fromClient[c] # <<>>, fromClient[c][1].r # r,
               fromClient' = [fromClient EXCEPT ![c] = Tail(@)], NEW d \in Conns
        PROVE  Follows(fromClient'[d], fromClient[d], r)
    <3>1. Follows(Tail(fromClient[c]), fromClient[c], r)
      BY <1>1, <2>2, FollowsAt
    <3> QED BY <1>1, <1>2, <2>2, <3>1
  <2> QED BY <1>2, <2>1, <2>2
<1> QED BY <1>3 DEF Follows

LEMMA RepliesOfOthers ==
  ASSUME LinkInv, NEW r \in Requests, Flows(r), NEW q \in Requests, q # r,
         Publish(q) \/ Read(q) \/ ReadFails(q) \/ Invoke(q)
  PROVE  Flows(r)'
<1>1. UNCHANGED <<run, fromClient, active, lost>>
  BY DEF Publish, Read, ReadFails, Invoke, gateway
<1>2. reply'[r] = reply[r] /\ driver'[r] = driver[r]
  BY FlowTypes DEF Publish, Read, ReadFails, Invoke, Fails
<1>3. \A d \in Conns :
        /\ Follows(fromClient'[d], fromClient[d], r)
        /\ \A i \in 1..Len(fromClient'[d]) : fromClient'[d][i].r = r =>
             \E j \in 1..Len(fromClient[d]) : fromClient'[d][i] = fromClient[d][j]
  BY <1>1, OthersFollow
<1> QED BY <1>1, <1>2, <1>3, FlowsIf, FlowTypes DEF Streaming, Route

(* A driver that gives up or has not begun.                                *)
LEMMA DriverFails ==
  ASSUME LinkInv, NEW r \in Requests, Flows(r),
         UNCHANGED <<run, fromClient, active, lost>>,
         driver'[r].got = driver[r].got, driver'[r].st \in {"failed", "found"},
         \/ reply'[r] = reply[r] /\ ~Streaming(r)
         \/ Len(reply'[r]) = 0
  PROVE  Flows(r)'
<1>1. ~Streaming(r)' /\ driver'[r].st # "closed"
  BY DEF Streaming
<1> QED BY <1>1, FlowsIf

LEMMA ServerKeepsFlows ==
  ASSUME TokenInv, NEW r \in Requests, Flows(r), Invoke(r) \/ Publish(r) \/ ReadFails(r)
  PROVE  Flows(r)'
<1>1. LinkInv /\ Sent(r) /\ WholeFor(r) /\ Tokens(r) /\ driver \in [Requests -> DriverRecord]
  BY FlowTypes DEF TokenInv, Flows
<1>2. UNCHANGED <<run, fromClient, active, lost>>
  BY DEF Publish, ReadFails, Invoke, gateway
<1>3. Len(<<>>) = 0
  BY EmptySeq
<1>4. CASE Invoke(r) \/ (Publish(r) /\ Fails(r)) \/ ReadFails(r)
  <2>1. driver'[r].got = driver[r].got /\ driver'[r].st \in {"failed", "found"}
    <3>1. driver[r] \in DriverRecord
      BY <1>1
    <3>2. \/ driver' = [driver EXCEPT ![r].st = "failed"]
          \/ \E d : driver' = [driver EXCEPT ![r] = [@ EXCEPT !.st = "found", !.conn = d]]
      BY <1>4 DEF Invoke, ReadFails, Fails
    <3>3. CASE driver' = [driver EXCEPT ![r].st = "failed"]
      BY <1>1, <3>1, <3>3 DEF DriverRecord
    <3>4. ASSUME NEW d, driver' = [driver EXCEPT ![r] = [@ EXCEPT !.st = "found", !.conn = d]]
          PROVE  driver'[r].got = driver[r].got /\ driver'[r].st \in {"failed", "found"}
      <4>1. driver'[r] = [driver[r] EXCEPT !.st = "found", !.conn = d]
        BY <1>1, <3>4
      <4> QED BY <3>1, <4>1 DEF DriverRecord
    <3> QED BY <3>2, <3>3, <3>4
  <2>2. \/ reply'[r] = reply[r] /\ ~Streaming(r)
        \/ Len(reply'[r]) = 0
    BY <1>1, <1>3, <1>4, FlowTypes DEF Invoke, Publish, ReadFails, Streaming
  <2> QED BY <1>1, <1>2, <2>1, <2>2, DriverFails
<1>5. CASE Publish(r) /\ driver' = [driver EXCEPT ![r].st = "reading"]
  <2>1. driver[r].st = "found" /\ reply' = reply
    BY <1>5 DEF Publish
  <2>2. driver'[r].st = "reading" /\ driver'[r].got = driver[r].got
    BY <1>1, <1>5 DEF DriverRecord
  <2>3. ~Begun(r) /\ run[r].st # "done" /\ Len(reply[r]) = 0 /\ Got(r) = 0
    BY <1>1, <2>1 DEF Tokens, Published, Sent, Streaming, Begun
  <2>4. ~Begun(r)' /\ Got(r)' = 0 /\ Streaming(r)' /\ run'[r] = run[r] /\ Len(reply'[r]) = 0
    BY <1>2, <2>1, <2>2, <2>3 DEF Begun, Got, Streaming
  <2>5. Sent(r)'
    BY <1>1, <1>2, <2>1, <2>2, <2>3, <2>4 DEF Sent
  <2>6. Waiting(reply'[r], r, 0, run[r].made)
    BY <2>4 DEF Waiting
  <2>7. WholeFor(r)'
    BY <2>2, <2>4, <2>6 DEF WholeFor
  <2> QED BY <2>5, <2>7 DEF Flows
<1> QED BY <1>4, <1>5 DEF Publish
LEMMA ReadKeepsFlows ==
  ASSUME TokenInv, NEW r \in Requests, Flows(r), Read(r)
  PROVE  Flows(r)'
<1> DEFINE R == reply[r]
           e == R[1]
           g == Got(r)
           m == run[r].made
<1>1. /\ LinkInv /\ Sent(r) /\ WholeFor(r) /\ R \in Seq(Frames) /\ g \in Nat /\ m \in 0..MaxChunks
      /\ run[r] \in RunRecord /\ driver[r].got \in Seq(1..MaxChunks)
      /\ Begun(r) => Route(r) \in Seq(Frames)
  BY FlowTypes DEF TokenInv, Flows
<1>2. UNCHANGED <<run, fromClient, active, lost>>
  BY DEF Read, gateway
<1>3. /\ driver[r].st = "reading" /\ e \in Frames /\ R # <<>>
      /\ driver'[r].got = IF e.kind = "chunk" THEN Append(driver[r].got, e.n) ELSE driver[r].got
      /\ \/ /\ e.kind \in {"accepted", "chunk"}
            /\ driver'[r].st = "reading" /\ reply'[r] = Tail(R)
         \/ /\ e.kind = "end" /\ driver'[r].st = "closed" /\ reply'[r] = <<>>
         \/ /\ e.kind = "error" /\ driver'[r].st = "failed" /\ reply'[r] = <<>>
  BY <1>1, Reads
<1>4. /\ Len(R) \in Nat \ {0} /\ Len(Tail(R)) = Len(R) - 1 /\ 1 \in 1..Len(R)
      /\ \A i \in 1..Len(R) - 1 : Tail(R)[i] = R[i + 1]
  BY <1>1, <1>3, TailAt
<1>5. Streaming(r) /\ Begun(r) /\ e.r = r /\ (run[r].st = "running" => e.kind = "accepted")
  BY <1>1, <1>3, <1>4 DEF Sent, Streaming
<1>6. run[r].st # "done" => run[r].st = "running" /\ e.kind = "accepted"
  BY <1>1, <1>5 DEF Begun, RunRecord
<1>7. Len(<<>>) = 0
  BY EmptySeq
<1>8. Begun(r)' /\ run'[r] = run[r]
  BY <1>2, <1>5 DEF Begun
<1> HIDE DEF e
<1>9. Sent(r)'
  <2>1. \A c \in Conns : \A i \in 1..Len(fromClient'[c]) : fromClient'[c][i].r = r =>
          /\ Begun(r)' /\ run'[r].conn = c
          /\ run'[r].st = "running" => fromClient'[c][i].kind = "accepted"
    BY <1>1, <1>2, <1>8 DEF Sent
  <2>2. Len(reply'[r]) # 0 => Streaming(r)'
    BY <1>3, <1>7 DEF Streaming
  <2>3. ASSUME NEW i \in 1..Len(reply'[r])
        PROVE  reply'[r][i].r = r /\ (run'[r].st = "running" => reply'[r][i].kind = "accepted")
    <3>1. reply'[r] = Tail(R)
      BY <1>3, <1>7
    <3>2. i \in 1..Len(R) - 1 /\ i + 1 \in 1..Len(R) /\ reply'[r][i] = R[i + 1]
      BY <1>4, <3>1
    <3> QED BY <1>1, <1>8, <3>2 DEF Sent
  <2>5. run'[r].st # "done" => Got(r)' = 0 /\ driver'[r].st # "closed"
    BY <1>1, <1>3, <1>6, <1>8 DEF Sent, Got
  <2> QED BY <1>8, <2>1, <2>2, <2>3, <2>5 DEF Sent
<1>10. WholeFor(r)'
  <2> SUFFICES ASSUME r \notin lost PROVE WholeFor(r)'
    BY <1>2 DEF WholeFor
  <2>1. /\ \A i \in 1..g : driver[r].got[i] = i
        /\ Waiting(R, r, g, m)
        /\ run[r].conn \in active => Coming(R, Route(r), r, g, m)
    BY <1>1, <1>5 DEF WholeFor
  <2>2. Route(r)' = Route(r) /\ Route(r) \in Seq(Frames)
    BY <1>1, <1>2, <1>5 DEF Route
  <2> DEFINE F == Route(r)
  <2>3. CASE e.kind \in {"accepted", "chunk"}
    <3>1. PICK h : h = IF e.kind = "chunk" THEN g + 1 ELSE g
      OBVIOUS
    <3>2. h \in {g, g + 1} /\ (e.kind = "accepted" => h = g) /\ (e.kind # "accepted" => h = g + 1 /\ e.kind = "chunk")
      BY <2>3, <3>1
    <3>3. Waiting(Tail(R), r, h, m) /\ (Coming(R, F, r, g, m) => Coming(Tail(R), F, r, h, m))
      <4> HIDE DEF R, g, m, F
      <4> QED BY <1>1, <1>3, <2>1, <2>2, <3>2, RestIsRead DEF e, F
    <3>4. e.kind = "chunk" => e.n = g + 1
      <4>1. ASSUME e.kind = "chunk" PROVE Pos(e, m) = g + 1
        BY <1>1, <1>3, <2>1, <4>1, NextIsRead DEF e, Data
      <4> QED BY <4>1 DEF Pos
    <3>5. Got(r)' = h /\ \A i \in 1..h : driver'[r].got[i] = i
      <4>1. CASE e.kind = "chunk"
        <5>1. e.n \in 1..MaxChunks
          BY <1>1, <1>3, <4>1, FrameIs
        <5>2. /\ Len(Append(driver[r].got, e.n)) = g + 1 /\ Append(driver[r].got, e.n)[g + 1] = e.n
              /\ \A i \in 1..g : Append(driver[r].got, e.n)[i] = driver[r].got[i]
          BY <1>1, <5>1, AppendAt DEF Got
        <5>3. driver'[r].got = Append(driver[r].got, e.n) /\ h = g + 1
          BY <1>3, <3>1, <4>1
        <5>4. \A i \in 1..g + 1 : driver'[r].got[i] = i
          BY <1>1, <2>1, <3>4, <4>1, <5>2, <5>3
        <5> QED BY <5>2, <5>3, <5>4 DEF Got
      <4>2. CASE e.kind # "chunk"
        BY <1>3, <2>1, <3>1, <4>2 DEF Got
      <4> QED BY <4>1, <4>2
    <3>6. driver'[r].st = "reading" /\ reply'[r] = Tail(R)
      BY <1>3, <2>3
    <3>7. run'[r].conn \in active' => Coming(reply'[r], Route(r)', r, h, m)
      BY <1>2, <1>8, <2>1, <2>2, <3>3, <3>6
    <3>8. Waiting(reply'[r], r, h, m)
      BY <3>3, <3>6
    <3> HIDE DEF R, g, m, F
    <3> QED BY <1>8, <3>5, <3>6, <3>7, <3>8 DEF WholeFor, m
  <2>4. CASE e.kind = "end"
    <3>1. Pos(e, m) = g + 1
      BY <1>1, <1>3, <2>1, <2>4, NextIsRead DEF e, Data
    <3>2. Pos(e, m) = m + 1
      BY <2>4 DEF Pos
    <3>3. g = m
      BY <1>1, <3>1, <3>2
    <3>4. driver'[r].st = "closed" /\ driver'[r].got = driver[r].got /\ run[r].st = "done"
      BY <1>3, <1>6, <2>4
    <3>5. Got(r)' = g
      BY <3>4 DEF Got
    <3> QED BY <1>8, <2>1, <3>3, <3>4, <3>5 DEF WholeFor, Streaming
  <2>5. CASE e.kind = "error"
    <3>1. driver'[r].st = "failed" /\ driver'[r].got = driver[r].got
      BY <1>3, <2>5
    <3>2. Got(r)' = g
      BY <3>1 DEF Got
    <3> QED BY <2>1, <3>1, <3>2 DEF WholeFor, Streaming
  <2> QED BY <1>3, <2>3, <2>4, <2>5
<1> QED BY <1>9, <1>10 DEF Flows
LEMMA ArrivalKeepsFlows ==
  ASSUME TokenInv, NEW r \in Requests, Flows(r), NEW c \in Conns, RequestArrives(c)
  PROVE  Flows(r)'
<1>1. /\ LinkInv /\ Sent(r) /\ WholeFor(r) /\ Tokens(r) /\ run \in [Requests -> RunRecord]
      /\ fromClient \in [Conns -> Seq(Frames)] /\ reply[r] \in Seq(Frames)
  BY FlowTypes DEF TokenInv, Flows
<1>2. UNCHANGED <<active, reply, driver, lost>> /\ toClient[c] # <<>>
  BY DEF RequestArrives, gateway
<1>3. PICK q \in Requests, kind \in {"accepted", "error"}, st \in {"running", "done"} :
        /\ toClient[c][1] = [kind |-> "request", r |-> q]
        /\ <<Frame(kind, q, 0)>> \in Seq(Frames) /\ (st = "running" => kind = "accepted")
        /\ SendToGateway(c, <<Frame(kind, q, 0)>>)
        /\ run' = [run EXCEPT ![q] = [st |-> st, conn |-> c, made |-> 0]]
  BY <1>1, RequestTaken
<1> DEFINE G == <<Frame(kind, q, 0)>>
<1>4. G \in Seq(Frames) /\ SendToGateway(c, G) /\ Len(G) = 1 /\ G[1] = Frame(kind, q, 0)
  BY <1>3
<1>5. G[1].r = q /\ G[1].kind = kind
  BY <1>4 DEF Frame
<1>6. \A d \in Conns : fromClient'[d] = fromClient[d] \/ (d = c /\ fromClient'[d] = fromClient[d] \o G)
  BY <1>1, <1>4, SendsToGateway
<1> HIDE DEF G
<1>7. Streaming(r)' <=> Streaming(r)
  BY <1>2 DEF Streaming
<1>8. CASE q # r
  <2>1. \A i \in 1..Len(G) : G[i].r # r
    BY <1>4, <1>5, <1>8
  <2>2. \A d \in Conns :
          /\ Follows(fromClient'[d], fromClient[d], r)
          /\ \A i \in 1..Len(fromClient'[d]) : fromClient'[d][i].r = r =>
               \E j \in 1..Len(fromClient[d]) : fromClient'[d][i] = fromClient[d][j]
    BY <1>1, <1>4, <2>1, OthersFollow
  <2>3. run'[r] = run[r]
    BY <1>1, <1>3, <1>8
  <2> QED BY <1>1, <1>2, <1>7, <2>2, <2>3, FlowsIf, FlowTypes DEF Route
<1>9. CASE q = r
  <2>1. Asking(r, c, 1)
    <3>1. 1 \in 1..Len(toClient[c])
      BY <1>1, <1>2, TailAt DEF LinkInv, TypeOK
    <3> QED BY <1>3, <1>9, <3>1 DEF Asking
  <2>2. ~Begun(r) /\ run[r].st = "none"
    BY <1>1, <2>1 DEF Tokens, Begun
  <2>3. /\ \A d \in Conns : \A i \in 1..Len(fromClient[d]) : fromClient[d][i].r # r
        /\ Len(reply[r]) = 0 /\ Got(r) = 0 /\ driver[r].st # "closed"
    BY <1>1, <2>2 DEF Sent
  <2>4. run'[r] = [st |-> st, conn |-> c, made |-> 0] /\ Begun(r)' /\ Got(r)' = 0
    BY <1>1, <1>2, <1>3, <1>9, <2>3 DEF Begun, Got
  <2>5. ASSUME NEW d \in Conns, NEW i \in 1..Len(fromClient'[d]), fromClient'[d][i].r = r
        PROVE  d = c /\ fromClient'[d][i].kind = kind
    <3>1. fromClient'[d] # fromClient[d]
      BY <2>3, <2>5
    <3>2. d = c /\ fromClient'[d] = fromClient[d] \o G
      BY <1>6, <3>1
    <3>3. /\ Len(fromClient'[d]) = Len(fromClient[d]) + 1 /\ Len(fromClient[d]) \in Nat
          /\ \A j \in 1..Len(fromClient[d]) : fromClient'[d][j] = fromClient[d][j]
          /\ fromClient'[d][Len(fromClient[d]) + 1] = G[1]
      <4>1. /\ Len(fromClient'[d]) = Len(fromClient[d]) + Len(G) /\ Len(fromClient[d]) \in Nat
            /\ \A j \in 1..Len(fromClient[d]) : fromClient'[d][j] = fromClient[d][j]
            /\ \A j \in Len(fromClient[d]) + 1..Len(fromClient[d]) + Len(G) :
                 fromClient'[d][j] = G[j - Len(fromClient[d])]
        <5>1. fromClient[d] \in Seq(Frames) /\ G \in Seq(Frames)
          BY <1>1, <1>4
        <5>2. /\ Len(fromClient[d] \o G) = Len(fromClient[d]) + Len(G) /\ Len(fromClient[d]) \in Nat
              /\ \A j \in 1..Len(fromClient[d]) : (fromClient[d] \o G)[j] = fromClient[d][j]
              /\ \A j \in Len(fromClient[d]) + 1..Len(fromClient[d]) + Len(G) :
                   (fromClient[d] \o G)[j] = G[j - Len(fromClient[d])]
          BY <5>1, ConcatAt
        <5> QED BY <3>2, <5>2
      <4> QED BY <1>4, <4>1
    <3>4. i \notin 1..Len(fromClient[d])
      BY <2>3, <2>5, <3>3
    <3>5. i = Len(fromClient[d]) + 1
      BY <3>3, <3>4
    <3> QED BY <1>5, <3>2, <3>3, <3>5
  <2>6. Sent(r)'
    BY <1>2, <1>3, <2>3, <2>4, <2>5 DEF Sent
  <2>7. Waiting(reply[r], r, 0, 0) /\ Coming(reply[r], fromClient'[c], r, 0, 0)
    <3>1. 0 \in 0..MaxChunks /\ 1..Len(reply[r]) = {}
      BY <2>3, InvocationAssumption
    <3>2. \A i \in 1..Len(fromClient[c]) : fromClient[c][i].r # r
      BY <2>3
    <3>3. fromClient[c] \in Seq(Frames)
      BY <1>1
    <3>4. /\ Waiting(reply[r], r, 0, 0) /\ Coming(reply[r], fromClient[c], r, 0, 0)
          /\ Coming(reply[r], fromClient[c] \o G, r, 0, 0)
      BY <1>1, <1>4, <1>9, <3>1, <3>2, <3>3, FirstIsSent DEF G
    <3> QED BY <1>6, <3>4
  <2>8. WholeFor(r)'
    <3>1. Route(r)' = fromClient'[c] /\ run'[r].made = 0
      BY <2>4 DEF Route
    <3> QED BY <1>2, <2>3, <2>4, <2>7, <3>1 DEF WholeFor
  <2> QED BY <2>6, <2>8 DEF Flows
<1> QED BY <1>8, <1>9

(* What a tool sends names its request.                                    *)
LEMMA ToolFrames ==
  ASSUME NEW q \in Requests, NEW n \in 0..MaxChunks, NEW G \in Seq(Frames),
         \/ G = Append(Chunks(q, n), Frame("end", q, 0))
         \/ G = <<Frame("error", q, 0)>>
  PROVE  \A i \in 1..Len(G) : G[i].r = q
<1>1. CASE G = <<Frame("error", q, 0)>>
  BY <1>1 DEF Frame
<1>2. CASE G = Append(Chunks(q, n), Frame("end", q, 0))
  <2>1. n \in Nat /\ \A i \in 1..n : Frame("chunk", q, i) \in Frames
    BY InvocationAssumption DEF Frame, Frames
  <2>2. Chunks(q, n) \in Seq(Frames) /\ Len(Chunks(q, n)) = n /\ Frame("end", q, 0) \in Frames
        /\ \A i \in 1..n : Chunks(q, n)[i] = Frame("chunk", q, i)
    BY <2>1 DEF Chunks, Frame, Frames
  <2>3. /\ Len(G) = n + 1 /\ G[n + 1] = Frame("end", q, 0)
        /\ \A i \in 1..n : G[i] = Frame("chunk", q, i)
    BY <1>2, <2>2, AppendAt
  <2>4. \A i \in 1..Len(G) : G[i] = Frame("chunk", q, i) \/ G[i] = Frame("end", q, 0)
    BY <2>1, <2>3
  <2>5. \A kind, k : Frame(kind, q, k).r = q
    BY DEF Frame
  <2> QED BY <2>4, <2>5
<1> QED BY <1>1, <1>2

LEMMA ToolKeepsFlows ==
  ASSUME TokenInv, NEW r \in Requests, Flows(r), NEW q \in Requests, ToolEnds(q)
  PROVE  Flows(r)'
<1>1. /\ LinkInv /\ Sent(r) /\ WholeFor(r) /\ run \in [Requests -> RunRecord]
      /\ fromClient \in [Conns -> Seq(Frames)] /\ reply[r] \in Seq(Frames) /\ run[r].made \in 0..MaxChunks
  BY FlowTypes DEF TokenInv, Flows
<1>2. UNCHANGED <<active, reply, driver, lost>>
  BY DEF ToolEnds, gateway
<1>3. run[q].st = "running" /\ run[q].conn \in Conns
  BY <1>1, ToolSends
<1>4. PICK n \in 0..MaxChunks, G \in Seq(Frames) :
        /\ run' = [run EXCEPT ![q] = [st |-> "done", conn |-> run[q].conn, made |-> n]]
        /\ \/ fromClient' = fromClient
           \/ /\ SendToGateway(run[q].conn, G)
              /\ \/ G = Append(Chunks(q, n), Frame("end", q, 0))
                 \/ G = <<Frame("error", q, 0)>>
  BY <1>1, ToolSends
<1>5. Streaming(r)' <=> Streaming(r)
  BY <1>2 DEF Streaming
<1>6. CASE q # r
  <2>1. \/ fromClient' = fromClient
        \/ SendToGateway(run[q].conn, G) /\ \A i \in 1..Len(G) : G[i].r # r
    BY <1>4, <1>6, ToolFrames
  <2>2. \A d \in Conns :
          /\ Follows(fromClient'[d], fromClient[d], r)
          /\ \A i \in 1..Len(fromClient'[d]) : fromClient'[d][i].r = r =>
               \E j \in 1..Len(fromClient[d]) : fromClient'[d][i] = fromClient[d][j]
    BY <1>1, <1>3, <2>1, OthersFollow
  <2>3. run'[r] = run[r]
    BY <1>1, <1>4, <1>6
  <2> QED BY <1>1, <1>2, <1>5, <2>2, <2>3, FlowsIf, FlowTypes DEF Route
<1>7. CASE q = r
  <2> DEFINE c == run[r].conn
             m == run[r].made
  <2>1. /\ c \in Conns /\ fromClient[c] \in Seq(Frames) /\ run[r].st = "running" /\ Begun(r)
        /\ Got(r) = 0 /\ driver[r].st # "closed"
    BY <1>1, <1>3, <1>7 DEF Sent, Begun
  <2>2. /\ \A i \in 1..Len(reply[r]) : reply[r][i].r = r
        /\ OnlyAccepted(reply[r], r) /\ OnlyAccepted(fromClient[c], r)
    BY <1>1, <2>1 DEF Sent, OnlyAccepted
  <2>3. run'[r] = [st |-> "done", conn |-> c, made |-> n] /\ Begun(r)' /\ Got(r)' = 0
    BY <1>1, <1>2, <1>4, <1>7, <2>1 DEF Begun, Got
  <2>4. \A d \in Conns : d # c => fromClient'[d] = fromClient[d]
    BY <1>1, <1>3, <1>4, <1>7, SendsToGateway
  <2>5. Sent(r)'
    <3>1. \A d \in Conns : \A i \in 1..Len(fromClient'[d]) : fromClient'[d][i].r = r => d = c
      BY <1>1, <2>4 DEF Sent
    <3> HIDE DEF c
    <3>2. Len(reply'[r]) # 0 => Streaming(r)'
      BY <1>1, <1>2, <1>5 DEF Sent
    <3>3. \A i \in 1..Len(reply'[r]) : reply'[r][i].r = r
      BY <1>2, <2>2
    <3> QED BY <2>3, <3>1, <3>2, <3>3 DEF Sent
  <2>6. Waiting(reply[r], r, 0, m) => Waiting(reply[r], r, 0, n)
    BY <1>1, <2>1, <2>2, AcceptedIsFirst
  <2>7. Coming(reply[r], fromClient[c], r, 0, m) => Coming(reply[r], fromClient'[c], r, 0, n)
    <3>1. Coming(reply[r], fromClient[c], r, 0, m) => Coming(reply[r], fromClient[c], r, 0, n)
      BY <1>1, <2>1, <2>2, AcceptedIsFirst
    <3>2. ASSUME Coming(reply[r], fromClient[c], r, 0, m),
                 \/ G = Append(Chunks(r, n), Frame("end", r, 0))
                 \/ G = <<Frame("error", r, 0)>>
          PROVE  Coming(reply[r], fromClient[c] \o G, r, 0, n)
      BY <1>1, <2>1, <2>2, <3>2, AllIsSent
    <3>3. \/ fromClient'[c] = fromClient[c]
          \/ /\ fromClient'[c] = fromClient[c] \o G
             /\ \/ G = Append(Chunks(r, n), Frame("end", r, 0))
                \/ G = <<Frame("error", r, 0)>>
      BY <1>1, <1>3, <1>4, <1>7, SendsToGateway
    <3> QED BY <3>1, <3>2, <3>3
  <2>8. WholeFor(r)'
    <3>1. Route(r)' = fromClient'[c] /\ Route(r) = fromClient[c] /\ run'[r].made = n
      BY <2>3 DEF Route
    <3> SUFFICES ASSUME r \notin lost PROVE WholeFor(r)'
      BY <1>2 DEF WholeFor
    <3>2. Streaming(r)' => Waiting(reply'[r], r, 0, n)
      BY <1>1, <1>2, <1>5, <2>1, <2>6 DEF WholeFor
    <3>3. Streaming(r)' /\ c \in active' => Coming(reply'[r], fromClient'[c], r, 0, n)
      BY <1>1, <1>2, <1>5, <2>1, <2>7, <3>1 DEF WholeFor
    <3>4. driver'[r].st # "closed" /\ run'[r].conn = c
      BY <1>2, <2>1, <2>3
    <3> HIDE DEF c, m
    <3> QED BY <2>3, <3>1, <3>2, <3>3, <3>4 DEF WholeFor
  <2> QED BY <2>5, <2>8 DEF Flows
<1> QED BY <1>6, <1>7
(* A reply is published, trimmed, or nobody waits for it.                  *)
LEMMA PublicationKeepsFlows ==
  ASSUME TokenInv, NEW r \in Requests, Flows(r), NEW c \in Conns, PublishResponse(c)
  PROVE  Flows(r)'
<1> DEFINE F == fromClient[c]
           e == F[1]
           q == e.r
<1>1. /\ LinkInv /\ Sent(r) /\ WholeFor(r) /\ fromClient \in [Conns -> Seq(Frames)]
      /\ reply \in [Requests -> Seq(Frames)] /\ reply[r] \in Seq(Frames) /\ F \in Seq(Frames)
      /\ run[r].made \in 0..MaxChunks /\ Got(r) \in Nat
  BY FlowTypes DEF TokenInv, Flows
<1>2. /\ UNCHANGED <<active, run, driver>> /\ F # <<>>
      /\ fromClient' = [fromClient EXCEPT ![c] = Tail(@)]
  BY DEF PublishResponse, gateway
<1>3. /\ Head(F) = e /\ e \in Frames /\ Len(F) \in Nat \ {0} /\ Len(Tail(F)) = Len(F) - 1 /\ 1 \in 1..Len(F)
      /\ Tail(F) \in Seq(Frames)
      /\ \A i \in 1..Len(F) - 1 : Tail(F)[i] = F[i + 1]
  BY <1>1, <1>2, TailAt
<1>4. \/ ~Streaming(q) /\ reply' = reply /\ lost' = lost
      \/ /\ Streaming(q) /\ c \in active
         /\ \E box \in Added(reply[q], e) :
              /\ reply' = [reply EXCEPT ![q] = box]
              /\ lost' = IF Len(box) > Len(reply[q]) THEN lost ELSE lost \cup {q}
      \/ Streaming(q) /\ reply' = reply /\ lost' = IF c \in active THEN lost \cup {q} ELSE lost
  <2>1. Head(F) = e
    BY <1>3
  <2> QED BY <2>1 DEF PublishResponse
<1>5. q \in Requests
  BY <1>3, FrameIs, InvocationAssumption
<1>6. (Streaming(r)' <=> Streaming(r)) /\ run'[r] = run[r] /\ (Begun(r)' <=> Begun(r)) /\ Got(r)' = Got(r)
  BY <1>2 DEF Streaming, Begun, Got
<1>7. /\ \A d \in Conns \ {c} : fromClient'[d] = fromClient[d]
      /\ fromClient'[c] = Tail(F)
  BY <1>1, <1>2
<1>8. \A d \in Conns : \A i \in 1..Len(fromClient'[d]) :
        \E j \in 1..Len(fromClient[d]) : fromClient'[d][i] = fromClient[d][j]
  <2>1. \A i \in 1..Len(Tail(F)) : i + 1 \in 1..Len(F) /\ Tail(F)[i] = F[i + 1]
    BY <1>3
  <2> QED BY <1>7, <2>1
<1> HIDE DEF e, F
<1>9. CASE q # r
  <2>1. \A d \in Conns : Follows(fromClient'[d], fromClient[d], r)
    BY <1>1, <1>2, <1>9, OthersFollow DEF F, e
  <2>2. reply'[r] = reply[r] /\ (r \in lost => r \in lost')
    BY <1>1, <1>4, <1>9
  <2> QED BY <1>1, <1>2, <1>6, <1>8, <2>1, <2>2, FlowsIf, FlowTypes DEF Route
<1>10. CASE q = r
  <2>1. Begun(r) /\ run[r].conn = c /\ (run[r].st = "running" => e.kind = "accepted")
    BY <1>1, <1>3, <1>10 DEF Sent, F, e
  <2>2. CASE /\ reply' = reply
             /\ \/ ~Streaming(r) /\ lost' = lost
                \/ lost' = IF c \in active THEN lost \cup {r} ELSE lost
    <3>1. r \in lost => r \in lost'
      BY <2>2
    <3>2. r \in lost' \/ ~Streaming(r)' \/ run[r].conn \notin active'
      BY <1>2, <1>5, <1>6, <1>10, <2>1, <2>2
    <3> QED BY <1>1, <1>2, <1>6, <1>8, <2>2, <3>1, <3>2, FlowsIf
  <2>3. ASSUME Streaming(r), c \in active, NEW box \in Added(reply[r], e), reply' = [reply EXCEPT ![r] = box],
               lost' = IF Len(box) > Len(reply[r]) THEN lost ELSE lost \cup {r}
        PROVE  Flows(r)'
    <3>1. reply'[r] = box /\ reply[r] \in Seq(Frames) /\ e \in Frames
      BY <1>1, <1>3, <2>3
    <3>2. \A i \in 1..Len(box) : box[i] = e \/ \E j \in 1..Len(reply[r]) : box[i] = reply[r][j]
      <4>1. /\ Len(reply[r]) \in Nat
            /\ \/ /\ Len(box) = Len(reply[r]) + 1 /\ box[Len(reply[r]) + 1] = e
                  /\ \A i \in 1..Len(reply[r]) : box[i] = reply[r][i]
               \/ /\ Len(box) = Len(reply[r]) /\ Len(reply[r]) # 0 /\ box[Len(reply[r])] = e
                  /\ \A i \in 1..Len(reply[r]) - 1 : box[i] = reply[r][i + 1]
        BY <2>3, <3>1, AddedAt
      <4> DEFINE R == reply[r]
      <4> HIDE DEF R
      <4>2. CASE /\ Len(box) = Len(R) + 1 /\ box[Len(R) + 1] = e
                 /\ \A i \in 1..Len(R) : box[i] = R[i]
        BY <4>1, <4>2 DEF R
      <4>3. CASE /\ Len(box) = Len(R) /\ Len(R) # 0 /\ box[Len(R)] = e
                 /\ \A i \in 1..Len(R) - 1 : box[i] = R[i + 1]
        <5>1. \A i \in 1..Len(R) : i = Len(R) \/ (i \in 1..Len(R) - 1 /\ i + 1 \in 1..Len(R))
          BY <4>1 DEF R
        <5> QED BY <4>3, <5>1 DEF R
      <4> QED BY <4>1, <4>2, <4>3 DEF R
    <3>3. Sent(r)'
      <4>1. \A i \in 1..Len(reply'[r]) :
              reply'[r][i].r = r /\ (run'[r].st = "running" => reply'[r][i].kind = "accepted")
        <5> SUFFICES ASSUME NEW i \in 1..Len(box)
                     PROVE  box[i].r = r /\ (run[r].st = "running" => box[i].kind = "accepted")
          BY <1>6, <3>1
        <5>1. CASE box[i] = e
          BY <1>10, <2>1, <5>1
        <5>2. CASE \E j \in 1..Len(reply[r]) : box[i] = reply[r][j]
          BY <1>1, <5>2 DEF Sent
        <5> QED BY <3>2, <5>1, <5>2
      <4>2. \A d \in Conns : \A i \in 1..Len(fromClient'[d]) : fromClient'[d][i].r = r =>
              /\ Begun(r)' /\ run'[r].conn = d
              /\ run'[r].st = "running" => fromClient'[d][i].kind = "accepted"
        <5> SUFFICES ASSUME NEW d \in Conns, NEW i \in 1..Len(fromClient'[d]), fromClient'[d][i].r = r
                     PROVE  /\ run[r].conn = d
                            /\ run[r].st = "running" => fromClient'[d][i].kind = "accepted"
          BY <1>6, <2>1
        <5>1. PICK j \in 1..Len(fromClient[d]) : fromClient'[d][i] = fromClient[d][j]
          BY <1>8
        <5> QED BY <1>1, <5>1 DEF Sent
      <4>3. Streaming(r)' /\ Begun(r)'
        BY <1>6, <2>1, <2>3
      <4>4. run'[r].st # "done" => Got(r)' = 0 /\ driver'[r].st # "closed"
        BY <1>1, <1>2, <1>6 DEF Sent
      <4> QED BY <4>1, <4>2, <4>3, <4>4 DEF Sent
    <3>4. WholeFor(r)'
      <4> SUFFICES ASSUME r \notin lost' PROVE WholeFor(r)'
        BY DEF WholeFor
      <4>1. Len(box) > Len(reply[r]) /\ r \notin lost
        BY <1>5, <2>3
      <4>2. box = Append(reply[r], e)
        <5>1. CASE box = Tail(Append(reply[r], e))
          <6>1. /\ Append(reply[r], e) \in Seq(Frames) /\ Len(Append(reply[r], e)) = Len(reply[r]) + 1
                /\ Len(reply[r]) \in Nat
            BY <3>1, AppendAt
          <6>2. Append(reply[r], e) # <<>>
            BY <6>1, EmptySeq
          <6>3. Len(Tail(Append(reply[r], e))) = Len(reply[r])
            BY <6>1, <6>2, TailAt
          <6> QED BY <4>1, <5>1, <6>1, <6>3
        <5> QED BY <2>3, <5>1 DEF Added
      <4>3. /\ Waiting(reply[r], r, Got(r), run[r].made)
            /\ c \in active => Coming(reply[r], F, r, Got(r), run[r].made)
        BY <1>1, <2>1, <2>3, <4>1 DEF WholeFor, Route, F
      <4>4. /\ Waiting(box, r, Got(r), run[r].made)
            /\ Coming(box, Tail(F), r, Got(r), run[r].made)
        BY <1>1, <1>2, <1>10, <2>3, <3>1, <4>2, <4>3, FramePublished DEF e
      <4> QED BY <1>1, <1>2, <1>6, <1>7, <2>1, <2>3, <3>1, <4>1, <4>4 DEF WholeFor, Route
    <3> QED BY <3>3, <3>4 DEF Flows
  <2> QED BY <1>4, <1>10, <2>2, <2>3
<1> QED BY <1>9, <1>10

LEMMA FlowStep == ASSUME FlowInv, [Next]_vars PROVE FlowInv'
<1>1. TokenInv /\ TokenInv' /\ \A r \in Requests : Flows(r)
  BY TokenStep DEF FlowInv
<1> SUFFICES ASSUME NEW r \in Requests PROVE Flows(r)'
  BY <1>1 DEF FlowInv
<1>2. CASE StepOfClient
  BY <1>1, <1>2, ClientKeepsFlows, ArrivalKeepsFlows, ToolKeepsFlows DEF StepOfClient
<1>3. CASE StepOfGateway
  BY <1>1, <1>3, GatewayKeepsFlows, PublicationKeepsFlows DEF StepOfGateway
<1>4. CASE StepOfServer
  <2>1. PICK q \in Requests : Invoke(q) \/ Publish(q) \/ Read(q) \/ ReadFails(q)
    BY <1>4 DEF StepOfServer
  <2>2. LinkInv
    BY <1>1 DEF TokenInv
  <2>3. CASE q = r
    BY <1>1, <2>1, <2>3, ReadKeepsFlows, ServerKeepsFlows
  <2>4. CASE q # r
    BY <1>1, <2>1, <2>2, <2>4, RepliesOfOthers
  <2> QED BY <2>3, <2>4
<1>5. CASE UNCHANGED vars
  BY <1>1, <1>5 DEF vars, Flows, Sent, WholeFor, Streaming, Begun, Got, Route
<1> QED BY <1>2, <1>3, <1>4, <1>5, Steps

LEMMA FlowInit == ASSUME Init PROVE FlowInv
<1>1. Len(<<>>) = 0
  BY EmptySeq
<1>2. ASSUME NEW r \in Requests PROVE Flows(r)
  <2>1. /\ \A c \in Conns : fromClient[c] = <<>>
        /\ reply[r] = <<>> /\ driver[r] = NewDriver /\ run[r] = NewRun
    BY DEF Init
  <2>2. driver[r].st = "new" /\ driver[r].got = <<>>
    BY <2>1 DEF NewDriver
  <2>3. Sent(r)
    BY <1>1, <2>1, <2>2 DEF Sent, Got
  <2>4. WholeFor(r)
    BY <1>1, <2>2 DEF WholeFor, Streaming, Got
  <2> QED BY <2>3, <2>4 DEF Flows
<1> QED BY <1>2, TokenInit DEF FlowInv

(* Whatever connections are lost, a stream that ends without an error gave *)
(* its reader every chunk of the tool, once and in order, unless a reply   *)
(* could not be published or was trimmed: for all requests at a time, all  *)
(* connections, lengths of a stream and of a mailbox.                      *)
THEOREM StreamsArriveWhole == Spec => []StreamsAreWhole
<1>1. FlowInv /\ [Next]_vars => FlowInv'
  BY FlowStep
<1>2. FlowInv => StreamsAreWhole
  <2> SUFFICES ASSUME FlowInv, NEW r \in Requests \ lost
               PROVE  /\ \A i \in DOMAIN driver[r].got : driver[r].got[i] = i
                      /\ driver[r].st = "closed" => Len(driver[r].got) = run[r].made
    BY DEF StreamsAreWhole
  <2>1. driver[r].got \in Seq(1..MaxChunks) /\ WholeFor(r)
    BY FlowTypes DEF FlowInv, TokenInv, Flows
  <2>2. DOMAIN driver[r].got = 1..Got(r)
    BY <2>1 DEF Got
  <2> QED BY <2>1, <2>2 DEF WholeFor, Got
<1> QED BY <1>1, <1>2, FlowInit, PTL DEF Spec
=============================================================================
