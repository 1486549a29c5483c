--------------------------- MODULE TransportProofs ---------------------------
(***************************************************************************)
(* Proofs about Transport for any number of accesses, time extensions and  *)
(* sequence numbers.                                                       *)
(***************************************************************************)
EXTENDS Transport, TLAPS

---------------------------------------------------------------------------
(* Facts about sequences.                                                  *)

(* A longer sequence: its elements are the old ones, and the new one last. *)
LEMMA AppendFacts ==
    ASSUME NEW S, NEW s \in Seq(S), NEW x \in S
    PROVE  /\ Append(s, x) \in Seq(S) /\ Len(Append(s, x)) = Len(s) + 1
           /\ \A i \in 1..Len(s) : Append(s, x)[i] = s[i]
           /\ Append(s, x)[Len(s) + 1] = x
  OBVIOUS

(* A sequence without its head: its elements are the old ones, one place   *)
(* further to the front.                                                   *)
LEMMA TailFacts ==
    ASSUME NEW S, NEW s \in Seq(S), s # <<>>
    PROVE  /\ Tail(s) \in Seq(S) /\ Len(Tail(s)) = Len(s) - 1 /\ Len(s) \in Nat \ {0}
           /\ Head(s) = s[1] /\ Head(s) \in S
           /\ \A i \in 1..Len(Tail(s)) : i + 1 \in 1..Len(s) /\ Tail(s)[i] = s[i + 1]
  OBVIOUS

---------------------------------------------------------------------------
(* Type correctness.                                                       *)

(* Every step keeps the types; the sequence number because it wraps. *)
LEMMA TypeStep == TypeOK /\ [Next]_vars => TypeOK'
<1> SUFFICES ASSUME TypeOK, [Next]_vars PROVE TypeOK'
  OBVIOUS
<1> USE SeqModAssumption
<1>1. CASE BulkWrite
  <2> DEFINE r == [req |-> n + 1, seq |-> NextSeqno(seqno)]
  <2>1. NextSeqno(seqno) \in 0..SeqMod - 1
    BY DEF TypeOK, NextSeqno
  <2>2. r \in Request
    BY <2>1 DEF TypeOK, Request
  <2>3. devq \in Seq(Request) /\ Append(devq, r) \in Seq(Request)
    BY <2>2, AppendFacts DEF TypeOK
  <2>4. devq' \in Seq(Request)
    BY <1>1, <2>3 DEF BulkWrite
  <2>5. out' \in [ret : {"ok", "err"}, got : Nat] /\ pc' \in {"ready", "read"}
    BY <1>1 DEF BulkWrite, Return, TypeOK
  <2> QED BY <1>1, <2>1, <2>4, <2>5 DEF BulkWrite, TypeOK
<1>2. CASE BulkReadTimeout
  BY <1>2 DEF BulkReadTimeout, Return, TypeOK, device
<1>3. CASE BulkRead
  <2>1. inq' \in Seq(Message) /\ Head(inq) \in Message
    BY <1>3, TailFacts DEF BulkRead, TypeOK
  <2>2. Head(inq).req \in Nat
    BY <2>1 DEF Message
  <2>3. out \in [ret : {"ok", "err"}, got : Nat] /\ pc = "read"
    BY <1>3 DEF BulkRead, TypeOK
  <2>4. \/ pc' = "ready" /\ out' = [out EXCEPT !.ret = "err"]
        \/ pc' = pc /\ out' = out
        \/ pc' = "ready" /\ out' = [ret |-> "ok", got |-> Head(inq).req]
    BY <1>3 DEF BulkRead, Return
  <2>5. out' \in [ret : {"ok", "err"}, got : Nat] /\ pc' \in {"ready", "read"}
    BY <2>2, <2>3, <2>4
  <2> QED BY <1>3, <2>1, <2>5 DEF BulkRead, TypeOK
<1>4. CASE openpcd_reopen
  <2>1. <<>> \in Seq(Request) /\ <<>> \in Seq(Message)
    OBVIOUS
  <2>2. devq' \in Seq(Request) /\ inq' \in Seq(Message)
    <3>1. CASE devq' = <<>> /\ inq' = <<>>  BY <2>1, <3>1
    <3>2. CASE UNCHANGED <<devq, inq>>  BY <3>2 DEF TypeOK
    <3> QED BY <1>4, <3>1, <3>2 DEF openpcd_reopen
  <2> QED BY <1>4, <2>2 DEF openpcd_reopen, TypeOK, host
<1>5. CASE Execute
  <2>1. devq' \in Seq(Request) /\ Head(devq) \in Request
    BY <1>5, TailFacts DEF Execute, TypeOK
  <2>2. Head(devq).req \in Nat /\ Head(devq).seq \in Nat
    BY <2>1 DEF Request
  <2>3. [req |-> Head(devq).req, seq |-> Head(devq).seq, more |-> FALSE] \in Message
    BY <2>2 DEF Message
  <2>4. inq' \in Seq(Message) /\ log' \in Seq(Nat)
    BY <1>5, <2>2, <2>3, AppendFacts DEF Execute, TypeOK
  <2> QED BY <1>5, <2>1, <2>4 DEF Execute, TypeOK, host
<1>6. CASE AskForTime
  <2>1. Head(devq) \in Request
    BY <1>6, TailFacts DEF AskForTime, TypeOK
  <2>2. [req |-> Head(devq).req, seq |-> Head(devq).seq, more |-> TRUE] \in Message
    BY <2>1 DEF Request, Message
  <2>3. inq' \in Seq(Message)
    BY <1>6, <2>2, AppendFacts DEF AskForTime, TypeOK
  <2> QED BY <1>6, <2>3 DEF AskForTime, TypeOK, host
<1>7. CASE UNCHANGED vars
  BY <1>7 DEF vars, host, device, TypeOK
<1> QED BY <1>1, <1>2, <1>3, <1>4, <1>5, <1>6, <1>7 DEF Next, Host, Device

(* The initial state has the types. *)
LEMMA TypeInit == Init => TypeOK
  BY SeqModAssumption DEF Init, TypeOK

(* Types: the host, the pipe and the device keep their types, for both     *)
(* transports, and the sequence number of the CCID driver stays a byte.    *)
THEOREM TypeCorrect == Spec => []TypeOK
  BY TypeInit, TypeStep, PTL DEF Spec

---------------------------------------------------------------------------
(* The reply taken is the access's own.                                    *)

(* The sequence number that was in use d accesses before s. *)
SeqAgo(s, d) == IF d <= s THEN s - d ELSE s - d + SeqMod

(* What is known of a request or a message e that is still under way after *)
(* k accesses: it was sent after access b, and it carries the number that  *)
(* was in use then, unless that is a whole round ago; s is in use now.     *)
FreshAt(e, k, b, s) == /\ e.req > b /\ e.req <= k
                       /\ k - e.req < SeqMod => e.seq = SeqAgo(s, k - e.req)

Fresh(e) == FreshAt(e, n, base, seqno)

(* The inductive invariant behind OwnReply.  For OpenPCD the sequence      *)
(* numbers are counted but never looked at.                                *)
WindowInv == /\ base <= n
             /\ \A i \in 1..Len(devq) : Fresh(devq[i])
             /\ \A i \in 1..Len(inq) : Fresh(inq[i])
             /\ OwnReply

(* A message that bulk_in accepts inside the window is the answer to the   *)
(* access in progress.                                                     *)
LEMMA AcceptedIsOwn ==
    ASSUME TypeOK, NEW e \in Message, Fresh(e), Accepts(e), n - base \in 1..Window
    PROVE  e.req = n
<1>1. e.req \in Nat /\ n \in Nat /\ base \in Nat /\ seqno \in 0..SeqMod - 1
  BY DEF TypeOK, Message
<1>2. CASE drv = "ccid"
  <2>1. n - e.req < SeqMod /\ e.seq = seqno
    BY <1>1, <1>2, SeqModAssumption DEF Window, Fresh, FreshAt, Accepts
  <2>2. SeqAgo(seqno, n - e.req) = seqno
    BY <2>1 DEF Fresh, FreshAt
  <2> QED BY <1>1, <2>1, <2>2, SeqModAssumption DEF SeqAgo, Fresh, FreshAt
<1>3. CASE drv # "ccid"
  BY <1>1, <1>3 DEF Window, Fresh, FreshAt
<1> QED BY <1>2, <1>3

(* Every step keeps what is known of the pipe. *)
LEMMA WindowStep == TypeOK /\ WindowInv /\ [Next]_vars => WindowInv'
<1> SUFFICES ASSUME TypeOK, WindowInv, [Next]_vars PROVE WindowInv'
  OBVIOUS
<1> USE SeqModAssumption
<1>1. CASE BulkWrite
  <2> DEFINE r == [req |-> n + 1, seq |-> NextSeqno(seqno)]
  <2>1. /\ n \in Nat /\ base \in Nat /\ seqno \in 0..SeqMod - 1
        /\ devq \in Seq(Request) /\ inq \in Seq(Message) /\ r \in Request
    BY DEF TypeOK, NextSeqno, Request
  <2>2. n' = n + 1 /\ seqno' = NextSeqno(seqno) /\ inq' = inq
    BY <1>1 DEF BulkWrite
  <2>3. base' \in Nat /\ base' <= n /\ (devq # <<>> \/ inq # <<>> => base' = base)
    BY <1>1, <2>1 DEF BulkWrite, WindowInv
  <2>4. ASSUME NEW e, e.req \in Nat, Fresh(e), base' = base
        PROVE  FreshAt(e, n', base', seqno')
    <3>1. e.req > base' /\ e.req <= n'
      BY <2>1, <2>2, <2>4 DEF Fresh, FreshAt
    <3>2. ASSUME n' - e.req < SeqMod PROVE e.seq = SeqAgo(seqno', n' - e.req)
      <4>1. e.seq = SeqAgo(seqno, n - e.req) /\ n - e.req \in 0..SeqMod - 2
        BY <2>1, <2>2, <2>4, <3>1, <3>2 DEF Fresh, FreshAt
      <4>2. n' - e.req = (n - e.req) + 1
        BY <2>1, <2>2, <2>4
      <4>3. \A d \in 0..SeqMod - 2 : SeqAgo(seqno', d + 1) = SeqAgo(seqno, d)
        BY <2>1, <2>2 DEF SeqAgo, NextSeqno
      <4> QED BY <4>1, <4>2, <4>3
    <3> QED BY <3>1, <3>2 DEF FreshAt
  <2>5. r.req = n' /\ r.seq = seqno'
    BY <2>2
  <2>6. FreshAt(r, n', base', seqno')
    BY <2>1, <2>2, <2>3, <2>5 DEF Fresh, FreshAt, SeqAgo, NextSeqno
  <2>7. \A i \in 1..Len(inq') : FreshAt(inq'[i], n', base', seqno')
    <3> SUFFICES ASSUME NEW i \in 1..Len(inq) PROVE FreshAt(inq[i], n', base', seqno')
      BY <2>2
    <3>1. inq # <<>> /\ inq[i] \in Message
      BY <2>1
    <3>2. inq[i].req \in Nat
      BY <3>1 DEF Message
    <3> QED BY <2>3, <2>4, <3>1, <3>2 DEF WindowInv
  <2>8. \A i \in 1..Len(devq) : FreshAt(devq[i], n', base', seqno')
    <3> SUFFICES ASSUME NEW i \in 1..Len(devq) PROVE FreshAt(devq[i], n', base', seqno')
      OBVIOUS
    <3>1. devq # <<>> /\ devq[i] \in Request
      BY <2>1
    <3>2. devq[i].req \in Nat
      BY <3>1 DEF Request
    <3> QED BY <2>3, <2>4, <3>1, <3>2 DEF WindowInv
  <2>9. \A i \in 1..Len(devq') : FreshAt(devq'[i], n', base', seqno')
    <3>1. CASE devq' = devq
      BY <2>8, <3>1
    <3>2. CASE devq' = Append(devq, r)
      <4>1. /\ Len(devq') = Len(devq) + 1 /\ devq'[Len(devq) + 1] = r
            /\ \A i \in 1..Len(devq) : devq'[i] = devq[i]
        BY <2>1, <3>2, AppendFacts
      <4>2. Len(devq) \in Nat
        BY <2>1
      <4> QED BY <2>6, <2>8, <4>1, <4>2
    <3> QED BY <1>1, <2>2, <3>1, <3>2 DEF BulkWrite
  <2>10. OwnReply'
    BY <1>1 DEF BulkWrite, Return, OwnReply, TypeOK
  <2> QED BY <2>1, <2>2, <2>3, <2>7, <2>9, <2>10 DEF WindowInv, Fresh
<1>2. CASE BulkReadTimeout
  <2>1. OwnReply'
    BY <1>2 DEF BulkReadTimeout, Return, OwnReply, TypeOK
  <2> QED BY <1>2, <2>1 DEF BulkReadTimeout, WindowInv, Fresh, FreshAt, SeqAgo, device
<1>3. CASE BulkRead
  <2>1. inq \in Seq(Message) /\ inq # <<>> /\ inq' = Tail(inq)
    BY <1>3 DEF BulkRead, TypeOK
  <2>2. /\ Head(inq) = inq[1] /\ 1 \in 1..Len(inq) /\ Head(inq) \in Message
        /\ \A i \in 1..Len(inq') : i + 1 \in 1..Len(inq) /\ inq'[i] = inq[i + 1]
    BY <2>1, TailFacts
  <2>3. UNCHANGED <<drv, n, seqno, devq, base>>
    BY <1>3 DEF BulkRead
  <2>4. OwnReply'
    <3> SUFFICES ASSUME pc' = "ready", out'.ret = "ok", n - base \in 1..Window
                 PROVE  out'.got = n
      BY <2>3 DEF OwnReply, Window
    <3>1. out \in [ret : {"ok", "err"}, got : Nat] /\ pc = "read"
      BY <1>3 DEF BulkRead, TypeOK
    <3>2. Accepts(Head(inq)) /\ out'.got = Head(inq).req
      BY <1>3, <3>1 DEF BulkRead, Return
    <3>3. Fresh(Head(inq))
      BY <2>2 DEF WindowInv
    <3> QED BY <2>2, <3>2, <3>3, AcceptedIsOwn
  <2>5. \A i \in 1..Len(inq') : FreshAt(inq'[i], n', base', seqno')
    BY <2>2, <2>3 DEF WindowInv, Fresh, FreshAt, SeqAgo
  <2> QED BY <2>3, <2>4, <2>5 DEF WindowInv, Fresh, FreshAt, SeqAgo
<1>4. CASE openpcd_reopen
  <2>1. UNCHANGED <<drv, pc, n, seqno, out, base>>
    BY <1>4 DEF openpcd_reopen, host
  <2>2. OwnReply'
    BY <2>1 DEF OwnReply, Window, WindowInv
  <2>3. CASE devq' = <<>> /\ inq' = <<>>
    BY <2>1, <2>2, <2>3 DEF WindowInv
  <2>4. CASE UNCHANGED <<devq, inq>>
    BY <2>1, <2>2, <2>4 DEF WindowInv, Fresh, FreshAt, SeqAgo
  <2> QED BY <1>4, <2>3, <2>4 DEF openpcd_reopen
<1>5. CASE Execute \/ AskForTime
  <2>1. UNCHANGED <<drv, pc, n, seqno, out, base>>
    BY <1>5 DEF Execute, AskForTime, host
  <2>2. /\ devq \in Seq(Request) /\ inq \in Seq(Message) /\ devq # <<>>
        /\ devq' = devq \/ devq' = Tail(devq)
    BY <1>5 DEF Execute, AskForTime, TypeOK
  <2>3. /\ Head(devq) = devq[1] /\ 1 \in 1..Len(devq) /\ Head(devq) \in Request
        /\ devq' = Tail(devq) =>
             \A i \in 1..Len(devq') : i + 1 \in 1..Len(devq) /\ devq'[i] = devq[i + 1]
    BY <2>2, TailFacts
  <2>4. Head(devq).req \in Nat /\ Head(devq).seq \in Nat
    BY <2>3 DEF Request
  <2>5. PICK b \in BOOLEAN :
           inq' = Append(inq, [req |-> Head(devq).req, seq |-> Head(devq).seq, more |-> b])
    BY <1>5 DEF Execute, AskForTime
  <2> DEFINE m == [req |-> Head(devq).req, seq |-> Head(devq).seq, more |-> b]
  <2>6. m \in Message
    BY <2>4 DEF Message
  <2>7. Fresh(m)
    BY <2>3 DEF WindowInv, Fresh, FreshAt
  <2>8. /\ Len(inq') = Len(inq) + 1 /\ inq'[Len(inq) + 1] = m /\ Len(inq) \in Nat
        /\ \A i \in 1..Len(inq) : inq'[i] = inq[i]
    BY <2>2, <2>5, <2>6, AppendFacts
  <2>9. \A i \in 1..Len(inq') : Fresh(inq'[i])
    BY <2>7, <2>8 DEF WindowInv
  <2>10. \A i \in 1..Len(devq') : Fresh(devq'[i])
    BY <2>2, <2>3 DEF WindowInv
  <2>11. OwnReply'
    BY <2>1 DEF OwnReply, Window, WindowInv
  <2> QED BY <2>1, <2>9, <2>10, <2>11 DEF WindowInv, Fresh, FreshAt, SeqAgo
<1>6. CASE UNCHANGED vars
  BY <1>6 DEF vars, host, device, WindowInv, Fresh, FreshAt, SeqAgo, OwnReply, Window
<1> QED BY <1>1, <1>2, <1>3, <1>4, <1>5, <1>6 DEF Next, Host, Device

(* OwnReply for any number of accesses: within one round of sequence       *)
(* numbers the CCID driver never takes the answer to an abandoned access   *)
(* for that of another one; the OpenPCD driver does not after an empty     *)
(* pipe.                                                                   *)
THEOREM OwnReplyHolds == Spec => []OwnReply
<1>1. Init => WindowInv
  BY DEF Init, WindowInv, OwnReply
<1>2. WindowInv => OwnReply
  BY DEF WindowInv
<1> QED BY <1>1, <1>2, WindowStep, TypeCorrect, PTL DEF Spec

---------------------------------------------------------------------------
(* The transports implement RegisterAccess.                                *)

(* What is under way is in the order of the accesses: replies that were    *)
(* not taken yet come from executed requests and follow the last one that  *)
(* was taken; requests not yet executed follow all of those.               *)
LogInv   == out.got <= n /\ \A i \in 1..Len(log) : log[i] <= n
QueueInv == /\ \A j \in 1..Len(devq) :
                  /\ devq[j].req \in 1..n /\ devq[j].req > out.got
                  /\ \A i \in 1..Len(log) : log[i] < devq[j].req
            /\ \A j, k \in 1..Len(devq) : j < k => devq[j].req < devq[k].req
ReplyInv == /\ \A j \in 1..Len(inq) : ~inq[j].more =>
                  /\ inq[j].req > out.got
                  /\ \E i \in 1..Len(log) : log[i] = inq[j].req
            /\ \A j, k \in 1..Len(inq) :
                  j < k /\ ~inq[j].more /\ ~inq[k].more => inq[j].req < inq[k].req
OrderInv == LogInv /\ QueueInv /\ ReplyInv

(* Every step keeps the order. *)
LEMMA OrderStep == TypeOK /\ OrderInv /\ [Next]_vars => OrderInv'
<1> SUFFICES ASSUME TypeOK, OrderInv, [Next]_vars PROVE OrderInv'
  OBVIOUS
<1>0. /\ n \in Nat /\ out.got \in Nat
      /\ devq \in Seq(Request) /\ inq \in Seq(Message) /\ log \in Seq(Nat)
      /\ Len(devq) \in Nat /\ Len(inq) \in Nat /\ Len(log) \in Nat
      /\ \A i \in 1..Len(log) : log[i] \in Nat
      /\ \A i \in 1..Len(devq) : devq[i].req \in Nat
      /\ \A i \in 1..Len(inq) : inq[i].req \in Nat /\ inq[i].more \in BOOLEAN
  <2>1. /\ n \in Nat /\ out.got \in Nat
        /\ devq \in Seq(Request) /\ inq \in Seq(Message) /\ log \in Seq(Nat)
    BY DEF TypeOK
  <2>2. /\ Len(devq) \in Nat /\ Len(inq) \in Nat /\ Len(log) \in Nat
        /\ \A i \in 1..Len(log) : log[i] \in Nat
        /\ \A i \in 1..Len(devq) : devq[i] \in Request
        /\ \A i \in 1..Len(inq) : inq[i] \in Message
    BY <2>1
  <2>3. \A e \in Request : e.req \in Nat
    BY DEF Request
  <2>4. \A e \in Message : e.req \in Nat /\ e.more \in BOOLEAN
    BY DEF Message
  <2> QED BY <2>1, <2>2, <2>3, <2>4
<1>1. CASE BulkWrite
  <2> DEFINE r == [req |-> n + 1, seq |-> NextSeqno(seqno)]
  <2>1. n' = n + 1 /\ inq' = inq /\ log' = log /\ out'.got = out.got
    BY <1>1 DEF BulkWrite, Return, TypeOK
  <2>2. devq' = devq \/ devq' = Append(devq, r)
    BY <1>1 DEF BulkWrite
  <2>3. LogInv' /\ ReplyInv'
    BY <1>0, <2>1 DEF OrderInv, LogInv, ReplyInv
  <2>4. CASE devq' = devq
    <3>1. QueueInv'
      BY <1>0, <2>1, <2>4 DEF OrderInv, QueueInv
    <3> QED BY <2>3, <3>1 DEF OrderInv
  <2>5. CASE devq' = Append(devq, r)
    <3>1. r \in Request
      BY <1>0, SeqModAssumption DEF Request, NextSeqno, TypeOK
    <3>2. /\ Len(devq') = Len(devq) + 1 /\ devq'[Len(devq) + 1] = r
          /\ \A i \in 1..Len(devq) : devq'[i] = devq[i]
      BY <1>0, <2>5, <3>1, AppendFacts
    <3>3. devq'[Len(devq) + 1].req = n + 1
      BY <3>2
    <3>4. ASSUME NEW j \in 1..Len(devq')
          PROVE  /\ devq'[j].req \in 1..n' /\ devq'[j].req > out'.got
                 /\ \A i \in 1..Len(log') : log'[i] < devq'[j].req
      <4>1. CASE j \in 1..Len(devq)
        <5>1. /\ devq[j].req \in 1..n /\ devq[j].req > out.got
              /\ \A i \in 1..Len(log) : log[i] < devq[j].req
          BY <4>1 DEF OrderInv, QueueInv
        <5>2. devq'[j].req = devq[j].req
          BY <3>2, <4>1
        <5> QED BY <1>0, <2>1, <5>1, <5>2
      <4>2. CASE j = Len(devq) + 1
        <5>1. devq'[j].req = n + 1
          BY <3>3, <4>2
        <5>2. out.got <= n /\ \A i \in 1..Len(log) : log[i] <= n
          BY DEF OrderInv, LogInv
        <5> QED BY <1>0, <2>1, <5>1, <5>2
      <4>3. j \in 1..Len(devq) \/ j = Len(devq) + 1
        BY <1>0, <3>2
      <4> QED BY <4>1, <4>2, <4>3
    <3>5. ASSUME NEW j \in 1..Len(devq'), NEW k \in 1..Len(devq'), j < k
          PROVE  devq'[j].req < devq'[k].req
      <4>1. j \in 1..Len(devq) /\ devq'[j].req = devq[j].req
        BY <1>0, <3>2, <3>5
      <4>2. CASE k \in 1..Len(devq)
        BY <3>2, <3>5, <4>1, <4>2 DEF OrderInv, QueueInv
      <4>3. CASE k = Len(devq) + 1
        BY <1>0, <3>3, <4>1, <4>3 DEF OrderInv, QueueInv
      <4> QED BY <1>0, <3>2, <4>2, <4>3
    <3>6. QueueInv'
      BY <3>4, <3>5 DEF QueueInv
    <3> QED BY <2>3, <3>6 DEF OrderInv
  <2> QED BY <2>2, <2>4, <2>5
<1>2. CASE BulkReadTimeout
  <2>1. n' = n /\ devq' = devq /\ inq' = inq /\ log' = log /\ out'.got = out.got
    BY <1>2 DEF BulkReadTimeout, Return, TypeOK, device
  <2> QED BY <2>1 DEF OrderInv, LogInv, QueueInv, ReplyInv
<1>3. CASE BulkRead
  <2>1. n' = n /\ devq' = devq /\ log' = log /\ inq # <<>> /\ inq' = Tail(inq)
    BY <1>3 DEF BulkRead
  <2>2. /\ Head(inq) = inq[1] /\ 1 \in 1..Len(inq)
        /\ \A i \in 1..Len(inq') : i + 1 \in 1..Len(inq) /\ inq'[i] = inq[i + 1]
    BY <1>0, <2>1, TailFacts
  <2>3. \A j, k \in 1..Len(inq') :
           j < k /\ ~inq'[j].more /\ ~inq'[k].more => inq'[j].req < inq'[k].req
    <3> SUFFICES ASSUME NEW j \in 1..Len(inq'), NEW k \in 1..Len(inq'),
                        j < k, ~inq'[j].more, ~inq'[k].more
                 PROVE  inq'[j].req < inq'[k].req
      OBVIOUS
    <3>1. /\ j + 1 \in 1..Len(inq) /\ inq'[j] = inq[j + 1]
          /\ k + 1 \in 1..Len(inq) /\ inq'[k] = inq[k + 1]
      BY <2>2
    <3>2. j + 1 < k + 1
      OBVIOUS
    <3> QED BY <3>1, <3>2 DEF OrderInv, ReplyInv
  <2>4. CASE out'.got = out.got
    BY <2>1, <2>2, <2>3, <2>4 DEF OrderInv, LogInv, QueueInv, ReplyInv
  <2>5. CASE ~inq[1].more /\ out'.got = inq[1].req
    <3>1. PICK i \in 1..Len(log) : log[i] = inq[1].req
      BY <2>2, <2>5 DEF OrderInv, ReplyInv
    <3>2. LogInv'
      BY <2>1, <2>5, <3>1 DEF OrderInv, LogInv
    <3>3. QueueInv'
      BY <1>0, <2>1, <2>5, <3>1 DEF OrderInv, QueueInv
    <3>4. \A j \in 1..Len(inq') : ~inq'[j].more => inq'[j].req > out'.got
      <4> SUFFICES ASSUME NEW j \in 1..Len(inq'), ~inq'[j].more PROVE inq'[j].req > inq[1].req
        BY <2>5
      <4>1. j + 1 \in 1..Len(inq) /\ inq'[j] = inq[j + 1] /\ 1 < j + 1
        BY <2>2
      <4>2. inq[1].req < inq[j + 1].req
        BY <2>2, <2>5, <4>1 DEF OrderInv, ReplyInv
      <4> QED BY <1>0, <2>2, <4>1, <4>2
    <3>5. ReplyInv'
      BY <2>1, <2>2, <2>3, <3>4 DEF OrderInv, ReplyInv
    <3> QED BY <3>2, <3>3, <3>5 DEF OrderInv
  <2> QED BY <1>3, <2>2, <2>4, <2>5 DEF BulkRead, Return, TypeOK
<1>4. CASE openpcd_reopen
  <2>1. n' = n /\ out' = out /\ log' = log
    BY <1>4 DEF openpcd_reopen, host
  <2>2. LogInv'
    BY <2>1 DEF OrderInv, LogInv
  <2>3. CASE devq' = <<>> /\ inq' = <<>>
    BY <2>2, <2>3 DEF OrderInv, QueueInv, ReplyInv
  <2>4. CASE UNCHANGED <<devq, inq>>
    BY <2>1, <2>2, <2>4 DEF OrderInv, QueueInv, ReplyInv
  <2> QED BY <1>4, <2>3, <2>4 DEF openpcd_reopen
<1>5. CASE Execute
  <2> DEFINE q == Head(devq).req
             m == [req |-> Head(devq).req, seq |-> Head(devq).seq, more |-> FALSE]
  <2>1. /\ n' = n /\ out' = out /\ devq # <<>> /\ devq' = Tail(devq)
        /\ log' = Append(log, q) /\ inq' = Append(inq, m)
    BY <1>5 DEF Execute, host
  <2>2. /\ Head(devq) = devq[1] /\ 1 \in 1..Len(devq) /\ Head(devq) \in Request
        /\ \A i \in 1..Len(devq') : i + 1 \in 1..Len(devq) /\ devq'[i] = devq[i + 1]
    BY <1>0, <2>1, TailFacts
  <2>3. q \in Nat /\ m \in Message /\ m.req = q /\ ~m.more
    BY <2>2 DEF Request, Message
  <2>4. /\ q \in 1..n /\ q > out.got /\ \A i \in 1..Len(log) : log[i] < q
        /\ \A j \in 1..Len(devq') : q < devq'[j].req
    <3>1. \A j \in 1..Len(devq') : devq[1].req < devq[j + 1].req
      BY <2>2 DEF OrderInv, QueueInv
    <3> QED BY <2>2, <3>1 DEF OrderInv, QueueInv
  <2>5. /\ Len(log') = Len(log) + 1 /\ log'[Len(log) + 1] = q
        /\ \A i \in 1..Len(log) : log'[i] = log[i]
    BY <1>0, <2>1, <2>3, AppendFacts
  <2>6. /\ Len(inq') = Len(inq) + 1 /\ inq'[Len(inq) + 1] = m
        /\ \A i \in 1..Len(inq) : inq'[i] = inq[i]
    BY <1>0, <2>1, <2>3, AppendFacts
  <2>7. LogInv'
    <3>1. out.got <= n /\ \A i \in 1..Len(log) : log[i] <= n
      BY DEF OrderInv, LogInv
    <3>2. \A i \in 1..Len(log') : i \in 1..Len(log) \/ i = Len(log) + 1
      BY <1>0, <2>5
    <3>3. q <= n
      BY <1>0, <2>4
    <3>4. \A i \in 1..Len(log') : log'[i] <= n
      BY <2>5, <3>1, <3>2, <3>3
    <3> QED BY <2>1, <3>1, <3>4 DEF LogInv
  <2>8. QueueInv'
    <3>1. ASSUME NEW j \in 1..Len(devq')
          PROVE  /\ devq'[j].req \in 1..n' /\ devq'[j].req > out'.got
                 /\ \A i \in 1..Len(log') : log'[i] < devq'[j].req
      <4>1. j + 1 \in 1..Len(devq) /\ devq'[j] = devq[j + 1]
        BY <2>2
      <4>2. \A i \in 1..Len(log) : log'[i] < devq'[j].req
        BY <2>5, <4>1 DEF OrderInv, QueueInv
      <4>3. log'[Len(log) + 1] < devq'[j].req
        BY <2>4, <2>5
      <4>4. \A i \in 1..Len(log') : i \in 1..Len(log) \/ i = Len(log) + 1
        BY <1>0, <2>5
      <4>5. \A i \in 1..Len(log') : log'[i] < devq'[j].req
        BY <4>2, <4>3, <4>4
      <4> QED BY <2>1, <4>1, <4>5 DEF OrderInv, QueueInv
    <3>2. ASSUME NEW j \in 1..Len(devq'), NEW k \in 1..Len(devq'), j < k
          PROVE  devq'[j].req < devq'[k].req
      <4>1. /\ j + 1 \in 1..Len(devq) /\ devq'[j] = devq[j + 1]
            /\ k + 1 \in 1..Len(devq) /\ devq'[k] = devq[k + 1]
        BY <2>2
      <4>2. j + 1 < k + 1
        BY <3>2
      <4> QED BY <4>1, <4>2 DEF OrderInv, QueueInv
    <3> QED BY <3>1, <3>2 DEF QueueInv
  <2>9. ReplyInv'
    <3>0. Len(inq) \in Nat /\ Len(inq') = Len(inq) + 1
      BY <1>0, <2>6
    <3>1. \A j \in 1..Len(inq') : j \in 1..Len(inq) \/ j = Len(inq) + 1
      BY <3>0
    <3>2. ASSUME NEW j \in 1..Len(inq'), ~inq'[j].more
          PROVE  inq'[j].req > out'.got /\ \E i \in 1..Len(log') : log'[i] = inq'[j].req
      <4>1. CASE j \in 1..Len(inq)
        <5>1. inq'[j] = inq[j]
          BY <2>6, <4>1
        <5>2. PICK i \in 1..Len(log) : log[i] = inq[j].req
          BY <3>2, <4>1, <5>1 DEF OrderInv, ReplyInv
        <5>3. i \in 1..Len(log') /\ log'[i] = inq'[j].req
          BY <1>0, <2>5, <5>1, <5>2
        <5>4. inq'[j].req > out'.got
          BY <2>1, <3>2, <4>1, <5>1 DEF OrderInv, ReplyInv
        <5> QED BY <5>3, <5>4
      <4>2. CASE j = Len(inq) + 1
        <5>1. inq'[j].req = q
          BY <2>3, <2>6, <4>2
        <5>2. Len(log) + 1 \in 1..Len(log') /\ log'[Len(log) + 1] = q
          BY <1>0, <2>5
        <5> QED BY <2>1, <2>4, <5>1, <5>2
      <4> QED BY <3>1, <4>1, <4>2
    <3>3. ASSUME NEW j \in 1..Len(inq'), NEW k \in 1..Len(inq'),
                 j < k, ~inq'[j].more, ~inq'[k].more
          PROVE  inq'[j].req < inq'[k].req
      <4>1. j \in 1..Len(inq) /\ inq'[j] = inq[j]
        BY <1>0, <2>6, <3>3
      <4>2. CASE k \in 1..Len(inq)
        BY <2>6, <3>3, <4>1, <4>2 DEF OrderInv, ReplyInv
      <4>3. CASE k = Len(inq) + 1
        <5>1. PICK i \in 1..Len(log) : log[i] = inq[j].req
          BY <3>3, <4>1 DEF OrderInv, ReplyInv
        <5> QED BY <2>3, <2>4, <2>6, <4>1, <4>3, <5>1
      <4> QED BY <3>1, <4>2, <4>3
    <3> QED BY <3>2, <3>3 DEF ReplyInv
  <2> QED BY <2>7, <2>8, <2>9 DEF OrderInv
<1>6. CASE AskForTime
  <2> DEFINE m == [req |-> Head(devq).req, seq |-> Head(devq).seq, more |-> TRUE]
  <2>1. n' = n /\ out' = out /\ devq' = devq /\ log' = log /\ inq' = Append(inq, m)
    BY <1>6 DEF AskForTime, host
  <2>2. Head(devq) \in Request
    BY <1>0, <1>6, TailFacts DEF AskForTime
  <2>3. m \in Message /\ m.more
    BY <2>2 DEF Request, Message
  <2>4. /\ Len(inq') = Len(inq) + 1 /\ inq'[Len(inq) + 1].more
        /\ \A i \in 1..Len(inq) : inq'[i] = inq[i]
    BY <1>0, <2>1, <2>3, AppendFacts
  <2>5. \A j \in 1..Len(inq') : ~inq'[j].more => j \in 1..Len(inq) /\ inq'[j] = inq[j]
    <3> SUFFICES ASSUME NEW j \in 1..Len(inq'), ~inq'[j].more
                 PROVE  j \in 1..Len(inq) /\ inq'[j] = inq[j]
      OBVIOUS
    <3>1. j # Len(inq) + 1
      BY <2>4
    <3>2. Len(inq) \in Nat /\ Len(inq') = Len(inq) + 1
      BY <1>0, <2>4
    <3>3. j \in 1..Len(inq)
      BY <3>1, <3>2
    <3> QED BY <2>4, <3>3
  <2>6. ReplyInv'
    BY <2>1, <2>5 DEF OrderInv, ReplyInv
  <2> QED BY <2>1, <2>6 DEF OrderInv, LogInv, QueueInv
<1>7. CASE UNCHANGED vars
  BY <1>7 DEF vars, host, device, OrderInv, LogInv, QueueInv, ReplyInv
<1> QED BY <1>1, <1>2, <1>3, <1>4, <1>5, <1>6, <1>7 DEF Next, Host, Device

(* Every step of a transport is a step of RegisterAccess, or none. *)
LEMMA AccessStep ==
    TypeOK /\ OrderInv /\ [Next]_vars => [Access!Next]_(Access!rvars)
<1> SUFFICES ASSUME TypeOK, OrderInv, [Next]_vars PROVE [Access!Next]_(Access!rvars)
  OBVIOUS
<1>1. CASE BulkWrite
  <2>1. n' = n + 1 /\ log' = log /\ out'.got = out.got
    BY <1>1 DEF BulkWrite, Return, TypeOK
  <2> QED BY <2>1 DEF Access!Next, Access!Issue
<1>2. CASE BulkReadTimeout \/ openpcd_reopen \/ AskForTime \/ UNCHANGED vars
  <2>1. n' = n /\ log' = log /\ out'.got = out.got
    BY <1>2 DEF BulkReadTimeout, openpcd_reopen, AskForTime, vars, Return, TypeOK, host, device
  <2> QED BY <2>1 DEF Access!rvars
<1>3. CASE BulkRead
  <2>1. n' = n /\ log' = log /\ inq # <<>> /\ inq \in Seq(Message)
    BY <1>3 DEF BulkRead, TypeOK
  <2>2. Head(inq) = inq[1] /\ 1 \in 1..Len(inq)
    BY <2>1, TailFacts
  <2>3. out'.got = out.got \/ (~inq[1].more /\ out'.got = inq[1].req)
    BY <1>3, <2>2 DEF BulkRead, Return, TypeOK
  <2>4. CASE out'.got = out.got
    BY <2>1, <2>4 DEF Access!rvars
  <2>5. CASE ~inq[1].more /\ out'.got = inq[1].req
    <3>1. PICK i \in 1..Len(log) : log[i] = inq[1].req
      BY <2>2, <2>5 DEF OrderInv, ReplyInv
    <3>2. log[i] > out.got /\ out'.got = log[i]
      BY <2>2, <2>5, <3>1 DEF OrderInv, ReplyInv
    <3> QED BY <2>1, <3>2 DEF Access!Next, Access!HandOver
  <2> QED BY <2>3, <2>4, <2>5
<1>4. CASE Execute
  <2>1. /\ n' = n /\ out' = out /\ devq # <<>> /\ devq \in Seq(Request)
        /\ log' = Append(log, Head(devq).req)
    BY <1>4 DEF Execute, host, TypeOK
  <2>2. Head(devq) = devq[1] /\ 1 \in 1..Len(devq)
    BY <2>1, TailFacts
  <2>3. devq[1].req \in 1..n /\ \A i \in 1..Len(log) : log[i] < devq[1].req
    BY <2>2 DEF OrderInv, QueueInv
  <2> QED BY <2>1, <2>2, <2>3 DEF Access!Next, Access!Execute
<1> QED BY <1>1, <1>2, <1>3, <1>4 DEF Next, Host, Device

(* AccessSpec: the register accesses of both transports are executed in    *)
(* order and at most once, and their replies taken in order and at most    *)
(* once, for any number of abandoned accesses.                             *)
THEOREM AccessSpecHolds == Spec => AccessSpec
<1>1. Init => OrderInv /\ Access!Init
  BY DEF Init, OrderInv, LogInv, QueueInv, ReplyInv, Access!Init
<1> QED BY <1>1, OrderStep, AccessStep, TypeCorrect, PTL DEF Spec, AccessSpec, Access!Spec
=============================================================================
