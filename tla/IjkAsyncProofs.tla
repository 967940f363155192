--------------------------- MODULE IjkAsyncProofs ---------------------------
(***************************************************************************)
(* For a file of any length, any capacities and any number of failures of  *)
(* the network: the ring of ijkasync.c holds the file, and the protocol is *)
(* to its reader the file at a position.                                   *)
(***************************************************************************)
EXTENDS IjkAsync, SequenceTheorems, TLAPS

\* Who calls the hook, and what for.
Calls ==
    /\ main.at \in {"new", "opening"} => bg.at = "none"
    /\ hook.call = "open" => main.at = "opening"
    /\ hook.call = "read" => bg.at = "filling" /\ hook.arg = bg.left
    /\ hook.call = "seek" => bg.at = "seeking" /\ hook.arg \in Positions
    /\ bg.at = "filling" => ~c.eof

\* A seek that is asked for or under way has a reader that waits for it.
SeekPending ==
    ~Aborting /\ (c.seekRequest \/ bg.at = "seeking") =>
        main.at \in {"seekwait", "seek"} /\ ~c.seekDone /\ c.seekRequest

\* What a seek of the hook returns is where the hook is, if it does not lie.
SeekAnswer ==
    bg.at = "seeking" /\ hook.call = "none" /\ hook.ret >= 0 =>
        hook.ret <= hook.pos /\ (~hook.lied => hook.ret = hook.pos)

\* Bytes the hook has read and the ring has not got yet.
Pending == IF bg.at = "filling" /\ hook.call = "none" /\ hook.ret > 0 THEN hook.ret ELSE 0

\* They are of the file, and the ring has room for them.
Room ==
    /\ Pending <= hook.pos /\ Pending <= bg.left
    /\ Len(ring) + (IF bg.at = "filling" THEN bg.left ELSE 0) <= Forwards + Backwards

\* The hook goes on where the ring ends, or beyond it when a seek lied, unless the
\* background thread has stopped reading.
HookAhead ==
    ~Aborting /\ bg.at # "seeking" /\ ~c.eof =>
        /\ Base + Len(ring) + Pending <= hook.pos
        /\ ~hook.lied => Base + Len(ring) + Pending = hook.pos

\* The ring does not reach beyond the end of the file.
RingEnds == ~Aborting /\ bg.at # "seeking" => Base + Len(ring) <= FileSize

\* A call under way has no bytes of an earlier read.
NoData == main.at \in {"read", "readwait", "seek", "seekwait"} => main.data = <<>>

\* A read, or the part of a file a seek skips, is not done before it returns.
Wanting == main.at \in {"read", "readwait"} => main.got < main.want

Inv == /\ TypeOK /\ Calls /\ SeekPending /\ SeekAnswer /\ Room
       /\ HookAhead /\ RingEnds /\ RingInPlace /\ NoData /\ Wanting

-----------------------------------------------------------------------------
(* The hook.                                                               *)

\* Returning keeps the types.
LEMMA ReturnedType ==
    ASSUME NEW h \in Hooks, NEW r \in Positions \cup Errors
    PROVE  /\ Returned(h, r) \in Hooks
           /\ Returned(h, r).call = "none" /\ Returned(h, r).ret = r
           /\ Returned(h, r).pos = h.pos /\ Returned(h, r).lied = h.lied
           /\ Returned(h, r).err = h.err /\ Returned(h, r).declined = h.declined
BY DEF Returned, Hooks

\* So does the end of a read.
LEMMA ReadReturnedType ==
    ASSUME NEW h \in Hooks, NEW r \in Positions \cup Errors
    PROVE  /\ ReadReturned(h, r) \in Hooks
           /\ ReadReturned(h, r).call = "none" /\ ReadReturned(h, r).ret = r
           /\ ReadReturned(h, r).pos = h.pos /\ ReadReturned(h, r).lied = h.lied
           /\ ReadReturned(h, r).declined = h.declined
<1>1. Returned(h, r) \in Hooks /\ (IF r <= 0 THEN r ELSE Returned(h, r).err) \in Errors \cup {0}
  BY ReturnedType DEF Positions, Hooks
<1>2. QED BY <1>1, ReturnedType DEF ReadReturned, Hooks

\* A read goes on or returns.
LEMMA AfterReadType ==
    ASSUME NEW h \in Hooks, NEW r \in Positions \cup Errors
    PROVE  /\ AfterRead(h, r) \in Hooks
           /\ AfterRead(h, r).pos = h.pos /\ AfterRead(h, r).lied = h.lied
           /\ AfterRead(h, r).declined = h.declined
           /\ r < 0 /\ r # Exit /\ AfterRead(h, r).call # h.call => h.pos = FileSize
           /\ \/ AfterRead(h, r).call = h.call /\ AfterRead(h, r).arg = h.arg /\ r < 0
              \/ AfterRead(h, r).call = "none" /\ AfterRead(h, r).ret = r
<1>1. CASE r < 0 /\ r # Exit /\ h.pos < FileSize
  BY <1>1 DEF AfterRead, Hooks
<1>2. CASE ~(r < 0 /\ r # Exit /\ h.pos < FileSize)
  <2>1. h.pos \in Positions /\ (~(h.pos < FileSize) => h.pos = FileSize)
    BY FileSizeAssumption DEF Hooks, Positions
  <2>2. QED BY <1>2, <2>1, ReadReturnedType DEF AfterRead
<1>3. QED BY <1>1, <1>2

\* What a step of the hook may do to those that called it.
HookDid ==
    /\ HookType'
    /\ interrupted' = interrupted
    /\ hook.call # "none"
    /\ hook'.call \in {"none", hook.call}
    /\ hook'.call = hook.call => hook'.arg = hook.arg
    /\ hook.call # "seek" => hook'.lied = hook.lied
    /\ hook.call = "open" => hook'.pos = hook.pos
    /\ hook.call = "read" /\ hook'.call = "read" => hook'.pos = hook.pos
    /\ hook.call = "read" /\ hook'.call = "none" =>
         /\ hook'.ret <= hook.arg
         /\ hook'.pos = hook.pos + (IF hook'.ret > 0 THEN hook'.ret ELSE 0)
    /\ hook.call = "seek" /\ hook'.call = "none" /\ hook'.ret >= 0 =>
         hook'.ret <= hook'.pos /\ (~hook'.lied => hook'.ret = hook'.pos)

LEMMA HookEffect ==
    ASSUME HookType, hook.call = "seek" => hook.arg \in Positions, HookStep
    PROVE  HookDid
<1> USE FileSizeAssumption, MaxFaultsAssumption
<1> DEFINE Num == Positions \cup Errors
<1>0. /\ hook \in Hooks /\ faults \in 0 .. MaxFaults /\ interrupted \in BOOLEAN
      /\ 0 \in Num /\ Errors \subseteq Num /\ hook.pos \in Positions /\ hook.arg \in Nat
      /\ hook.pos \in Int /\ hook.pos >= 0
      /\ \A e \in Errors : e \in Int /\ e < 0
      /\ Positions \subseteq Nat
  BY DEF HookType, Hooks, Positions, Errors, Eof, Eio, Exit, Einval
<1>1. CASE TryRead
  <2> USE <1>1
  <2>0. hook.call = "read" /\ interrupted' = interrupted
    BY DEF TryRead
  <2>1. CASE hook.err < 0 /\ hook' = AfterRead(hook, hook.err) /\ UNCHANGED faults
    <3>1. hook.err \in Num /\ hook.err < 0 /\ hook.err \in Int
      BY <1>0, <2>1 DEF Hooks
    <3>2. /\ hook' \in Hooks /\ hook'.pos = hook.pos /\ hook'.lied = hook.lied
          /\ \/ hook'.call = hook.call /\ hook'.arg = hook.arg
             \/ hook'.call = "none" /\ hook'.ret = hook.err
      BY <1>0, <2>1, <3>1, AfterReadType
    <3>3. hook'.ret = hook.err => hook'.ret <= hook.arg /\ ~(hook'.ret > 0)
      BY <1>0, <3>1
    <3>4. QED BY <1>0, <2>0, <2>1, <3>2, <3>3 DEF HookDid, HookType
  <2>2. CASE /\ hook.err = 0
             /\ \E o \in InnerRead(IF hook.arg < FileSize - hook.pos THEN hook.arg ELSE FileSize - hook.pos) :
                /\ hook' = AfterRead([hook EXCEPT !.pos = IF o.r > 0 THEN @ + o.r ELSE @,
                                                  !.err = IF o.r > 0 THEN @ ELSE o.r], o.r)
                /\ faults' = faults - o.cost
    <3> DEFINE n == IF hook.arg < FileSize - hook.pos THEN hook.arg ELSE FileSize - hook.pos
    <3>1. PICK o \in InnerRead(n) :
                /\ hook' = AfterRead([hook EXCEPT !.pos = IF o.r > 0 THEN @ + o.r ELSE @,
                                                  !.err = IF o.r > 0 THEN @ ELSE o.r], o.r)
                /\ faults' = faults - o.cost
      BY <2>2
    <3> DEFINE h == [hook EXCEPT !.pos = IF o.r > 0 THEN @ + o.r ELSE @,
                                 !.err = IF o.r > 0 THEN @ ELSE o.r]
    <3>2. n \in Nat /\ n <= hook.arg /\ hook.pos + n <= FileSize
      BY <1>0 DEF Positions
    <3>0. \/ o.r \in 1 .. n /\ o.cost = 0
          \/ o.r = Eof /\ o.cost = 0
          \/ o.r = Exit /\ o.cost = 0
          \/ o.r = Eio /\ o.cost = 1 /\ faults > 0
      <4>1. CASE o \in [r : 1 .. n, cost : {0}]
        BY <4>1
      <4>2. CASE /\ o \in [r : {Eof, Eio, Exit}, cost : {0, 1}]
                 /\ CASE o.r = Eof  -> hook.pos = FileSize /\ o.cost = 0
                      [] o.r = Exit -> interrupted /\ o.cost = 0
                      [] o.r = Eio  -> o.cost = 1 /\ faults > 0
        <5>1. o.r \in {Eof, Eio, Exit} BY <4>2
        <5>2. QED BY <4>2, <5>1 DEF Eof, Eio, Exit
      <4>3. QED BY <3>1, <4>1, <4>2 DEF InnerRead
    <3>3. o.r \in Int /\ (o.r > 0 => o.r <= n) /\ (o.r <= 0 => o.r \in Errors) /\ o.r # 0
      BY <3>0, <3>2 DEF Errors, Eof, Eio, Exit, Einval
    <3>4. faults' \in 0 .. MaxFaults
      BY <1>0, <3>0, <3>1
    <3>5. o.r \in Num
      BY <1>0, <3>2, <3>3 DEF Positions
    <3>6. /\ h \in Hooks /\ h.call = hook.call /\ h.arg = hook.arg /\ h.lied = hook.lied
          /\ h.pos = hook.pos + (IF o.r > 0 THEN o.r ELSE 0)
      <4> DEFINE p == IF o.r > 0 THEN hook.pos + o.r ELSE hook.pos
      <4> DEFINE e == IF o.r > 0 THEN hook.err ELSE o.r
      <4>1. p \in Positions /\ p = hook.pos + (IF o.r > 0 THEN o.r ELSE 0)
        BY <1>0, <3>2, <3>3 DEF Positions
      <4>2. e \in Errors \cup {0}
        BY <1>0, <3>3, <2>2
      <4>3. h = [hook EXCEPT !.pos = p, !.err = e]
        OBVIOUS
      <4> HIDE DEF h, p, e
      <4>4. QED BY <1>0, <4>1, <4>2, <4>3 DEF Hooks
    <3>7. hook' = AfterRead(h, o.r)
      BY <3>1
    <3> HIDE DEF h, n
    <3>8. /\ hook' \in Hooks /\ hook'.pos = h.pos /\ hook'.lied = h.lied
          /\ \/ hook'.call = h.call /\ hook'.arg = h.arg /\ o.r < 0
             \/ hook'.call = "none" /\ hook'.ret = o.r
      BY <3>5, <3>6, <3>7, AfterReadType
    <3>9. hook'.ret = o.r => hook'.ret <= hook.arg /\ hook'.pos = hook.pos + (IF hook'.ret > 0 THEN hook'.ret ELSE 0)
      BY <1>0, <3>2, <3>3, <3>6, <3>8
    <3>10. hook.pos \in Int /\ (o.r < 0 => hook'.pos = hook.pos)
      BY <1>0, <3>3, <3>6, <3>8
    <3>11. QED BY <1>0, <2>0, <3>4, <3>6, <3>8, <3>9, <3>10 DEF HookDid, HookType
  <2>3. QED BY <2>1, <2>2 DEF TryRead
<1>2. CASE Reconnect
  <2> USE <1>2
  <2>0. hook.call \in {"open", "read"} /\ interrupted' = interrupted
    BY DEF Reconnect
  <2>1. CASE /\ hook' = IF hook.call = "open" THEN [Returned(hook, 0) EXCEPT !.err = 0]
                                              ELSE [hook EXCEPT !.err = 0, !.step = "try"]
             /\ UNCHANGED faults
    <3>1. CASE hook.call = "open"
      <4>1. Returned(hook, 0) \in Hooks /\ Returned(hook, 0).call = "none"
              /\ Returned(hook, 0).pos = hook.pos /\ Returned(hook, 0).lied = hook.lied
        BY <1>0, ReturnedType
      <4>2. QED BY <1>0, <2>0, <2>1, <3>1, <4>1 DEF HookDid, HookType, Hooks
    <3>2. CASE hook.call = "read"
      BY <1>0, <2>0, <2>1, <3>2 DEF HookDid, HookType, Hooks
    <3>3. QED BY <2>0, <3>1, <3>2
  <2>2. CASE faults > 0 /\ faults' = faults - 1 /\ hook' = [hook EXCEPT !.step = "inject"]
    BY <1>0, <2>0, <2>2 DEF HookDid, HookType, Hooks
  <2>3. CASE /\ hook' = IF hook.call = "open" THEN Returned(hook, Exit) ELSE ReadReturned(hook, Exit)
             /\ UNCHANGED faults
    <3>1. Exit \in Num /\ Exit < 0 /\ Exit \in Int
      BY DEF Errors, Exit
    <3>2. /\ hook' \in Hooks /\ hook'.call = "none" /\ hook'.ret = Exit
          /\ hook'.pos = hook.pos /\ hook'.lied = hook.lied
      BY <1>0, <2>0, <2>3, <3>1, ReturnedType, ReadReturnedType, ZenonT(30)
    <3>3. QED BY <1>0, <2>0, <2>3, <3>1, <3>2 DEF HookDid, HookType
  <2>4. QED BY <2>1, <2>2, <2>3 DEF Reconnect
<1>3. CASE TrySeek
  <2> USE <1>3
  <2>0. hook.call = "seek" /\ interrupted' = interrupted /\ hook.arg \in Positions
    BY DEF TrySeek
  <2>1. CASE /\ hook' = [Returned(hook, hook.arg) EXCEPT !.pos = hook.arg, !.err = 0, !.lied = FALSE]
             /\ UNCHANGED faults
    <3>1. Returned(hook, hook.arg) \in Hooks /\ Returned(hook, hook.arg).call = "none"
            /\ Returned(hook, hook.arg).ret = hook.arg
      BY <1>0, <2>0, ReturnedType
    <3>2. /\ hook' \in Hooks /\ hook'.call = "none" /\ hook'.ret = hook.arg /\ hook'.pos = hook.arg
      BY <2>0, <2>1, <3>1 DEF Hooks
    <3>3. QED BY <1>0, <2>0, <2>1, <3>2 DEF HookDid, HookType
  <2>2. CASE faults > 0 /\ faults' = faults - 1 /\ hook' = [hook EXCEPT !.err = Eio, !.step = "inject"]
    <3>1. Eio \in Errors \cup {0}
      BY DEF Errors
    <3>2. /\ hook' \in Hooks /\ hook'.call = hook.call /\ hook'.arg = hook.arg
          /\ hook'.pos = hook.pos
      BY <1>0, <2>2, <3>1 DEF Hooks
    <3>3. QED BY <1>0, <2>0, <2>2, <3>2 DEF HookDid, HookType
  <2>3. ASSUME NEW e \in Errors, faults' \in 0 .. MaxFaults,
               hook' = [Returned(hook, 0) EXCEPT !.err = e, !.lied = TRUE]
        PROVE  HookDid
    <3>1. Returned(hook, 0) \in Hooks /\ Returned(hook, 0).call = "none"
            /\ Returned(hook, 0).ret = 0 /\ Returned(hook, 0).pos = hook.pos
      BY <1>0, ReturnedType
    <3>2. /\ hook' \in Hooks /\ hook'.call = "none" /\ hook'.ret = 0
          /\ hook'.pos = hook.pos /\ hook'.lied
      BY <2>3, <3>1 DEF Hooks
    <3>3. QED BY <1>0, <2>0, <2>3, <3>2 DEF HookDid, HookType
  <2>4. QED BY <1>0, <2>0, <2>1, <2>2, <2>3 DEF TrySeek, Errors
<1>4. CASE Ask \/ Handled
  BY <1>0, <1>4 DEF Ask, Handled, HookDid, HookType, Hooks
<1>5. CASE NotHandled
  <2>1. CASE hook.call = "open"
    <3>1. hook' = Returned(hook, Eio) /\ Eio \in Num
      BY <1>5, <2>1 DEF NotHandled, Errors
    <3>2. QED BY <1>0, <1>5, <2>1, <3>1, ReturnedType DEF NotHandled, HookDid, HookType
  <2>2. CASE hook.call = "read"
    <3>1. /\ ReadReturned(hook, 0) \in Hooks /\ ReadReturned(hook, 0).call = "none"
          /\ ReadReturned(hook, 0).ret = 0 /\ ReadReturned(hook, 0).pos = hook.pos
          /\ ReadReturned(hook, 0).lied = hook.lied
      BY <1>0, ReadReturnedType
    <3>2. hook' = [ReadReturned(hook, 0) EXCEPT !.declined = TRUE]
      BY <1>5, <2>2 DEF NotHandled
    <3>3. /\ hook' \in Hooks /\ hook'.call = "none" /\ hook'.ret = 0
          /\ hook'.pos = hook.pos /\ hook'.lied = hook.lied
      BY <3>1, <3>2 DEF Hooks
    <3>4. QED BY <1>0, <1>5, <2>2, <3>3 DEF NotHandled, HookDid, HookType
  <2>3. CASE hook.call = "seek"
    <3>1. Returned(hook, 0) \in Hooks /\ Returned(hook, 0).call = "none"
            /\ Returned(hook, 0).ret = 0 /\ Returned(hook, 0).pos = hook.pos
      BY <1>0, ReturnedType
    <3>2. hook' = [Returned(hook, 0) EXCEPT !.lied = TRUE]
      BY <1>5, <2>3 DEF NotHandled
    <3>3. /\ hook' \in Hooks /\ hook'.call = "none" /\ hook'.ret = 0
          /\ hook'.pos = hook.pos /\ hook'.lied
      BY <3>1, <3>2 DEF Hooks
    <3>4. QED BY <1>0, <1>5, <2>3, <3>3 DEF NotHandled, HookDid, HookType
  <2>4. QED BY <1>0, <1>5, <2>1, <2>2, <2>3 DEF NotHandled, Hooks
<1>6. CASE Refused
  <2>1. Exit \in Num /\ Exit < 0 /\ Exit \in Int
    BY DEF Errors, Exit
  <2>2. /\ hook' \in Hooks /\ hook'.call = "none" /\ hook'.ret = Exit
        /\ hook'.pos = hook.pos /\ hook'.lied = hook.lied
    BY <1>0, <1>6, <2>1, ReturnedType, ReadReturnedType, ZenonT(30) DEF Refused
  <2>3. QED BY <1>0, <1>6, <2>1, <2>2 DEF Refused, HookDid, HookType
<1>7. QED BY <1>1, <1>2, <1>3, <1>4, <1>5, <1>6 DEF HookStep

-----------------------------------------------------------------------------
(* Types of what the actions are made of.                                  *)

\* The fields as numbers and truth values.
LEMMA Fields ==
    ASSUME TypeOK
    PROVE  /\ hook \in Hooks /\ c \in Contexts /\ main \in Mains /\ bg \in Tasks
           /\ faults \in 0 .. MaxFaults /\ interrupted \in BOOLEAN
           /\ ring \in Seq(0 .. FileSize - 1) /\ Len(ring) \in Nat
           /\ Len(ring) <= Forwards + Backwards
           /\ readPos \in Nat /\ readPos <= Len(ring) /\ readPos <= Backwards
           /\ FileSize \in Nat /\ Forwards \in Nat /\ Backwards \in Nat
           /\ c.pos \in Nat /\ c.pos <= FileSize /\ c.seekRet \in Int /\ c.seekRet <= FileSize
           /\ c.seekDone \in BOOLEAN /\ c.seekRequest \in BOOLEAN /\ c.eof \in BOOLEAN
           /\ hook.pos \in Nat /\ hook.pos <= FileSize /\ hook.ret \in Int /\ hook.ret <= FileSize
           /\ hook.lied \in BOOLEAN /\ hook.arg \in Nat
           /\ bg.left \in Nat /\ main.want \in Nat /\ main.got \in Nat
           /\ Base \in Int
<1>1. /\ hook \in Hooks /\ c \in Contexts /\ main \in Mains /\ bg \in Tasks
      /\ faults \in 0 .. MaxFaults /\ interrupted \in BOOLEAN
      /\ ring \in Seq(0 .. FileSize - 1) /\ Len(ring) \in Nat
      /\ Len(ring) <= Forwards + Backwards
      /\ FileSize \in Nat /\ Forwards \in Nat /\ Backwards \in Nat
      /\ readPos \in Nat /\ readPos <= Len(ring) /\ readPos <= Backwards
  BY CapacityAssumption, FileSizeAssumption DEF TypeOK, HookType
<1>2. /\ c.pos \in Positions /\ c.seekRet \in Positions \cup Errors
      /\ c.seekDone \in BOOLEAN /\ c.seekRequest \in BOOLEAN /\ c.eof \in BOOLEAN
  BY <1>1 DEF Contexts
<1>3. /\ hook.pos \in Positions /\ hook.ret \in Positions \cup Errors
      /\ hook.lied \in BOOLEAN /\ hook.arg \in Nat
  BY <1>1 DEF Hooks
<1>4. bg.left \in Nat /\ main.want \in Nat /\ main.got \in Nat
  BY <1>1 DEF Tasks, Mains
<1>5. \A n \in Positions \cup Errors : n \in Int /\ n <= FileSize
  BY <1>1 DEF Positions, Errors, Eof, Eio, Exit, Einval
<1>6. \A n \in Positions : n \in Nat
  BY <1>1 DEF Positions
<1>7. Base \in Int
  BY <1>1, <1>2, <1>5, <1>6 DEF Base
<1>8. QED BY <1>1, <1>2, <1>3, <1>4, <1>5, <1>6, <1>7

\* The numbers alone.
LEMMA Sizes ==
    ASSUME TypeOK
    PROVE  /\ Len(ring) \in Nat /\ Len(ring) <= Forwards + Backwards
           /\ readPos \in Nat /\ readPos <= Len(ring) /\ readPos <= Backwards
           /\ FileSize \in Nat /\ Forwards \in Nat /\ Backwards \in Nat
           /\ c.pos \in Nat /\ c.pos <= FileSize
           /\ hook.pos \in Nat /\ hook.pos <= FileSize /\ hook.ret \in Int /\ hook.ret <= FileSize
           /\ bg.left \in Nat /\ Base \in Int
BY Fields

\* The records alone.
LEMMA Records ==
    ASSUME TypeOK
    PROVE  hook \in Hooks /\ c \in Contexts /\ main \in Mains /\ bg \in Tasks
BY DEF TypeOK, HookType

LEMMA Numbers == Exit \in Int /\ Eof \in Int /\ Einval \in Int /\ Eio \in Int
BY DEF Eof, Eio, Exit, Einval

\* The reader stops, with an answer and without bytes.
LEMMA Idle ==
    ASSUME main \in Mains, NEW r \in Int
    PROVE  LET m == [main EXCEPT !.at = "idle", !.ret = r]
               n == [main EXCEPT !.ret = r, !.data = <<>>]
               w == [main EXCEPT !.at = "seekwait", !.data = <<>>]
           IN  /\ m \in Mains /\ m.at = "idle" /\ m.data = main.data
               /\ n \in Mains /\ n.at = main.at /\ n.data = <<>>
               /\ w \in Mains /\ w.at = "seekwait" /\ w.data = <<>>
<1>1. <<>> \in Seq(0 .. FileSize - 1) OBVIOUS
<1>2. QED BY <1>1 DEF Mains

\* The reader begins to read n bytes, or to skip them.
LEMMA Begins ==
    ASSUME main \in Mains, NEW n \in Nat, NEW b \in BOOLEAN
    PROVE  LET m == [main EXCEPT !.at = "read", !.want = n, !.got = 0, !.complete = b, !.data = <<>>]
           IN  m \in Mains /\ m.at = "read" /\ m.want = n /\ m.got = 0 /\ m.data = <<>>
<1> DEFINE m1 == [main EXCEPT !.at = "read", !.want = n, !.got = 0]
<1> DEFINE m2 == [m1 EXCEPT !.complete = b, !.data = <<>>]
<1>1. <<>> \in Seq(0 .. FileSize - 1) OBVIOUS
<1>2. m1 \in Mains /\ m1.at = "read" /\ m1.want = n /\ m1.got = 0
  BY DEF Mains
<1>3. [main EXCEPT !.at = "read", !.want = n, !.got = 0, !.complete = b, !.data = <<>>] = m2
  OBVIOUS
<1> HIDE DEF m1
<1>4. m2 \in Mains /\ m2.at = m1.at /\ m2.want = m1.want /\ m2.got = m1.got /\ m2.data = <<>>
  BY <1>1, <1>2 DEF Mains
<1> HIDE DEF m2
<1>5. QED BY <1>2, <1>3, <1>4

\* A read returns.
LEMMA Returns ==
    ASSUME main \in Mains, NEW r \in Int, NEW d \in Seq(0 .. FileSize - 1), ReadReturns(r, d)
    PROVE  main' \in Mains /\ main'.at = "idle" /\ main'.data = d /\ main'.ret = r
<1> DEFINE m1 == [main EXCEPT !.at = "idle", !.want = 0, !.got = 0]
<1> DEFINE m2 == [m1 EXCEPT !.complete = FALSE, !.ret = r, !.data = d]
<1>1. m1 \in Mains /\ m1.at = "idle"
  BY DEF Mains
<1>2. main' = m2
  BY DEF ReadReturns
<1> HIDE DEF m1
<1>3. m2 \in Mains /\ m2.at = m1.at /\ m2.data = d /\ m2.ret = r
  BY <1>1 DEF Mains
<1> HIDE DEF m2
<1>4. QED BY <1>1, <1>2, <1>3

\* Waking the reader changes where it is, not what it is doing.
LEMMA WakeMainType ==
    ASSUME main \in Mains
    PROVE  /\ WakeMain \in Mains /\ WakeMain.data = main.data
           /\ WakeMain.want = main.want /\ WakeMain.got = main.got
           /\ WakeMain.ret = main.ret /\ (WakeMain.at = "idle" <=> main.at = "idle")
           /\ WakeMain.at \in {"seek", "seekwait"} <=> main.at \in {"seek", "seekwait"}
           /\ WakeMain.at \in {"read", "readwait"} <=> main.at \in {"read", "readwait"}
           /\ WakeMain.at \in {"new", "opening"} <=> main.at \in {"new", "opening"}
           /\ WakeMain.at = "opening" <=> main.at = "opening"
<1>1. CASE main.at = "readwait"
  <2>1. WakeMain = [main EXCEPT !.at = "read"]
    BY <1>1 DEF WakeMain
  <2>2. QED BY <1>1, <2>1 DEF Mains
<1>2. CASE main.at = "seekwait"
  <2>1. WakeMain = [main EXCEPT !.at = "seek"]
    BY <1>2 DEF WakeMain
  <2>2. QED BY <1>2, <2>1 DEF Mains
<1>3. CASE main.at # "readwait" /\ main.at # "seekwait"
  <2>1. WakeMain = main
    BY <1>3 DEF WakeMain
  <2>2. QED BY <2>1
<1>4. QED BY <1>1, <1>2, <1>3

\* Waking the background thread, likewise.
LEMMA WakeBackgroundType ==
    ASSUME bg \in Tasks
    PROVE  /\ WakeBackground \in Tasks /\ WakeBackground.left = bg.left
           /\ WakeBackground.got = bg.got
           /\ \/ WakeBackground.at = bg.at
              \/ bg.at = "asleep" /\ WakeBackground.at = "top"
BY DEF WakeBackground, Tasks

\* What is left of a sequence behind its first m elements.
LEMMA Behind ==
    ASSUME NEW S, NEW s \in Seq(S), NEW m \in 0 .. Len(s), NEW n \in m .. Len(s)
    PROVE  /\ SubSeq(s, m + 1, n) \in Seq(S)
           /\ Len(SubSeq(s, m + 1, n)) = n - m
           /\ \A i \in 1 .. n - m : SubSeq(s, m + 1, n)[i] = s[m + i]
OBVIOUS

-----------------------------------------------------------------------------
(* The invariant is kept.                                                  *)

\* A step that leaves the hook and the ring alone and does not move the place the
\* ring has in the file.
LEMMA Quiet ==
    ASSUME Inv, UNCHANGED <<hook, faults, ring>>,
           readPos' \in 0 .. Backwards, readPos' <= Len(ring),
           interrupted' \in BOOLEAN, interrupted => interrupted',
           main' \in Mains, bg' \in Tasks, c' \in Contexts,
           main'.at \in {"new", "opening"} => bg'.at = "none",
           hook.call = "open" => main'.at = "opening",
           bg'.at = bg.at \/ {bg.at, bg'.at} \cap {"filling", "seeking"} = {},
           bg'.at = "filling" => bg'.left = bg.left /\ c'.eof = c.eof,
           c.eof => c'.eof,
           ~interrupted' => Base' = Base,
           SeekPending', NoData', Wanting'
    PROVE  Inv'
<1> USE DEF Inv
<1>1. TypeOK'
  BY Fields DEF TypeOK, HookType
<1>2. /\ bg'.at = "filling" <=> bg.at = "filling"
      /\ bg'.at = "seeking" <=> bg.at = "seeking"
  OBVIOUS
<1>3. Pending' = Pending
  BY <1>2 DEF Pending
<1>4. Calls'
  BY <1>2 DEF Calls
<1>5. SeekAnswer'
  BY <1>2 DEF SeekAnswer
<1>6. Room'
  <2>1. Pending <= hook.pos
    BY DEF Room
  <2>2. CASE bg.at = "filling"
    BY <1>2, <1>3, <2>2 DEF Room
  <2>3. CASE bg.at # "filling"
    <3>1. Pending' = 0 /\ bg'.left \in Nat
      BY <1>2, <2>3 DEF Pending, Tasks
    <3>2. QED BY <1>2, <1>3, <2>1, <2>3, <3>1, Sizes DEF Room
  <2>4. QED BY <2>2, <2>3
<1>7. HookAhead' /\ RingEnds' /\ RingInPlace'
  <2>1. CASE interrupted'
    BY <2>1 DEF HookAhead, RingEnds, RingInPlace, Aborting
  <2>2. CASE ~interrupted'
    <3>1. ~interrupted /\ Base' = Base /\ (~c'.eof => ~c.eof)
      BY <2>2
    <3>2. HookAhead'
      BY <1>2, <1>3, <2>2, <3>1 DEF HookAhead, Aborting
    <3>3. RingEnds' /\ RingInPlace'
      BY <1>2, <2>2, <3>1 DEF RingEnds, RingInPlace, Aborting
    <3>4. QED BY <3>2, <3>3
  <2>3. QED BY <2>1, <2>2, Fields DEF TypeOK, HookType
<1>8. QED BY <1>1, <1>4, <1>5, <1>6, <1>7

\* A step in which only the reader moves.
LEMMA MainOnly ==
    ASSUME Inv, UNCHANGED <<hook, faults, interrupted, ring, readPos, c, bg>>, main' \in Mains,
           main.at # "new", main'.at \notin {"new", "opening"},
           main.at = "opening" => hook.call # "open",
           main'.at = main.at \/ {main.at, main'.at} \cap {"seek", "seekwait"} = {},
           NoData', Wanting'
    PROVE  Inv'
<1> USE DEF Inv
<1>1. Base' = Base
  BY DEF Base, Answered
<1>2. SeekPending'
  BY DEF SeekPending, Aborting
<1>3. hook.call # "open"
  BY DEF Calls
<1>4. QED BY <1>1, <1>2, <1>3, Quiet, Fields DEF TypeOK

LEMMA OpenInv == ASSUME Inv, OpenCall PROVE Inv'
<1> USE DEF Inv, OpenCall, CallHookOpen
<1>0. bg.at = "none" BY DEF Calls
<1>1. hook' \in Hooks /\ hook'.call = "open" /\ hook'.pos = hook.pos /\ hook'.lied = hook.lied
  BY Fields DEF Hooks
<1>2. main' \in Mains /\ main'.at = "opening"
  BY Records DEF Mains
<1>3. TypeOK'
  BY <1>1, <1>2, Fields DEF TypeOK, HookType
<1>4. Base' = Base
  BY <1>2 DEF Base, Answered
<1>5. Pending' = Pending
  BY <1>0 DEF Pending
<1>6. Calls' /\ SeekPending' /\ SeekAnswer' /\ NoData' /\ Wanting'
  BY <1>0, <1>1, <1>2 DEF Calls, SeekPending, SeekAnswer, NoData, Wanting, Aborting
<1>7. Room' /\ HookAhead' /\ RingEnds' /\ RingInPlace'
  BY <1>0, <1>1, <1>4, <1>5 DEF Room, HookAhead, RingEnds, RingInPlace, Aborting
<1>8. QED BY <1>3, <1>6, <1>7

LEMMA OpenReturnsInv == ASSUME Inv, OpenReturns PROVE Inv'
<1> USE DEF Inv, OpenReturns
<1>0. bg.at = "none" /\ main' \in Mains /\ bg' \in Tasks /\ main'.at \in {"idle", "closed"}
        /\ bg'.at \in {"none", "top"}
  <2>1. CASE hook.ret = 0
    BY <2>1, Fields DEF Calls, Mains, Tasks
  <2>2. CASE hook.ret # 0
    BY <2>2, Fields DEF Calls, Mains, Tasks
  <2>3. QED BY <2>1, <2>2
<1>1. Base' = Base
  BY <1>0 DEF Base, Answered
<1>2. SeekPending' /\ NoData' /\ Wanting'
  BY <1>0 DEF SeekPending, NoData, Wanting, Aborting
<1>3. QED BY <1>0, <1>1, <1>2, Quiet, Fields DEF TypeOK, Calls

LEMMA CloseInv == ASSUME Inv, CloseCall \/ CloseReturns PROVE Inv'
<1> USE DEF Inv
<1>1. CASE CloseCall
  <2>1. main' \in Mains /\ main'.at = "joining" /\ main.at = "idle" /\ interrupted'
    BY <1>1, Fields DEF CloseCall, Mains
  <2>2. bg' \in Tasks /\ bg'.left = bg.left /\ (bg'.at = bg.at \/ (bg.at = "asleep" /\ bg'.at = "top"))
    BY <1>1, Records, WakeBackgroundType DEF CloseCall
  <2>3. SeekPending' /\ NoData' /\ Wanting'
    BY <2>1 DEF SeekPending, NoData, Wanting, Aborting
  <2>4. QED BY <1>1, <2>1, <2>2, <2>3, Quiet, Fields DEF CloseCall, Calls, TypeOK
<1>2. CASE CloseReturns
  <2>1. main' \in Mains /\ main'.at = "closed" /\ main.at = "joining"
    BY <1>2, Fields DEF CloseReturns, Mains
  <2>2. NoData' /\ Wanting'
    BY <2>1 DEF NoData, Wanting
  <2>3. QED BY <1>2, <2>1, <2>2, MainOnly DEF CloseReturns
<1>3. QED BY <1>1, <1>2

LEMMA ReadCallInv == ASSUME Inv, NEW n \in 1 .. MaxRead, ReadCall(n) PROVE Inv'
<1> USE DEF Inv
<1>1. /\ main' \in Mains /\ main'.at = "read" /\ main.at = "idle" /\ main'.data = <<>>
      /\ main'.want = n /\ main'.got = 0
  <2>1. n \in Nat BY CapacityAssumption
  <2>2. QED BY <2>1, Records, Begins DEF ReadCall
<1>2. NoData' /\ Wanting'
  BY <1>1, CapacityAssumption DEF NoData, Wanting
<1>3. QED BY <1>1, <1>2, MainOnly DEF ReadCall

\* A read that returns without a byte, or waits, and wakes the other thread.
LEMMA ReadsNothing ==
    ASSUME Inv, main.at = "read", main' \in Mains, main'.at \in {"idle", "readwait"},
           main'.at = "readwait" => main'.data = main.data /\ main'.got = main.got /\ main'.want = main.want,
           bg' = WakeBackground, UNCHANGED <<hook, faults, interrupted, ring, readPos, c>>
    PROVE  Inv'
<1> USE DEF Inv
<1>1. bg' \in Tasks /\ bg'.left = bg.left /\ (bg'.at = bg.at \/ (bg.at = "asleep" /\ bg'.at = "top"))
  BY Records, WakeBackgroundType
<1>2. Base' = Base
  BY DEF Base, Answered
<1>3. SeekPending' /\ NoData' /\ Wanting'
  BY <1>1 DEF SeekPending, NoData, Wanting, Aborting
<1>4. QED BY <1>1, <1>2, <1>3, Quiet, Fields DEF Calls, TypeOK

LEMMA ReadNothingInv == ASSUME Inv, ReadAborted \/ ReadEof \/ ReadWait PROVE Inv'
<1> USE DEF Inv
<1>0. <<>> \in Seq(0 .. FileSize - 1) /\ main \in Mains
  BY Records
<1>1. c.pos \in Int /\ c.err \in Int /\ Exit \in Int /\ Eof \in Int
  BY Records DEF Contexts, Positions, Errors, Eof, Eio, Exit, Einval
<1>2. CASE ReadAborted
  <2>1. main' \in Mains /\ main'.at = "idle"
    BY <1>0, <1>1, <1>2, Returns DEF ReadAborted
  <2>2. QED BY <1>2, <2>1, ReadsNothing DEF ReadAborted
<1>3. CASE ReadEof
  <2>1. main' \in Mains /\ main'.at = "idle"
    BY <1>0, <1>1, <1>3, Returns DEF ReadEof
  <2>2. QED BY <1>3, <2>1, ReadsNothing DEF ReadEof
<1>4. CASE ReadWait
  <2>1. /\ main' \in Mains /\ main'.at = "readwait" /\ main'.data = main.data
        /\ main'.got = main.got /\ main'.want = main.want
    BY <1>4, Fields DEF ReadWait, Mains
  <2>2. QED BY <1>4, <2>1, ReadsNothing DEF ReadWait
<1>5. QED BY <1>2, <1>3, <1>4

LEMMA SeekNearInv ==
    ASSUME Inv, NEW p \in 0 .. FileSize + 1, SeekNowhere(p) \/ SeekForward(p) \/ SeekBack(p)
    PROVE  Inv'
<1> USE DEF Inv
<1>1. CASE SeekNowhere(p)
  <2>1. main' \in Mains /\ main'.at = "idle" /\ main.at = "idle"
    <3>1. p \in Int BY Fields
    <3>2. QED BY <1>1, <3>1, Records, Numbers, Idle DEF SeekNowhere
  <2>2. NoData' /\ Wanting'
    BY <2>1 DEF NoData, Wanting
  <2>3. QED BY <1>1, <2>1, <2>2, MainOnly DEF SeekNowhere
<1>2. CASE SeekForward(p)
  <2>1. p - c.pos \in Nat /\ p - c.pos > 0
    <3>1. p \in Int /\ p > c.pos /\ c.pos \in Int
      BY <1>2, Sizes DEF SeekForward
    <3>2. QED BY <3>1
  <2>2. /\ main' \in Mains /\ main'.at = "read" /\ main.at = "idle" /\ main'.data = <<>>
        /\ main'.want = p - c.pos /\ main'.got = 0
    BY <1>2, <2>1, Records, Begins DEF SeekForward
  <2>3. NoData' /\ Wanting'
    BY <2>1, <2>2 DEF NoData, Wanting
  <2>4. QED BY <1>2, <2>2, <2>3, MainOnly DEF SeekForward
<1>3. CASE SeekBack(p)
  <2>1. main' \in Mains /\ main'.at = "idle" /\ main.at = "idle"
    <3>1. p \in Int BY Fields
    <3>2. QED BY <1>3, <3>1, Records, Idle DEF SeekBack
  <2>2. /\ p \in Positions
        /\ readPos' = readPos - (c.pos - p) /\ readPos' \in 0 .. Backwards /\ readPos' <= Len(ring)
    <3>1. /\ p \in Int /\ 0 <= p /\ p < c.pos /\ c.pos - readPos <= p
          /\ readPos' = readPos - (c.pos - p)
      BY <1>3, Sizes DEF SeekBack, InRing
    <3>2. p \in Positions
      BY <3>1, Sizes DEF Positions
    <3>3. /\ readPos \in Nat /\ readPos <= Backwards /\ readPos <= Len(ring) /\ c.pos \in Nat
          /\ Backwards \in Nat /\ Len(ring) \in Nat
      BY Sizes
    <3>4. QED BY <3>1, <3>2, <3>3
  <2>3. /\ c' \in Contexts /\ c'.pos = p /\ c'.eof = c.eof
        /\ c'.seekRequest = c.seekRequest /\ c'.seekDone = c.seekDone
    BY <1>3, <2>2, Fields DEF SeekBack, Contexts
  <2>4. Base' = Base
    BY <2>1, <2>2, <2>3, Sizes, SMTT(30) DEF Base, Answered, Positions
  <2>5. SeekPending' /\ NoData' /\ Wanting'
    BY <1>3, <2>1, <2>3 DEF SeekBack, SeekPending, NoData, Wanting, Aborting
  <2>6. QED BY <1>3, <2>1, <2>2, <2>3, <2>4, <2>5, Quiet, Fields DEF SeekBack, Calls, TypeOK
<1>4. QED BY <1>1, <1>2, <1>3

LEMMA SeekCallInv == ASSUME Inv, NEW p \in 0 .. FileSize + 1, SeekCall(p) PROVE Inv'
<1> USE DEF Inv
<1>1. /\ main.at = "idle" /\ main' \in Mains /\ main'.data = <<>>
      /\ main'.at \in {"idle", "seekwait"} /\ (~interrupted => main'.at = "seekwait")
  BY Records, Numbers, Idle DEF SeekCall, Aborting
<1>2. bg' \in Tasks /\ bg'.left = bg.left /\ (bg'.at = bg.at \/ (bg.at = "asleep" /\ bg'.at = "top"))
  BY Records, WakeBackgroundType DEF SeekCall
<1>3. p \in Positions /\ 0 \in Positions
  BY Fields DEF SeekCall, Positions
<1>4. /\ c' \in Contexts /\ c'.pos = c.pos /\ c'.eof = c.eof
      /\ c'.seekRequest = TRUE /\ c'.seekDone = FALSE
  BY <1>3, Fields DEF SeekCall, Contexts
<1>5. Base' = Base
  BY <1>1, <1>4 DEF SeekCall, Base, Answered
<1>6. SeekPending' /\ NoData' /\ Wanting'
  BY <1>1, <1>4 DEF SeekCall, SeekPending, NoData, Wanting, Aborting
<1>7. QED BY <1>1, <1>2, <1>4, <1>5, <1>6, Quiet, Fields DEF SeekCall, Calls, TypeOK

LEMMA SeekReturnsInv == ASSUME Inv, SeekReturns PROVE Inv'
<1> USE DEF Inv
<1>0. main.at = "seek" /\ UNCHANGED <<hook, faults, interrupted, ring, readPos>> /\ bg.at # "seeking"
        /\ main.data = <<>>
  BY DEF SeekReturns, NoData
<1>1. CASE Aborting /\ main' = [main EXCEPT !.at = "idle", !.ret = Exit] /\ UNCHANGED <<c, bg>>
  <2>1. main' \in Mains /\ main'.at = "idle"
    BY <1>1, Records, Numbers, Idle
  <2>2. SeekPending' /\ NoData' /\ Wanting'
    BY <1>0, <1>1, <2>1 DEF SeekPending, NoData, Wanting, Aborting
  <2>3. QED BY <1>0, <1>1, <2>1, <2>2, Quiet, Fields DEF Calls, TypeOK, Aborting
<1>2. CASE /\ ~Aborting /\ c.seekDone
           /\ main' = [main EXCEPT !.at = "idle", !.ret = c.seekRet]
           /\ c' = [c EXCEPT !.pos = IF c.seekRet >= 0 THEN c.seekRet ELSE @,
                             !.seekPos = 0, !.seekDone = FALSE, !.seekRet = 0]
           /\ UNCHANGED bg
  <2>1. main' \in Mains /\ main'.at = "idle"
    BY <1>2, Fields DEF Mains
  <2> DEFINE pos == IF c.seekRet >= 0 THEN c.seekRet ELSE c.pos
  <2>2. pos \in Positions /\ 0 \in Positions
    BY Fields, SMTT(30) DEF Positions
  <2>3. c' = [c EXCEPT !.pos = pos, !.seekPos = 0, !.seekDone = FALSE, !.seekRet = 0]
    BY <1>2
  <2> HIDE DEF pos
  <2>4. /\ c' \in Contexts /\ c'.pos = pos /\ c'.eof = c.eof
        /\ c'.seekRequest = c.seekRequest /\ c'.seekDone = FALSE
    BY <2>2, <2>3, Fields DEF Contexts
  <2>5. Base' = Base
    BY <1>0, <1>2, <2>1, <2>4, Fields DEF Base, Answered, pos
  <2>6. SeekPending' /\ NoData' /\ Wanting'
    BY <1>0, <1>2, <2>1, <2>4, Fields DEF SeekPending, NoData, Wanting, Aborting
  <2>7. QED BY <1>0, <1>2, <2>1, <2>4, <2>5, <2>6, Quiet, Fields DEF Calls, TypeOK
<1>3. CASE /\ ~Aborting /\ ~c.seekDone
           /\ main' = [main EXCEPT !.at = "seekwait"]
           /\ bg' = WakeBackground
           /\ UNCHANGED c
  <2>1. main' \in Mains /\ main'.at = "seekwait" /\ main'.data = <<>>
    BY <1>0, <1>3, Fields DEF Mains
  <2>2. bg' \in Tasks /\ bg'.left = bg.left /\ (bg'.at = bg.at \/ (bg.at = "asleep" /\ bg'.at = "top"))
    BY <1>3, Records, WakeBackgroundType
  <2>3. Base' = Base
    BY <1>0, <1>3, <2>1 DEF Base, Answered
  <2>4. SeekPending' /\ NoData' /\ Wanting'
    BY <1>0, <1>3, <2>1, <2>2 DEF SeekPending, NoData, Wanting, Aborting
  <2>5. QED BY <1>0, <1>3, <2>1, <2>2, <2>3, <2>4, Quiet, Fields DEF Calls, TypeOK
<1>4. QED BY <1>1, <1>2, <1>3 DEF SeekReturns

LEMMA BgStopInv == ASSUME Inv, BgStops \/ BgSleep \/ BgRelock PROVE Inv'
<1> USE DEF Inv
<1>0. bg \in Tasks /\ main \in Mains /\ c \in Contexts
  BY Records
<1>1. CASE BgStops
  <2>1. bg' \in Tasks /\ bg'.at = "gone" /\ bg.at = "top"
    BY <1>0, <1>1 DEF BgStops, Tasks
  <2>2. c' \in Contexts /\ c'.eof /\ interrupted' /\ interrupted
    BY <1>0, <1>1 DEF BgStops, Aborting, Contexts, Errors
  <2>3. main' = WakeMain
    BY <1>1 DEF BgStops
  <2>4. SeekPending' /\ NoData' /\ Wanting'
    BY <1>0, <2>2, <2>3, WakeMainType DEF SeekPending, NoData, Wanting, Aborting
  <2>5. QED BY <1>0, <1>1, <2>1, <2>2, <2>3, <2>4, WakeMainType, Quiet, Fields DEF BgStops, Calls, TypeOK
<1>2. CASE BgSleep
  <2>1. bg' \in Tasks /\ bg'.at = "asleep" /\ bg.at = "top"
    BY <1>0, <1>2 DEF BgSleep, Tasks
  <2>2. main' = WakeMain /\ UNCHANGED <<hook, faults, interrupted, ring, readPos, c>>
    BY <1>2 DEF BgSleep
  <2>3. Base' = Base
    BY <1>0, <2>2, WakeMainType DEF Base, Answered
  <2>4. SeekPending' /\ NoData' /\ Wanting'
    BY <1>0, <2>1, <2>2, WakeMainType DEF SeekPending, NoData, Wanting, Aborting
  <2>5. QED BY <1>0, <2>1, <2>2, <2>3, <2>4, WakeMainType, Quiet, Fields DEF Calls, TypeOK
<1>3. CASE BgRelock
  <2>1. bg' \in Tasks /\ bg'.at = "top" /\ bg.at = "relock"
    BY <1>0, <1>3 DEF BgRelock, Tasks
  <2>2. main' = WakeMain /\ UNCHANGED <<hook, faults, interrupted, ring, readPos>>
    BY <1>3 DEF BgRelock
  <2>3. /\ c' \in Contexts /\ (c.eof => c'.eof) /\ c'.pos = c.pos /\ c'.seekRequest = c.seekRequest
        /\ c'.seekDone = c.seekDone /\ c'.seekRet = c.seekRet
    <3>1. CASE bg.got > 0
      BY <1>0, <1>3, <3>1 DEF BgRelock
    <3>2. CASE ~(bg.got > 0)
      <4>1. hook.ret \in Positions \cup Errors /\ c.err \in Errors \cup {0}
              /\ (hook.ret < 0 => hook.ret \in Errors)
        BY Records, FileSizeAssumption DEF Hooks, Contexts, Positions
      <4>2. (IF hook.ret < 0 THEN hook.ret ELSE c.err) \in Errors \cup {0}
        BY <4>1
      <4>3. c' = [c EXCEPT !.eof = TRUE, !.err = IF hook.ret < 0 THEN hook.ret ELSE c.err]
        BY <1>3, <3>2 DEF BgRelock
      <4>4. QED BY <1>0, <4>2, <4>3 DEF Contexts
    <3>3. QED BY <3>1, <3>2
  <2>4. Base' = Base
    BY <1>0, <2>2, <2>3, WakeMainType DEF Base, Answered
  <2>5. SeekPending' /\ NoData' /\ Wanting'
    BY <1>0, <2>1, <2>2, <2>3, WakeMainType DEF SeekPending, NoData, Wanting, Aborting
  <2>6. QED BY <1>0, <2>1, <2>2, <2>3, <2>4, <2>5, WakeMainType, Quiet, Fields DEF Calls, TypeOK
<1>4. QED BY <1>1, <1>2, <1>3

\* The player asks to stop.
LEMMA InterruptInv ==
    ASSUME Inv, Interrupt, UNCHANGED <<ring, readPos, c, main, bg>>
    PROVE  Inv'
<1> USE DEF Inv
<1>1. SeekPending' /\ NoData' /\ Wanting'
  BY DEF Interrupt, SeekPending, NoData, Wanting, Aborting
<1>2. QED BY <1>1, Quiet, Fields DEF Interrupt, Calls, TypeOK

LEMMA BgSeekInv == ASSUME Inv, BgSeek PROVE Inv'
<1> USE DEF Inv
<1>0. /\ bg.at = "top" /\ ~interrupted /\ c.seekRequest /\ c.seekPos \in Positions
      /\ bg' \in Tasks /\ bg'.at = "seeking" /\ bg'.left = bg.left
      /\ UNCHANGED <<faults, interrupted, ring, readPos, c, main>>
  BY Records DEF BgSeek, Aborting, Contexts, Tasks
<1>1. /\ hook' \in Hooks
      /\ \/ hook'.call = "none" /\ hook'.ret = hook.pos /\ hook'.pos = hook.pos
         \/ hook'.call = "seek" /\ hook'.arg \in Positions /\ hook'.pos = hook.pos
  <2>1. CASE c.seekPos = hook.pos
    <3>1. hook' = [Returned(hook, hook.pos) EXCEPT !.lied = FALSE] /\ hook.pos \in Positions \cup Errors
      BY <1>0, <2>1 DEF BgSeek, CallHookSeek
    <3>2. /\ Returned(hook, hook.pos) \in Hooks /\ Returned(hook, hook.pos).call = "none"
          /\ Returned(hook, hook.pos).ret = hook.pos /\ Returned(hook, hook.pos).pos = hook.pos
      BY <3>1, Records, ReturnedType
    <3>3. QED BY <3>1, <3>2 DEF Hooks
  <2>2. CASE c.seekPos # hook.pos
    <3>1. hook' = [hook EXCEPT !.call = "seek", !.step = "ask", !.arg = c.seekPos] /\ c.seekPos \in Nat
      BY <1>0, <2>2, FileSizeAssumption DEF BgSeek, CallHookSeek, Positions
    <3>2. QED BY <1>0, <3>1, Records DEF Hooks
  <2>3. QED BY <2>1, <2>2
<1>2. TypeOK'
  BY <1>0, <1>1 DEF TypeOK, HookType
<1>3. Calls' /\ SeekPending' /\ NoData' /\ Wanting'
  BY <1>0, <1>1 DEF Calls, SeekPending, NoData, Wanting, Aborting
<1>4. SeekAnswer'
  BY <1>0, <1>1, Fields DEF SeekAnswer
<1>5. Room'
  <2>1. Pending' = 0
    BY <1>0 DEF Pending
  <2>2. QED BY <1>0, <1>1, <2>1, Fields, SMTT(30) DEF Room
<1>6. HookAhead' /\ RingEnds' /\ RingInPlace'
  BY <1>0 DEF HookAhead, RingEnds, RingInPlace
<1>7. QED BY <1>2, <1>3, <1>4, <1>5, <1>6

LEMMA BgSeekReturnsInv == ASSUME Inv, BgSeekReturns PROVE Inv'
<1> USE DEF Inv
<1>0. /\ bg.at = "seeking" /\ hook.call = "none" /\ ring' = <<>> /\ readPos' = 0 /\ main' = WakeMain
      /\ bg' \in Tasks /\ bg'.at = "top" /\ UNCHANGED <<hook, faults, interrupted>>
      /\ main.at \notin {"new", "opening"}
  BY Records DEF BgSeekReturns, Tasks, Calls
<1>1. hook.ret \in Positions \cup Errors /\ (hook.ret < 0 => hook.ret \in Errors)
  BY Records, FileSizeAssumption DEF Hooks, Positions
<1>2. /\ c' \in Contexts /\ c'.eof = (hook.ret < 0) /\ c'.seekDone /\ ~c'.seekRequest
      /\ c'.seekRet = hook.ret /\ c'.pos = c.pos
  <2> DEFINE e == IF hook.ret < 0 THEN hook.ret ELSE 0
  <2> DEFINE c1 == [c EXCEPT !.eof = hook.ret < 0, !.err = e]
  <2>1. e \in Errors \cup {0} /\ (hook.ret < 0) \in BOOLEAN
    BY <1>1
  <2>2. c' = [c1 EXCEPT !.seekDone = TRUE, !.seekRet = hook.ret, !.seekRequest = FALSE]
    BY DEF BgSeekReturns
  <2> HIDE DEF e
  <2>3. c1 \in Contexts /\ c1.eof = (hook.ret < 0) /\ c1.pos = c.pos
    BY <2>1, Records DEF Contexts
  <2> HIDE DEF c1
  <2>4. QED BY <1>1, <2>2, <2>3 DEF Contexts
<1>3. main' \in Mains /\ (main'.at \in {"seek", "seekwait"} <=> main.at \in {"seek", "seekwait"})
        /\ main'.at \notin {"new", "opening"}
  BY <1>0, Records, WakeMainType
<1>4. ring' \in Seq(0 .. FileSize - 1) /\ Len(ring') = 0
  BY <1>0
<1>5. TypeOK'
  BY <1>0, <1>2, <1>3, <1>4, Fields DEF TypeOK, HookType
<1>6. Calls' /\ SeekPending' /\ SeekAnswer'
  BY <1>0, <1>2, <1>3 DEF Calls, SeekPending, SeekAnswer
<1>7. NoData' /\ Wanting'
  BY <1>0, Records, WakeMainType DEF NoData, Wanting
<1>8. Room'
  <2>1. Pending' = 0
    BY <1>0 DEF Pending
  <2>2. bg'.left \in Nat
    BY <1>0 DEF Tasks
  <2>3. QED BY <1>0, <1>4, <2>1, <2>2, Sizes DEF Room
<1>9. HookAhead' /\ RingEnds'
  <2>1. CASE interrupted
    BY <1>0, <2>1 DEF HookAhead, RingEnds, Aborting
  <2>2. CASE ~interrupted
    <3>1. main'.at \in {"seek", "seekwait"}
      BY <1>0, <1>3, <2>2 DEF SeekPending, Aborting
    <3>2. Base' = IF hook.ret >= 0 THEN hook.ret ELSE c.pos
      BY <1>0, <1>2, <3>1, Fields, SMTT(30) DEF Base, Answered
    <3>3. RingEnds'
      BY <1>0, <1>4, <3>2, Sizes DEF RingEnds
    <3>4. Pending' = 0
      BY <1>0 DEF Pending
    <3>5. CASE hook.ret >= 0
      <4>1. hook.ret <= hook.pos /\ (~hook.lied => hook.ret = hook.pos)
        BY <1>0, <3>5 DEF SeekAnswer
      <4>2. HookAhead'
        BY <1>0, <1>4, <3>2, <3>4, <3>5, <4>1, Fields DEF HookAhead
      <4>3. QED BY <3>3, <4>2
    <3>6. CASE ~(hook.ret >= 0)
      <4>0. hook.ret < 0
        BY <3>6, Fields
      <4>1. c'.eof
        BY <1>2, <4>0
      <4>2. QED BY <3>3, <4>1 DEF HookAhead
    <3>7. QED BY <3>5, <3>6
  <2>3. QED BY <2>1, <2>2
<1>10. RingInPlace'
  BY <1>4 DEF RingInPlace
<1>11. QED BY <1>5, <1>6, <1>7, <1>8, <1>9, <1>10

LEMMA BgFillInv == ASSUME Inv, BgFill PROVE Inv'
<1> USE DEF Inv
<1> DEFINE n == Least(Chunk, RingSpace)
<1>0. /\ bg.at = "top" /\ ~interrupted /\ ~c.seekRequest /\ ~c.eof /\ RingSpace > 0
      /\ bg' = [bg EXCEPT !.at = "filling", !.left = n, !.got = 0]
      /\ hook' = [hook EXCEPT !.call = "read", !.step = "try", !.arg = n]
      /\ UNCHANGED <<faults, interrupted, ring, readPos, c, main>>
  BY DEF BgFill, CallHookRead, Aborting
<1>1. RingSpace \in Int /\ RingSpace = Forwards + Backwards - Len(ring)
  BY Fields DEF RingSpace
<1>2. n \in Nat /\ n <= RingSpace
  BY <1>0, <1>1, CapacityAssumption DEF Least
<1> HIDE DEF n
<1>3. bg' \in Tasks /\ bg'.at = "filling" /\ bg'.left = n
  BY <1>0, <1>2, Records DEF Tasks
<1>4. /\ hook' \in Hooks /\ hook'.call = "read" /\ hook'.arg = n
      /\ hook'.pos = hook.pos /\ hook'.lied = hook.lied
  BY <1>0, <1>2, Records DEF Hooks
<1>5. TypeOK'
  BY <1>0, <1>3, <1>4 DEF TypeOK, HookType
<1>6. Calls' /\ SeekPending' /\ SeekAnswer' /\ NoData' /\ Wanting'
  BY <1>0, <1>3, <1>4 DEF Calls, SeekPending, SeekAnswer, NoData, Wanting, Aborting
<1>7. Pending = 0 /\ Pending' = 0 /\ Base' = Base
  BY <1>0, <1>3, <1>4 DEF Pending, Base, Answered
<1>8. Room'
  BY <1>0, <1>1, <1>2, <1>3, <1>4, <1>7, Fields DEF Room
<1>9. HookAhead' /\ RingEnds' /\ RingInPlace'
  BY <1>0, <1>3, <1>4, <1>7 DEF HookAhead, RingEnds, RingInPlace, Aborting
<1>10. QED BY <1>5, <1>6, <1>8, <1>9

LEMMA BgFilledInv == ASSUME Inv, BgFilled PROVE Inv'
<1> USE DEF Inv
<1> DEFINE k == hook.ret
<1>0. /\ bg.at = "filling" /\ hook.call = "none" /\ ~c.eof
      /\ UNCHANGED <<faults, interrupted, readPos, c, main>>
      /\ Base' = Base /\ k \in Int /\ main.at \notin {"new", "opening"}
  BY Fields DEF BgFilled, Calls, Base, Answered
<1>a. SeekPending' /\ NoData' /\ Wanting'
  <2>1. bg'.at # "seeking"
    BY Records DEF BgFilled, Tasks
  <2>2. QED BY <1>0, <2>1 DEF SeekPending, NoData, Wanting, Aborting
<1>1. CASE k > 0
  <2> DEFINE d == [i \in 1 .. k |-> hook.pos - k + i - 1]
  <2>1. Pending = k /\ k \in Nat /\ k <= hook.pos /\ k <= bg.left
    BY <1>0, <1>1, Fields DEF Pending, Room
  <2>2. ring' = ring \o d
    BY <1>1 DEF BgFilled
  <2>3. d \in Seq(0 .. FileSize - 1) /\ Len(d) = k
    <3>0. hook.pos \in Nat /\ hook.pos <= FileSize /\ FileSize \in Nat
      BY Fields
    <3> DEFINE Start == hook.pos - k
    <3>1. Start \in Nat /\ Start + k <= FileSize
      BY <2>1, <3>0
    <3> HIDE DEF k
    <3>2. d = [i \in 1 .. k |-> Start + i - 1]
      OBVIOUS
    <3> HIDE DEF d, Start
    <3>3. d \in [1 .. k -> 0 .. FileSize - 1]
      BY <2>1, <3>0, <3>1, <3>2
    <3>4. d \in Seq(0 .. FileSize - 1)
      BY <2>1, <3>3, SeqDef
    <3>5. Len(d) \in Nat /\ DOMAIN d = 1 .. Len(d)
      BY <3>4, LenProperties
    <3>6. QED BY <2>1, <3>3, <3>4, <3>5
  <2>4. /\ ring' \in Seq(0 .. FileSize - 1) /\ Len(ring') = Len(ring) + k
        /\ \A i \in 1 .. Len(ring) : ring'[i] = ring[i]
        /\ \A i \in Len(ring) + 1 .. Len(ring) + k : ring'[i] = hook.pos - k + (i - Len(ring)) - 1
    <3>1. ring \in Seq(0 .. FileSize - 1) /\ Len(ring) \in Nat
      BY Fields
    <3>2. \A i \in 1 .. k : d[i] = hook.pos - k + i - 1
      OBVIOUS
    <3> HIDE DEF d
    <3>3. /\ ring \o d \in Seq(0 .. FileSize - 1) /\ Len(ring \o d) = Len(ring) + k
          /\ \A i \in 1 .. Len(ring) : (ring \o d)[i] = ring[i]
          /\ \A i \in Len(ring) + 1 .. Len(ring) + k : (ring \o d)[i] = d[i - Len(ring)]
      BY <2>1, <2>3, <3>1
    <3>4. \A i \in Len(ring) + 1 .. Len(ring) + k : i - Len(ring) \in 1 .. k
      BY <2>1, <3>1
    <3>5. QED BY <2>2, <3>2, <3>3, <3>4
  <2> HIDE DEF d
  <2>5. /\ bg' \in Tasks /\ hook' \in Hooks /\ hook'.pos = hook.pos /\ hook'.lied = hook.lied
        /\ \/ bg'.at = "filling" /\ bg'.left = bg.left - k /\ hook'.call = "read" /\ hook'.arg = bg'.left
           \/ bg'.at = "relock" /\ hook'.call = "none" /\ bg'.left = bg.left
    <3>1. bg.got \in Nat /\ bg \in Tasks /\ hook \in Hooks /\ bg.left \in Nat
      BY Records DEF Tasks
    <3>2. CASE k < bg.left
      <4>1. bg' = [bg EXCEPT !.left = bg.left - k, !.got = bg.got + k] /\ bg.left - k \in Nat /\ bg.got + k \in Nat
        BY <1>1, <2>1, <3>1, <3>2 DEF BgFilled
      <4>2. hook' = [hook EXCEPT !.call = "read", !.step = "try", !.arg = bg.left - k]
        BY <1>1, <3>2 DEF BgFilled, CallHookRead
      <4>3. bg' \in Tasks /\ bg'.at = "filling" /\ bg'.left = bg.left - k
        BY <1>0, <3>1, <4>1 DEF Tasks
      <4>4. /\ hook' \in Hooks /\ hook'.call = "read" /\ hook'.arg = bg.left - k
            /\ hook'.pos = hook.pos /\ hook'.lied = hook.lied
        BY <3>1, <4>1, <4>2 DEF Hooks
      <4>5. QED BY <4>3, <4>4
    <3>3. CASE ~(k < bg.left)
      <4>1. bg' = [bg EXCEPT !.at = "relock", !.got = bg.got + k] /\ hook' = hook /\ bg.got + k \in Nat
        BY <1>1, <2>1, <3>1, <3>3 DEF BgFilled
      <4>2. QED BY <1>0, <3>1, <4>1 DEF Tasks
    <3>4. QED BY <3>2, <3>3
  <2>6. Pending' = 0
    BY <2>5 DEF Pending
  <2>7. Len(ring) + bg.left <= Forwards + Backwards
    BY <1>0 DEF Room
  <2>8. bg'.left \in Nat /\ hook'.pos \in Nat
    BY <2>5, Fields DEF Tasks
  <2>9. TypeOK'
    <3>1. HookType'
      BY <1>0, <2>5 DEF TypeOK, HookType
    <3>2. Len(ring') <= Forwards + Backwards /\ readPos <= Len(ring')
      <4>1. /\ Len(ring) \in Nat /\ bg.left \in Nat /\ readPos \in Nat /\ readPos <= Len(ring)
            /\ Forwards \in Nat /\ Backwards \in Nat
        BY Fields
      <4>2. k \in Nat /\ k <= bg.left /\ Len(ring') = Len(ring) + k
        BY <2>1, <2>4
      <4> HIDE DEF k
      <4>3. QED BY <2>7, <4>1, <4>2
    <3>3. readPos \in 0 .. Backwards /\ c \in Contexts /\ main \in Mains
      BY DEF TypeOK
    <3>4. QED BY <1>0, <2>4, <2>5, <3>1, <3>2, <3>3 DEF TypeOK
  <2>10. Calls' /\ SeekAnswer'
    BY <1>0, <2>5 DEF Calls, SeekAnswer
  <2>11. Room'
    <3>1. Forwards + Backwards \in Nat /\ bg.left \in Nat /\ Len(ring) \in Nat
      BY Fields
    <3>2. Len(ring') + (IF bg'.at = "filling" THEN bg'.left ELSE 0) <= Forwards + Backwards
      BY <2>1, <2>4, <2>5, <2>7, <3>1
    <3>3. QED BY <1>0, <2>6, <2>8, <3>2 DEF Room
  <2>12. HookAhead' /\ RingEnds' /\ RingInPlace'
    <3>1. CASE interrupted
      BY <1>0, <3>1 DEF HookAhead, RingEnds, RingInPlace, Aborting
    <3>2. CASE ~interrupted
      <4>1. Base + Len(ring) + k <= hook.pos /\ (~hook.lied => Base + Len(ring) + k = hook.pos)
        BY <1>0, <2>1, <3>2 DEF HookAhead, Aborting
      <4>2. HookAhead'
        BY <1>0, <2>1, <2>4, <2>5, <2>6, <4>1, Sizes, SMTT(30) DEF HookAhead
      <4>3. RingEnds'
        BY <1>0, <2>1, <2>4, <4>1, Sizes, SMTT(30) DEF RingEnds
      <4>4. RingInPlace'
        <5>1. SUFFICES ASSUME ~hook.lied, NEW i \in 1 .. Len(ring) + k
                       PROVE  ring'[i] = Base + i - 1
          BY <1>0, <2>4, <2>5 DEF RingInPlace
        <5>2. CASE i \in 1 .. Len(ring)
          BY <1>0, <2>4, <3>2, <5>1, <5>2 DEF RingInPlace, Aborting
        <5>3. CASE i \in Len(ring) + 1 .. Len(ring) + k
          <6>1. ring'[i] = hook.pos - k + (i - Len(ring)) - 1
            BY <2>4, <5>3
          <6>2. Base \in Int /\ Len(ring) \in Nat /\ hook.pos \in Nat /\ k \in Nat /\ i \in Int
            BY <2>1, <5>3, Fields
          <6>3. Base + Len(ring) + k = hook.pos
            BY <4>1, <5>1
          <6> HIDE DEF k
          <6>4. QED BY <6>1, <6>2, <6>3
        <5>4. QED BY <2>1, <5>2, <5>3, Fields
      <4>5. QED BY <4>2, <4>3, <4>4
    <3>3. QED BY <3>1, <3>2
  <2>13. QED BY <1>a, <2>9, <2>10, <2>11, <2>12
<1>2. CASE ~(k > 0)
  <2>1. bg' = [bg EXCEPT !.at = "relock"] /\ UNCHANGED <<hook, ring>>
    BY <1>2 DEF BgFilled
  <2>2. bg' \in Tasks /\ bg'.at = "relock" /\ bg'.left = bg.left
    BY <2>1, Records DEF Tasks
  <2>3. Pending = 0 /\ Pending' = 0
    BY <1>0, <1>2, <2>1, <2>2 DEF Pending
  <2>4. TypeOK'
    BY <1>0, <2>1, <2>2 DEF TypeOK, HookType
  <2>5. Calls' /\ SeekAnswer'
    BY <1>0, <2>1, <2>2 DEF Calls, SeekAnswer
  <2>6. Room'
    BY <1>0, <2>1, <2>2, <2>3, Fields DEF Room
  <2>7. HookAhead' /\ RingEnds' /\ RingInPlace'
    BY <1>0, <2>1, <2>2, <2>3 DEF HookAhead, RingEnds, RingInPlace, Aborting
  <2>8. QED BY <1>a, <2>4, <2>5, <2>6, <2>7
<1>3. QED BY <1>1, <1>2

\* A step of the hook moves it ahead by what it has read.
LEMMA HookInv ==
    ASSUME Inv, HookStep, UNCHANGED <<ring, readPos, c, main, bg>>
    PROVE  Inv'
<1> USE DEF Inv
<1>1. HookDid
  BY HookEffect DEF TypeOK, Calls
<1>2. TypeOK'
  BY <1>1 DEF HookDid, TypeOK
<1>3. Calls' /\ SeekPending' /\ NoData' /\ Wanting'
  BY <1>1 DEF HookDid, Calls, SeekPending, NoData, Wanting, Aborting
<1>4. bg.at = "seeking" => hook.call = "seek"
  BY <1>1, Records DEF Calls, HookDid, Hooks
<1>5. SeekAnswer'
  BY <1>1, <1>4 DEF HookDid, SeekAnswer
<1>6. Base' = Base
  BY DEF Base, Answered
<1>7. /\ hook'.pos \in Nat /\ hook'.ret \in Int
  BY <1>1, FileSizeAssumption DEF HookDid, HookType, Hooks, Positions, Errors, Eof, Eio, Exit, Einval
<1>8. CASE hook.call = "open"
  <2>1. Pending = 0 /\ Pending' = 0 /\ bg.at = "none"
    BY <1>8 DEF Pending, Calls
  <2>2. hook'.pos = hook.pos /\ hook'.lied = hook.lied
    BY <1>1, <1>8 DEF HookDid
  <2>3. Room' /\ HookAhead' /\ RingEnds' /\ RingInPlace'
    BY <1>1, <1>6, <2>1, <2>2, Fields DEF HookDid, Room, HookAhead, RingEnds, RingInPlace, Aborting
  <2>4. QED BY <1>2, <1>3, <1>5, <2>3
<1>9. CASE hook.call = "read"
  <2>1. Pending = 0 /\ bg.at = "filling" /\ hook.arg = bg.left
    BY <1>9 DEF Pending, Calls
  <2>2. hook'.pos = hook.pos + Pending' /\ Pending' \in Nat /\ Pending' <= bg.left
    <3>1. CASE hook'.call = "read"
      <4>1. Pending' = 0 /\ hook'.pos = hook.pos
        BY <1>1, <1>9, <3>1 DEF Pending, HookDid
      <4>2. QED BY <4>1, Fields
    <3>2. CASE hook'.call = "none"
      <4>1. Pending' = IF hook'.ret > 0 THEN hook'.ret ELSE 0
        BY <2>1, <3>2 DEF Pending
      <4>2. hook'.ret <= bg.left /\ hook'.pos = hook.pos + Pending'
        BY <1>1, <1>9, <2>1, <3>2, <4>1 DEF HookDid
      <4>3. QED BY <1>7, <4>1, <4>2, Sizes
    <3>3. QED BY <1>1, <1>9, <3>1, <3>2 DEF HookDid
  <2>3. hook'.lied = hook.lied
    BY <1>1, <1>9 DEF HookDid
  <2>4. Room'
    BY <1>1, <2>1, <2>2, Fields DEF HookDid, Room
  <2>5. HookAhead'
    BY <1>1, <1>6, <2>1, <2>2, <2>3, Fields DEF HookDid, HookAhead, Aborting
  <2>6. RingEnds' /\ RingInPlace'
    BY <1>1, <1>6, <2>3 DEF HookDid, RingEnds, RingInPlace, Aborting
  <2>7. QED BY <1>2, <1>3, <1>5, <2>4, <2>5, <2>6
<1>10. CASE hook.call = "seek"
  <2>1. bg.at = "seeking" /\ Pending' = 0
    BY <1>10 DEF Calls, Pending
  <2>2. Room' /\ HookAhead' /\ RingEnds' /\ RingInPlace'
    BY <1>7, <2>1, Sizes DEF Room, HookAhead, RingEnds, RingInPlace
  <2>3. QED BY <1>2, <1>3, <1>5, <2>2
<1>11. QED BY <1>1, <1>8, <1>9, <1>10, Records DEF HookDid, Hooks

\* A read of bytes: how many, where they come from, and what stays behind them.
LEMMA ReadSomeFacts ==
    ASSUME Inv, ReadSome
    PROVE  \E k \in 1 .. FileSize, m \in 0 .. Len(ring) :
             /\ k <= RingSize /\ k <= main.want - main.got /\ c.pos + k <= FileSize
             /\ ring' = SubSeq(ring, m + 1, Len(ring)) /\ m = readPos + k - readPos'
             /\ readPos' \in 0 .. Backwards /\ readPos' <= Len(ring) - m
             /\ c' = [c EXCEPT !.pos = c.pos + k]
             /\ IF main.complete /\ main.got + k < main.want
                THEN main' = [main EXCEPT !.at = "readwait", !.got = main.got + k]
                ELSE ReadReturns(IF main.complete THEN c.pos + k ELSE k,
                                 IF main.complete THEN <<>> ELSE SubSeq(ring, readPos + 1, readPos + k))
             /\ bg' = WakeBackground /\ UNCHANGED <<hook, faults, interrupted>>
             /\ main.at = "read" /\ bg.at # "seeking" /\ ~interrupted
<1> USE DEF Inv
<1> DEFINE k == Least(main.want - main.got, RingSize)
<1> DEFINE behind == Least(readPos + k, Backwards)
<1> DEFINE m == readPos + k - behind
<1>1. /\ main.at = "read" /\ bg.at # "seeking" /\ ~interrupted /\ RingSize > 0
      /\ TakeBytes(k) /\ c' = [c EXCEPT !.pos = c.pos + k]
      /\ IF main.complete /\ main.got + k < main.want
         THEN main' = [main EXCEPT !.at = "readwait", !.got = main.got + k]
         ELSE ReadReturns(IF main.complete THEN c.pos + k ELSE k,
                          IF main.complete THEN <<>> ELSE SubSeq(ring, readPos + 1, readPos + k))
      /\ bg' = WakeBackground /\ UNCHANGED <<hook, faults, interrupted>>
  BY DEF ReadSome, Aborting
<1>2. ring' = SubSeq(ring, m + 1, Len(ring)) /\ readPos' = behind
  BY <1>1 DEF TakeBytes
<1>3. /\ Len(ring) \in Nat /\ readPos \in Nat /\ readPos <= Len(ring) /\ readPos <= Backwards
      /\ Backwards \in Nat /\ FileSize \in Nat /\ main.want \in Nat /\ main.got \in Nat /\ c.pos \in Nat
  BY Fields
<1>4. RingSize \in Nat /\ RingSize = Len(ring) - readPos /\ main.want - main.got > 0
  BY <1>1, <1>3 DEF RingSize, Wanting
<1>5. c.pos - readPos + Len(ring) <= FileSize
  BY <1>1 DEF RingEnds, Base, Answered, Aborting
<1>6. k \in Nat /\ k > 0 /\ k <= RingSize /\ k <= main.want - main.got
  BY <1>1, <1>3, <1>4 DEF Least
<1> HIDE DEF k
<1>7. c.pos + k <= FileSize /\ k \in 1 .. FileSize
  BY <1>3, <1>4, <1>5, <1>6
<1>8. behind \in 0 .. Backwards /\ behind <= readPos + k
  BY <1>3, <1>6 DEF Least
<1> HIDE DEF behind
<1>9. m \in 0 .. Len(ring) /\ behind <= Len(ring) - m
  BY <1>3, <1>4, <1>6, <1>8
<1>10. m = readPos + k - readPos' /\ readPos' \in 0 .. Backwards /\ readPos' <= Len(ring) - m
  BY <1>2, <1>8, <1>9
<1> HIDE DEF m
<1>11. QED BY <1>1, <1>2, <1>6, <1>7, <1>9, <1>10

\* The bytes stay where they are in the file while the reader passes them.
LEMMA ReadSomeInv == ASSUME Inv, ReadSome PROVE Inv'
<1> USE DEF Inv
<1>1. PICK k \in 1 .. FileSize, m \in 0 .. Len(ring) :
             /\ k <= RingSize /\ k <= main.want - main.got /\ c.pos + k <= FileSize
             /\ ring' = SubSeq(ring, m + 1, Len(ring)) /\ m = readPos + k - readPos'
             /\ readPos' \in 0 .. Backwards /\ readPos' <= Len(ring) - m
             /\ c' = [c EXCEPT !.pos = c.pos + k]
             /\ IF main.complete /\ main.got + k < main.want
                THEN main' = [main EXCEPT !.at = "readwait", !.got = main.got + k]
                ELSE ReadReturns(IF main.complete THEN c.pos + k ELSE k,
                                 IF main.complete THEN <<>> ELSE SubSeq(ring, readPos + 1, readPos + k))
             /\ bg' = WakeBackground /\ UNCHANGED <<hook, faults, interrupted>>
             /\ main.at = "read" /\ bg.at # "seeking" /\ ~interrupted
  BY ReadSomeFacts
<1>2. /\ Len(ring) \in Nat /\ readPos \in Nat /\ readPos <= Len(ring) /\ FileSize \in Nat
      /\ Len(ring) <= Forwards + Backwards /\ Forwards + Backwards \in Nat /\ readPos' \in Int
      /\ main.got \in Nat /\ main.want \in Nat /\ c.pos \in Nat /\ Base \in Int
      /\ ring \in Seq(0 .. FileSize - 1) /\ k \in Nat /\ m \in Nat /\ hook.pos \in Nat
  <2>1. /\ Len(ring) \in Nat /\ readPos \in Nat /\ readPos <= Len(ring) /\ FileSize \in Nat
        /\ Len(ring) <= Forwards + Backwards /\ Forwards \in Nat /\ Backwards \in Nat
        /\ main.got \in Nat /\ main.want \in Nat /\ c.pos \in Nat /\ Base \in Int
        /\ ring \in Seq(0 .. FileSize - 1) /\ hook.pos \in Nat
    BY Fields
  <2>2. readPos' \in 0 .. Backwards
    BY <1>1
  <2>3. QED BY <2>1, <2>2
<1>a. /\ k <= RingSize /\ k <= main.want - main.got /\ c.pos + k <= FileSize
      /\ m = readPos + k - readPos' /\ readPos' <= Len(ring) - m
  BY <1>1
<1>3. /\ ring' \in Seq(0 .. FileSize - 1) /\ Len(ring') = Len(ring) - m
      /\ \A i \in 1 .. Len(ring) - m : ring'[i] = ring[m + i]
  <2>1. Len(ring) \in m .. Len(ring)
    BY <1>2
  <2>2. QED BY <1>1, <1>2, <2>1, Behind, ZenonT(30)
<1>4. c' \in Contexts /\ c'.pos = c.pos + k /\ c'.eof = c.eof /\ c'.seekRequest = c.seekRequest
  <2>1. c.pos + k \in Positions
    <3>1. c.pos \in Nat /\ k \in Nat /\ FileSize \in Nat
      BY <1>2
    <3>2. c.pos + k \in Nat /\ c.pos + k <= FileSize
      BY <1>a, <3>1
    <3>3. QED BY <3>1, <3>2 DEF Positions
  <2> DEFINE p == c.pos + k
  <2>2. c' = [c EXCEPT !.pos = p]
    BY <1>1
  <2> HIDE DEF p
  <2>3. QED BY <2>1, <2>2, Records DEF Contexts, p
<1>5. /\ main' \in Mains /\ main'.at \in {"idle", "readwait"}
      /\ main'.at = "readwait" => main'.data = <<>> /\ main'.got < main'.want
  <2>1. CASE main.complete /\ main.got + k < main.want
    <3> DEFINE g == main.got + k
    <3>0. g \in Nat /\ g < main.want
      BY <1>2, <2>1
    <3>1. main' = [main EXCEPT !.at = "readwait", !.got = g]
      BY <1>1, <2>1
    <3>2. main.data = <<>>
      BY <1>1 DEF NoData
    <3> HIDE DEF g
    <3>3. QED BY <3>0, <3>1, <3>2, Records DEF Mains
  <2>2. CASE ~(main.complete /\ main.got + k < main.want)
    <3> DEFINE r == IF main.complete THEN c.pos + k ELSE k
    <3> DEFINE d == IF main.complete THEN <<>> ELSE SubSeq(ring, readPos + 1, readPos + k)
    <3>1. ReadReturns(r, d)
      BY <1>1, <2>2
    <3>2. r \in Int
      BY <1>2
    <3>3. d \in Seq(0 .. FileSize - 1)
      <4>1. readPos \in 0 .. Len(ring) /\ readPos + k \in readPos .. Len(ring)
        BY <1>a, <1>2 DEF RingSize
      <4>2. SubSeq(ring, readPos + 1, readPos + k) \in Seq(0 .. FileSize - 1)
        BY <1>2, <4>1, Behind
      <4>3. <<>> \in Seq(0 .. FileSize - 1)
        OBVIOUS
      <4>4. QED BY <4>2, <4>3
    <3> HIDE DEF r, d
    <3>4. main' \in Mains /\ main'.at = "idle"
      BY <3>1, <3>2, <3>3, Records, Returns
    <3>5. QED BY <3>4
  <2>3. QED BY <2>1, <2>2
<1>6. bg' \in Tasks /\ bg'.left = bg.left /\ (bg'.at = bg.at \/ (bg.at = "asleep" /\ bg'.at = "top"))
  BY <1>1, Records, WakeBackgroundType
<1>7. TypeOK'
  <2>1. readPos' <= Len(ring') /\ Len(ring') <= Forwards + Backwards
    BY <1>a, <1>2, <1>3
  <2>2. HookType' /\ readPos' \in 0 .. Backwards
    BY <1>1 DEF TypeOK, HookType
  <2>3. QED BY <1>3, <1>4, <1>5, <1>6, <2>1, <2>2 DEF TypeOK
<1>8. Calls' /\ SeekPending' /\ SeekAnswer' /\ NoData' /\ Wanting'
  BY <1>1, <1>4, <1>5, <1>6 DEF Calls, SeekPending, SeekAnswer, NoData, Wanting, Aborting
<1>9. Base' = Base + m
  <2>1. Base = c.pos - readPos /\ Base' = c.pos + k - readPos'
    <3>1. main.at = "read"
      BY <1>1
    <3>2. ~Answered /\ ~Answered'
      BY <1>5, <3>1 DEF Answered
    <3>3. Base = c.pos - readPos
      BY <3>2 DEF Base
    <3>4. Base' = c'.pos - readPos'
      BY <3>2 DEF Base
    <3>5. c'.pos = c.pos + k
      BY <1>4
    <3>6. c.pos \in Int /\ k \in Int /\ readPos' \in Int
      BY <1>2
    <3>7. QED BY <3>3, <3>4, <3>5, <3>6
  <2>2. c.pos \in Int /\ k \in Int /\ readPos \in Int /\ readPos' \in Int
    BY <1>2
  <2>3. m = readPos + k - readPos'
    BY <1>a
  <2>4. QED BY <2>1, <2>2, <2>3, SMTT(30)
<1>10. Pending' = Pending /\ Pending \in Int
  <2>1. hook' = hook /\ (bg'.at = "filling" <=> bg.at = "filling")
    BY <1>1, <1>6
  <2>2. hook.ret \in Int
    BY Fields
  <2>3. QED BY <2>1, <2>2 DEF Pending
<1>11. Base' + Len(ring') = Base + Len(ring)
  BY <1>2, <1>3, <1>9
<1>12. Room'
  <2>1. Pending <= hook.pos /\ Pending <= bg.left
        /\ Len(ring) + (IF bg.at = "filling" THEN bg.left ELSE 0) <= Forwards + Backwards
    BY DEF Room
  <2>2. bg'.at = "filling" <=> bg.at = "filling"
    BY <1>6
  <2>3. bg.left \in Nat
    BY Fields
  <2>4. Len(ring') + (IF bg'.at = "filling" THEN bg'.left ELSE 0) <= Forwards + Backwards
    BY <1>2, <1>3, <1>6, <2>1, <2>2, <2>3
  <2>5. QED BY <1>1, <1>6, <1>10, <2>1, <2>4 DEF Room
<1>13. HookAhead' /\ RingEnds'
  BY <1>1, <1>4, <1>6, <1>10, <1>11 DEF HookAhead, RingEnds, Aborting
<1>14. RingInPlace'
  <2>1. SUFFICES ASSUME ~hook.lied, NEW i \in 1 .. Len(ring) - m
                 PROVE  ring'[i] = Base' + i - 1
    BY <1>1, <1>3 DEF RingInPlace
  <2>2. m + i \in 1 .. Len(ring) /\ i \in Int
    BY <1>2
  <2>3. ring[m + i] = Base + (m + i) - 1
    BY <1>1, <2>1, <2>2 DEF RingInPlace, Aborting
  <2>4. ring'[i] = ring[m + i]
    BY <1>3
  <2>5. QED BY <1>2, <1>9, <2>2, <2>3, <2>4
<1>15. QED BY <1>7, <1>8, <1>12, <1>13, <1>14

-----------------------------------------------------------------------------
(* The theorems.                                                           *)

LEMMA InitInv == ASSUME Init PROVE Inv
<1> USE FileSizeAssumption, MaxFaultsAssumption, CapacityAssumption
<1> USE DEF Init, HookInit
<1>1. 0 \in Positions /\ 0 \in Errors \cup {0} /\ 0 \in Nat /\ 0 \in Int
  BY DEF Positions
<1>2. hook \in Hooks /\ c \in Contexts /\ bg \in Tasks
  BY <1>1 DEF Hooks, Contexts, Tasks
<1>3. main \in Mains
  BY DEF Mains
<1>4. TypeOK
  <2>1. ring \in Seq(0 .. FileSize - 1) /\ Len(ring) = 0
    OBVIOUS
  <2>2. faults \in 0 .. MaxFaults /\ readPos \in 0 .. Backwards /\ 0 <= Forwards + Backwards
    OBVIOUS
  <2>3. readPos <= Len(ring) /\ Len(ring) <= Forwards + Backwards
    BY <2>1, <2>2
  <2>4. interrupted \in BOOLEAN
    OBVIOUS
  <2>5. QED BY <1>2, <1>3, <2>1, <2>2, <2>3, <2>4 DEF TypeOK, HookType
<1>5. Calls /\ SeekPending /\ SeekAnswer /\ NoData /\ Wanting
  BY DEF Calls, SeekPending, SeekAnswer, NoData, Wanting
<1>6. Base = 0 /\ Pending = 0 /\ Len(ring) = 0
  BY DEF Base, Answered, Pending
<1>7. Room /\ HookAhead /\ RingEnds /\ RingInPlace
  BY <1>6 DEF Room, HookAhead, RingEnds, RingInPlace
<1>8. QED BY <1>4, <1>5, <1>7 DEF Inv

LEMMA NextInv == ASSUME Inv, [Next]_vars PROVE Inv'
<1>1. CASE OpenCall BY <1>1, OpenInv
<1>2. CASE OpenReturns BY <1>2, OpenReturnsInv
<1>3. CASE CloseCall \/ CloseReturns BY <1>3, CloseInv
<1>4. ASSUME NEW n \in 1 .. MaxRead, ReadCall(n) PROVE Inv'
  BY <1>4, ReadCallInv
<1>5. CASE ReadAborted \/ ReadEof \/ ReadWait BY <1>5, ReadNothingInv
<1>6. CASE ReadSome BY <1>6, ReadSomeInv
<1>7. ASSUME NEW p \in 0 .. FileSize + 1, SeekNowhere(p) \/ SeekForward(p) \/ SeekBack(p) PROVE Inv'
  BY <1>7, SeekNearInv
<1>8. ASSUME NEW p \in 0 .. FileSize + 1, SeekCall(p) PROVE Inv'
  BY <1>8, SeekCallInv
<1>9. CASE SeekReturns BY <1>9, SeekReturnsInv
<1>10. CASE BgStops \/ BgSleep \/ BgRelock BY <1>10, BgStopInv
<1>11. CASE BgSeek BY <1>11, BgSeekInv
<1>12. CASE BgSeekReturns BY <1>12, BgSeekReturnsInv
<1>13. CASE BgFill BY <1>13, BgFillInv
<1>14. CASE BgFilled BY <1>14, BgFilledInv
<1>15. CASE HookStep /\ UNCHANGED <<ring, readPos, c, main, bg>> BY <1>15, HookInv
<1>16. CASE Interrupt /\ UNCHANGED <<ring, readPos, c, main, bg>> BY <1>16, InterruptInv
<1>17. CASE UNCHANGED vars
  BY <1>17 DEF vars, Inv, TypeOK, HookType, Calls, SeekPending, SeekAnswer, Room, HookAhead, RingEnds,
               RingInPlace, NoData, Wanting, Aborting, Base, Answered, Pending
<1>18. QED BY <1>1, <1>2, <1>3, <1>4, <1>5, <1>6, <1>7, <1>8, <1>9, <1>10, <1>11, <1>12, <1>13, <1>14,
              <1>15, <1>16, <1>17 DEF Next, BackgroundStep, MainStep, Call

\* The invariant holds in every state of async_buffer_task, async_read_internal,
\* async_seek and the hook, whatever the network does.
THEOREM AsyncInvariant == Spec => []Inv
<1>1. Init => Inv BY InitInv
<1>2. Inv /\ [Next]_vars => Inv' BY NextInv
<1>3. QED BY <1>1, <1>2, PTL DEF Spec

\* What the two threads and the hook keep has its type; in particular what is
\* written to the ring always fits (ijkasync.c:272).
THEOREM AsyncTypeCorrect == Spec => []TypeOK
<1>1. Inv => TypeOK BY DEF Inv
<1>2. QED BY <1>1, AsyncInvariant, PTL

\* The bytes of the ring are those of the file at its place, for every size of
\* the file, of the ring and of the reads, and any number of failures.
THEOREM RingCorrect == Spec => []RingInPlace
<1>1. Inv => RingInPlace BY DEF Inv
<1>2. QED BY <1>1, AsyncInvariant, PTL

-----------------------------------------------------------------------------
(* The protocol implements FileReader.                                     *)

\* What a read hands over is the file's, from where the reader is.
LEMMA ReadsTheFile ==
    ASSUME Inv, ~hook.lied, ~interrupted, bg.at # "seeking",
           NEW k \in 1 .. FileSize, k <= RingSize
    PROVE  SubSeq(ring, readPos + 1, readPos + k) = [i \in 1 .. k |-> c.pos + i - 1]
           \/ Answered
<1> USE DEF Inv
<1> DEFINE d == SubSeq(ring, readPos + 1, readPos + k)
<1>1. /\ Len(ring) \in Nat /\ readPos \in Nat /\ readPos <= Len(ring) /\ c.pos \in Nat
      /\ FileSize \in Nat /\ ring \in Seq(0 .. FileSize - 1)
  BY Fields
<1>2. k \in Nat /\ readPos + k <= Len(ring)
  BY <1>1 DEF RingSize
<1>3. readPos \in 0 .. Len(ring) /\ readPos + k \in readPos .. Len(ring) /\ readPos + k - readPos = k
  BY <1>1, <1>2
<1>4. /\ d \in Seq(0 .. FileSize - 1) /\ Len(d) = k
      /\ \A i \in 1 .. k : d[i] = ring[readPos + i]
  BY <1>1, <1>3, Behind
<1> HIDE DEF d
<1>5. d \in [1 .. k -> 0 .. FileSize - 1]
  BY <1>4, LenProperties
<1>6. ASSUME ~Answered, NEW i \in 1 .. k
      PROVE  d[i] = c.pos + i - 1
  <2>1. readPos + i \in 1 .. Len(ring) /\ i \in Int
    BY <1>1, <1>2
  <2>2. ring[readPos + i] = Base + (readPos + i) - 1
    BY <2>1 DEF RingInPlace, Aborting
  <2>3. Base = c.pos - readPos
    BY <1>6 DEF Base
  <2>4. d[i] = ring[readPos + i]
    BY <1>4
  <2>5. c.pos \in Int /\ readPos \in Int /\ i \in Int
    BY <1>1, <2>1
  <2>6. QED BY <2>2, <2>3, <2>4, <2>5
<1>7. ~Answered => d = [i \in 1 .. k |-> c.pos + i - 1]
  BY <1>5, <1>6
<1>8. QED BY <1>7 DEF d

\* Every step is one of the reader's, or none.
LEMMA StepOfReader ==
    ASSUME Inv, Inv', [Next]_vars
    PROVE  [File!Next]_<<c.pos, main.data, hook.lied>>
<1>0. /\ hook.lied \in BOOLEAN /\ hook'.lied \in BOOLEAN /\ main \in Mains
      /\ c.pos \in 0 .. FileSize /\ c'.pos \in 0 .. FileSize
  <2>1. TypeOK /\ TypeOK'
    BY DEF Inv
  <2>2. /\ hook \in Hooks /\ hook' \in Hooks /\ c \in Contexts /\ c' \in Contexts /\ main \in Mains
    BY <2>1 DEF TypeOK, HookType
  <2>3. QED BY <2>2 DEF Hooks, Contexts, Positions
<1>1. CASE hook.lied \/ hook'.lied
  BY <1>1 DEF File!Next, File!Astray
<1>2. CASE ~hook.lied /\ ~hook'.lied /\ main'.data = <<>>
  BY <1>0, <1>2 DEF File!Next, File!Seek
<1>3. CASE ~hook.lied /\ ~hook'.lied /\ c'.pos = c.pos /\ main'.data = main.data
  <2>1. hook'.lied = hook.lied
    BY <1>0, <1>3
  <2>2. QED BY <1>3, <2>1
<1>4. CASE ~hook.lied /\ ~hook'.lied /\ ReadSome
  <2>1. PICK k \in 1 .. FileSize, m \in 0 .. Len(ring) :
             /\ k <= RingSize /\ c.pos + k <= FileSize
             /\ c' = [c EXCEPT !.pos = c.pos + k]
             /\ IF main.complete /\ main.got + k < main.want
                THEN main' = [main EXCEPT !.at = "readwait", !.got = main.got + k]
                ELSE ReadReturns(IF main.complete THEN c.pos + k ELSE k,
                                 IF main.complete THEN <<>> ELSE SubSeq(ring, readPos + 1, readPos + k))
             /\ main.at = "read" /\ bg.at # "seeking" /\ ~interrupted
    BY <1>4, ReadSomeFacts
  <2>2. c'.pos = c.pos + k
    BY <2>1, Records DEF Inv, Contexts
  <2>3. CASE main.complete
    <3>1. main.data = <<>>
      BY <2>1 DEF Inv, NoData
    <3>2. main'.data = <<>>
      BY <1>0, <2>1, <2>3, <3>1 DEF ReadReturns, Mains
    <3>3. QED BY <1>2, <1>4, <3>2
  <2>4. CASE ~main.complete
    <3>1. main'.data = SubSeq(ring, readPos + 1, readPos + k)
      BY <1>0, <2>1, <2>4 DEF ReadReturns, Mains
    <3>2. ~Answered
      BY <2>1 DEF Answered
    <3>3. main'.data = [i \in 1 .. k |-> c.pos + i - 1]
      BY <1>4, <2>1, <3>1, <3>2, ReadsTheFile
    <3>4. k \in 1 .. FileSize - c.pos
      BY <1>0, <2>1, FileSizeAssumption
    <3>5. hook'.lied = hook.lied
      BY <1>0, <1>4
    <3>6. File!Read
      BY <2>2, <3>3, <3>4, <3>5 DEF File!Read
    <3>7. QED BY <3>6 DEF File!Next
  <2>5. QED BY <2>3, <2>4, <1>0 DEF Mains
<1>5. main'.data = <<>> \/ (c'.pos = c.pos /\ main'.data = main.data) \/ ReadSome
  <2>1. CASE OpenCall \/ OpenReturns \/ CloseCall \/ CloseReturns \/ ReadWait
    BY <1>0, <2>1 DEF OpenCall, OpenReturns, CloseCall, CloseReturns, ReadWait, Mains
  <2>2. ASSUME NEW n \in 1 .. MaxRead, ReadCall(n) PROVE main'.data = <<>>
    BY <1>0, <2>2 DEF ReadCall, Mains
  <2>3. CASE ReadAborted \/ ReadEof
    BY <1>0, <2>3 DEF ReadAborted, ReadEof, ReadReturns, Mains
  <2>4. ASSUME NEW p \in 0 .. FileSize + 1, SeekNowhere(p) \/ SeekForward(p) \/ SeekBack(p) \/ SeekCall(p)
        PROVE  main'.data = <<>>
    BY <1>0, <2>4 DEF SeekNowhere, SeekForward, SeekBack, SeekCall, Mains
  <2>5. CASE SeekReturns
    <3>1. main.data = <<>>
      BY <2>5 DEF SeekReturns, Inv, NoData
    <3>2. QED BY <1>0, <2>5, <3>1 DEF SeekReturns, Mains
  <2>6. CASE BgStops \/ BgSeekReturns \/ BgSleep \/ BgRelock
    <3>1. main' = WakeMain
      BY <2>6 DEF BgStops, BgSeekReturns, BgSleep, BgRelock
    <3>2. c'.pos = c.pos
      <4>1. c \in Contexts BY Records DEF Inv
      <4>2. QED BY <2>6, <4>1 DEF BgStops, BgSeekReturns, BgSleep, BgRelock, Contexts
    <3>3. QED BY <1>0, <3>1, <3>2, WakeMainType
  <2>7. CASE BgSeek \/ BgFill \/ BgFilled
    BY <2>7 DEF BgSeek, BgFill, BgFilled
  <2>8. CASE UNCHANGED <<ring, readPos, c, main, bg>>
    BY <2>8
  <2>9. QED BY <2>1, <2>2, <2>3, <2>4, <2>5, <2>6, <2>7, <2>8 DEF Next, BackgroundStep, MainStep, Call, vars
<1>6. QED BY <1>1, <1>2, <1>3, <1>4, <1>5

\* The async: protocol with its ring, its background thread and its hook is to
\* the demuxer a file at a position, which reads move by what they hand over.
THEOREM AsyncIsAFile == Spec => IsAFile
<1>1. Init => File!Init
  BY DEF Init, HookInit, File!Init
<1>2. Inv /\ Inv' /\ [Next]_vars => [File!Next]_<<c.pos, main.data, hook.lied>>
  BY StepOfReader
<1>3. QED BY <1>1, <1>2, AsyncInvariant, PTL DEF Spec, IsAFile, File!Spec

-----------------------------------------------------------------------------
(* The two condition variables.                                            *)

\* Whoever goes to sleep wakes the other first.
LEMMA WakesFirst ==
    ASSUME TypeOK, NeverBothWait, [Next]_vars
    PROVE  NeverBothWait'
<1> USE DEF NeverBothWait
<1>0. main \in Mains /\ bg \in Tasks
  BY Records
<1>1. CASE main'.at \notin {"readwait", "seekwait"} \/ bg'.at # "asleep"
  BY <1>1
<1>2. CASE main' = main /\ bg' = bg
  BY <1>2
<1>3. CASE bg' = WakeBackground
  BY <1>0, <1>3 DEF WakeBackground, Tasks
<1>4. CASE main' = WakeMain
  BY <1>0, <1>4 DEF WakeMain, Mains
<1>5. \/ main'.at \notin {"readwait", "seekwait"} \/ bg'.at # "asleep"
      \/ (main' = main /\ bg' = bg) \/ bg' = WakeBackground \/ main' = WakeMain
  <2>1. CASE OpenCall \/ OpenReturns \/ CloseCall \/ CloseReturns
    BY <1>0, <2>1 DEF OpenCall, OpenReturns, CloseCall, CloseReturns, Mains
  <2>2. ASSUME NEW n \in 1 .. MaxRead, ReadCall(n) PROVE main'.at = "read"
    BY <1>0, <2>2 DEF ReadCall, Mains
  <2>3. CASE ReadAborted \/ ReadEof \/ ReadWait \/ ReadSome
    BY <2>3 DEF ReadAborted, ReadEof, ReadWait, ReadSome
  <2>4. ASSUME NEW p \in 0 .. FileSize + 1, SeekNowhere(p) \/ SeekForward(p) \/ SeekBack(p)
        PROVE  main'.at \in {"idle", "read"}
    BY <1>0, <2>4 DEF SeekNowhere, SeekForward, SeekBack, Mains
  <2>5. ASSUME NEW p \in 0 .. FileSize + 1, SeekCall(p)
        PROVE  main'.at = "idle" \/ bg' = WakeBackground
    BY <1>0, <2>5 DEF SeekCall, Mains
  <2>6. CASE SeekReturns
    BY <1>0, <2>6 DEF SeekReturns, Mains
  <2>7. CASE BgStops \/ BgSeekReturns \/ BgSleep \/ BgRelock
    BY <2>7 DEF BgStops, BgSeekReturns, BgSleep, BgRelock
  <2>8. CASE BgSeek \/ BgFill \/ BgFilled
    BY <1>0, <2>8 DEF BgSeek, BgFill, BgFilled, Tasks
  <2>9. CASE UNCHANGED <<ring, readPos, c, main, bg>>
    BY <2>9
  <2>10. QED BY <2>1, <2>2, <2>3, <2>4, <2>5, <2>6, <2>7, <2>8, <2>9
             DEF Next, BackgroundStep, MainStep, Call, vars
<1>6. QED BY <1>1, <1>2, <1>3, <1>4, <1>5

\* The reader and the background thread never wait for one another.
THEOREM AsyncNeverBothWait == Spec => []NeverBothWait
<1>1. Init => NeverBothWait
  BY DEF Init, NeverBothWait
<1>2. TypeOK /\ NeverBothWait /\ [Next]_vars => NeverBothWait'
  BY WakesFirst
<1>3. QED BY <1>1, <1>2, AsyncTypeCorrect, PTL DEF Spec

-----------------------------------------------------------------------------
(* What `end of file' means.                                               *)

\* What the hook's answers say when there are no bytes.
EndTold ==
    /\ bg.at \in {"filling", "relock"} /\ hook.call = "none" =>
         /\ hook.ret = 0 => hook.declined
         /\ hook.ret < 0 /\ hook.ret # Exit => hook.pos = FileSize
    /\ bg.at = "seeking" /\ hook.call = "none" => hook.ret >= 0 \/ hook.ret = Exit
    /\ bg.at = "relock" => ~c.eof /\ hook.call = "none" /\ (bg.got = 0 => hook.ret <= 0)
    /\ ~c.eof => c.err = 0
    /\ c.seekRet >= 0 \/ c.seekRet = Exit

\* While the background thread seeks, the reader is in a seek too.
SeekWaited == bg.at = "seeking" => main.at \in {"seekwait", "seek"}

\* An end without an error is where the ring reaches the end of the file.
EofKnown ==
    ~Aborting /\ bg.at # "seeking" /\ c.eof /\ c.err \in {0, Eof} =>
        hook.lied \/ hook.declined \/ Base + Len(ring) = FileSize

\* Before the first call there is no answer.
NoAnswer == main.at \in {"new", "opening"} => main.ret = 0

Ends == EndTold /\ SeekWaited /\ EofKnown /\ NoAnswer /\ EofIsTheEnd

\* A read of the hook that gives no byte was left alone by the application, or
\* the connection is at the end of the file; a seek of it never fails.
LEMMA HookEnds ==
    ASSUME HookType, hook.call = "seek" => hook.arg \in Positions, HookStep
    PROVE  /\ hook.declined => hook'.declined
           /\ hook.call = "read" /\ hook'.call = "none" =>
                /\ hook'.ret = 0 => hook'.declined
                /\ hook'.ret < 0 /\ hook'.ret # Exit => hook'.pos = FileSize
           /\ hook.call = "seek" /\ hook'.call = "none" => hook'.ret >= 0 \/ hook'.ret = Exit
<1> USE FileSizeAssumption, MaxFaultsAssumption
<1> DEFINE Num == Positions \cup Errors
<1>0. /\ hook \in Hooks /\ 0 \in Num /\ Errors \subseteq Num /\ hook.pos \in Positions
      /\ Eio \in Num /\ Exit \in Num /\ Exit < 0 /\ Positions \subseteq Nat
      /\ \A e \in Errors : e \in Int /\ e < 0
  BY DEF HookType, Hooks, Positions, Errors, Eof, Eio, Exit, Einval
<1>1. CASE TryRead
  <2>0. hook.call = "read"
    BY <1>1 DEF TryRead
  <2>1. CASE hook.err < 0 /\ hook' = AfterRead(hook, hook.err)
    <3>1. hook.err \in Num /\ hook.err \in Int
      BY <1>0, <2>1 DEF Hooks
    <3>2. hook' = AfterRead(hook, hook.err)
      BY <2>1
    <3> DEFINE e == hook.err
    <3>3. e \in Num /\ e \in Int /\ e < 0 /\ hook' = AfterRead(hook, e)
      BY <2>1, <3>1, <3>2
    <3> HIDE DEF e
    <3>4. /\ hook'.pos = hook.pos /\ hook'.declined = hook.declined
          /\ e # Exit /\ hook'.call # hook.call => hook.pos = FileSize
          /\ hook'.call = hook.call \/ hook'.ret = e
      BY <1>0, <3>3, AfterReadType
    <3>5. QED BY <2>0, <3>3, <3>4
  <2>2. CASE \E o \in InnerRead(IF hook.arg < FileSize - hook.pos THEN hook.arg ELSE FileSize - hook.pos) :
                hook' = AfterRead([hook EXCEPT !.pos = IF o.r > 0 THEN @ + o.r ELSE @,
                                               !.err = IF o.r > 0 THEN @ ELSE o.r], o.r)
    <3> DEFINE n == IF hook.arg < FileSize - hook.pos THEN hook.arg ELSE FileSize - hook.pos
    <3>1. PICK o \in InnerRead(n) :
                hook' = AfterRead([hook EXCEPT !.pos = IF o.r > 0 THEN @ + o.r ELSE @,
                                               !.err = IF o.r > 0 THEN @ ELSE o.r], o.r)
      BY <2>2
    <3> DEFINE h == [hook EXCEPT !.pos = IF o.r > 0 THEN @ + o.r ELSE @,
                                 !.err = IF o.r > 0 THEN @ ELSE o.r]
    <3>2. n \in Nat /\ hook.pos + n <= FileSize
      BY <1>0 DEF Positions, Hooks
    <3>3. o.r \in 1 .. n \/ o.r \in {Eof, Eio, Exit}
      <4>1. o \in [r : 1 .. n, cost : {0}] \/ o \in [r : {Eof, Eio, Exit}, cost : {0, 1}]
        BY <3>1 DEF InnerRead
      <4>2. QED BY <4>1
    <3>4. o.r \in Int /\ (o.r > 0 => o.r <= n) /\ (o.r <= 0 => o.r \in Errors) /\ o.r # 0
      BY <3>2, <3>3 DEF Errors, Eof, Eio, Exit, Einval
    <3>5. o.r \in Num
      BY <1>0, <3>2, <3>4 DEF Positions
    <3>6. h \in Hooks /\ h.call = hook.call /\ h.declined = hook.declined
      <4> DEFINE p == IF o.r > 0 THEN hook.pos + o.r ELSE hook.pos
      <4> DEFINE e == IF o.r > 0 THEN hook.err ELSE o.r
      <4>1. p \in Positions
        BY <1>0, <3>2, <3>4 DEF Positions
      <4>2. e \in Errors \cup {0}
        BY <1>0, <3>4 DEF Hooks
      <4>3. h = [hook EXCEPT !.pos = p, !.err = e]
        OBVIOUS
      <4> HIDE DEF h, p, e
      <4>4. QED BY <1>0, <4>1, <4>2, <4>3 DEF Hooks
    <3>7. hook' = AfterRead(h, o.r)
      BY <3>1
    <3> HIDE DEF h, n
    <3>8. QED BY <1>0, <2>0, <3>4, <3>5, <3>6, <3>7, AfterReadType
  <2>3. QED BY <1>1, <2>1, <2>2 DEF TryRead
<1>2. CASE Reconnect
  <2>1. CASE hook.call = "open"
    <3>1. Returned(hook, 0).declined = hook.declined /\ Returned(hook, Exit).declined = hook.declined
            /\ Returned(hook, 0) \in Hooks
      BY <1>0, ReturnedType
    <3>2. QED BY <1>0, <1>2, <2>1, <3>1 DEF Reconnect, Hooks
  <2>2. CASE hook.call = "read"
    <3>1. /\ ReadReturned(hook, Exit).declined = hook.declined /\ ReadReturned(hook, Exit).ret = Exit
      BY <1>0, ReadReturnedType
    <3>2. \/ hook' = [hook EXCEPT !.err = 0, !.step = "try"]
          \/ hook' = [hook EXCEPT !.step = "inject"]
          \/ hook' = ReadReturned(hook, Exit)
      BY <1>2, <2>2 DEF Reconnect
    <3>3. CASE hook' = ReadReturned(hook, Exit)
      BY <1>0, <2>2, <3>1, <3>3
    <3>4. CASE hook' # ReadReturned(hook, Exit)
      BY <1>0, <2>2, <3>2, <3>4 DEF Hooks
    <3>5. QED BY <3>3, <3>4
  <2>3. QED BY <1>2, <2>1, <2>2 DEF Reconnect
<1>3. CASE TrySeek
  <2>0. hook.call = "seek" /\ hook.arg \in Positions
    BY <1>3 DEF TrySeek
  <2>1. CASE hook' = [Returned(hook, hook.arg) EXCEPT !.pos = hook.arg, !.err = 0, !.lied = FALSE]
    <3> DEFINE p == hook.arg
    <3>0. p \in Num /\ p \in Nat /\ hook' = [Returned(hook, p) EXCEPT !.pos = p, !.err = 0, !.lied = FALSE]
      BY <1>0, <2>0, <2>1
    <3> HIDE DEF p
    <3>1. Returned(hook, p) \in Hooks /\ Returned(hook, p).ret = p /\ Returned(hook, p).declined = hook.declined
      BY <1>0, <3>0, ReturnedType
    <3>2. hook'.ret = p /\ hook'.declined = hook.declined
      BY <3>0, <3>1 DEF Hooks
    <3>3. QED BY <2>0, <3>0, <3>2
  <2>2. CASE hook' = [hook EXCEPT !.err = Eio, !.step = "inject"]
    BY <1>0, <2>0, <2>2 DEF Hooks
  <2>3. ASSUME NEW e \in {Eof, Exit}, hook' = [Returned(hook, 0) EXCEPT !.err = e, !.lied = TRUE]
        PROVE  hook'.ret = 0 /\ hook'.declined = hook.declined
    <3>1. /\ Returned(hook, 0) \in Hooks /\ Returned(hook, 0).ret = 0
          /\ Returned(hook, 0).declined = hook.declined
      BY <1>0, ReturnedType
    <3>2. QED BY <2>3, <3>1 DEF Hooks
  <2>4. QED BY <1>3, <2>0, <2>1, <2>2, <2>3 DEF TrySeek
<1>4. CASE Ask \/ Handled
  BY <1>0, <1>4 DEF Ask, Handled, Hooks
<1>5. CASE NotHandled
  <2>1. CASE hook.call = "read"
    <3>1. hook' = [ReadReturned(hook, 0) EXCEPT !.declined = TRUE]
      BY <1>5, <2>1 DEF NotHandled
    <3>2. ReadReturned(hook, 0) \in Hooks /\ ReadReturned(hook, 0).ret = 0
      BY <1>0, ReadReturnedType
    <3>3. QED BY <2>1, <3>1, <3>2 DEF Hooks
  <2>2. CASE hook.call = "seek"
    <3>1. hook' = [Returned(hook, 0) EXCEPT !.lied = TRUE]
      BY <1>5, <2>2 DEF NotHandled
    <3>2. /\ Returned(hook, 0) \in Hooks /\ Returned(hook, 0).ret = 0
          /\ Returned(hook, 0).declined = hook.declined
      BY <1>0, ReturnedType
    <3>3. QED BY <2>2, <3>1, <3>2 DEF Hooks
  <2>3. CASE hook.call = "open"
    <3>1. hook' = Returned(hook, Eio)
      BY <1>5, <2>3 DEF NotHandled
    <3>2. QED BY <1>0, <2>3, <3>1, ReturnedType
  <2>4. QED BY <1>0, <1>5, <2>1, <2>2, <2>3 DEF NotHandled, Hooks
<1>6. CASE Refused
  <2>1. hook'.ret = Exit /\ hook'.declined = hook.declined
    BY <1>0, <1>6, ReturnedType, ReadReturnedType, ZenonT(30) DEF Refused
  <2>2. QED BY <1>0, <2>1
<1>7. QED BY <1>1, <1>2, <1>3, <1>4, <1>5, <1>6 DEF HookStep

\* A step that leaves the hook and the end of the ring alone.
LEMMA QuietEnds ==
    ASSUME Inv, Inv', Ends, UNCHANGED hook, interrupted => interrupted',
           \/ bg'.at = bg.at /\ bg'.got = bg.got
           \/ {bg.at, bg'.at} \cap {"filling", "seeking", "relock"} = {},
           c'.eof = c.eof, c'.err = c.err, c'.seekRet = c.seekRet \/ c'.seekRet = 0,
           ~interrupted' => Base' + Len(ring') = Base + Len(ring),
           bg.at = "seeking" => main'.at \in {"seekwait", "seek"},
           main'.at \in {"new", "opening"} => main'.ret = 0,
           main'.at = "idle" /\ main'.ret = Eof => c'.pos = FileSize \/ hook.lied \/ hook.declined
    PROVE  Ends'
<1> USE DEF Ends
<1>1. EndTold'
  <2>1. CASE bg'.at = bg.at /\ bg'.got = bg.got
    BY <2>1 DEF EndTold
  <2>2. CASE {bg.at, bg'.at} \cap {"filling", "seeking", "relock"} = {}
    <3>1. bg'.at \notin {"filling", "seeking", "relock"}
      BY <2>2
    <3>2. (~c'.eof => c'.err = 0) /\ (c'.seekRet >= 0 \/ c'.seekRet = Exit)
      BY DEF EndTold
    <3>3. QED BY <3>1, <3>2 DEF EndTold
  <2>3. QED BY <2>1, <2>2
<1>2. SeekWaited' /\ NoAnswer' /\ EofIsTheEnd'
  BY DEF SeekWaited, NoAnswer, EofIsTheEnd
<1>3. EofKnown'
  BY DEF EofKnown, Aborting
<1>4. QED BY <1>1, <1>2, <1>3

\* A step of the reader that leaves its position and the ring alone.
LEMMA ReaderEnds ==
    ASSUME Inv, Inv', Ends, UNCHANGED <<hook, ring, readPos, c>>, interrupted => interrupted',
           bg' = WakeBackground \/ bg' = bg \/ (bg.at = "none" /\ bg'.at = "top"),
           main.at \notin {"seek", "seekwait"}, main'.at \notin {"seek", "seekwait", "new"},
           main'.at = "opening" => main'.ret = 0,
           main'.at = "idle" /\ main'.ret = Eof => c.pos = FileSize \/ hook.lied \/ hook.declined
    PROVE  Ends'
<1>1. Base' = Base
  BY DEF Base, Answered
<1>2. \/ bg'.at = bg.at /\ bg'.got = bg.got
      \/ {bg.at, bg'.at} \cap {"filling", "seeking", "relock"} = {}
  BY Records, WakeBackgroundType DEF Inv
<1>3. bg.at # "seeking"
  BY DEF Ends, SeekWaited
<1>4. QED BY <1>1, <1>2, <1>3, QuietEnds

\* Opening and closing.
LEMMA OpenCloseEnds ==
    ASSUME Inv, Inv', Ends, OpenReturns \/ CloseCall \/ CloseReturns
    PROVE  Ends'
<1>0. main \in Mains /\ bg \in Tasks
  BY Records DEF Inv
<1>1. CASE OpenReturns
  <2>1. bg.at = "none" /\ main.ret = 0
    BY <1>1 DEF OpenReturns, Inv, Calls, Ends, NoAnswer
  <2>2. main'.at \in {"idle", "closed"} /\ (main'.at = "idle" => main'.ret = 0) /\ bg'.at \in {"none", "top"}
          /\ (bg' = bg \/ bg'.at = "top")
    BY <1>0, <1>1, <2>1 DEF OpenReturns, Mains, Tasks
  <2>3. QED BY <1>1, <2>1, <2>2, ReaderEnds DEF OpenReturns, Eof
<1>2. CASE CloseCall
  BY <1>0, <1>2, ReaderEnds DEF CloseCall, Mains
<1>3. CASE CloseReturns
  BY <1>0, <1>3, ReaderEnds DEF CloseReturns, Mains
<1>4. QED BY <1>1, <1>2, <1>3

\* A read that finds nothing says why.
LEMMA ReadNothingEnds ==
    ASSUME Inv, Inv', Ends, ReadAborted \/ ReadEof \/ ReadWait
    PROVE  Ends'
<1>0. main \in Mains /\ <<>> \in Seq(0 .. FileSize - 1) /\ c.pos \in Nat /\ Len(ring) \in Nat /\ readPos \in Nat
        /\ c.err \in Int /\ FileSize \in Nat
  <2>1. c.err \in Int
    BY Records DEF Inv, Contexts, Errors, Eof, Eio, Exit, Einval
  <2>2. QED BY <2>1, Fields, Records DEF Inv
<1>1. CASE ReadAborted
  <2> DEFINE r == IF main.complete THEN c.pos ELSE Exit
  <2>0. r \in Int /\ r \in {c.pos, Exit} /\ ReadReturns(r, <<>>)
    BY <1>0, <1>1, Numbers DEF ReadAborted
  <2> HIDE DEF r
  <2>1. main'.at = "idle" /\ main'.ret \in {c.pos, Exit}
    BY <1>0, <2>0, Returns
  <2>2. main'.ret # Eof
    BY <1>0, <2>1 DEF Eof, Exit
  <2>3. QED BY <1>1, <2>1, <2>2, ReaderEnds DEF ReadAborted
<1>2. CASE ReadEof
  <2>0. /\ main.at = "read" /\ bg.at # "seeking" /\ ~interrupted /\ RingSize = 0 /\ c.eof
        /\ UNCHANGED <<hook, interrupted, ring, readPos, c>> /\ bg' = WakeBackground
    BY <1>2 DEF ReadEof, Aborting
  <2> DEFINE r == IF main.complete THEN c.pos ELSE IF c.err # 0 THEN c.err ELSE Eof
  <2>a. r \in Int /\ ReadReturns(r, <<>>)
    BY <1>0, <1>2, Numbers DEF ReadEof
  <2> HIDE DEF r
  <2>1. main'.at = "idle" /\ main'.ret = r
    BY <1>0, <2>a, Returns
  <2>2. ASSUME main'.ret = Eof, ~hook.lied, ~hook.declined
        PROVE  c.pos = FileSize
    <3>1. c.err \in {0, Eof}
      BY <1>0, <2>1, <2>2 DEF Eof, r
    <3>2. Base + Len(ring) = FileSize
      BY <2>0, <2>2, <3>1 DEF Ends, EofKnown, Aborting
    <3>3. Base = c.pos - readPos
      BY <2>0 DEF Base, Answered
    <3>4. Len(ring) = readPos
      BY <1>0, <2>0 DEF RingSize
    <3>5. QED BY <1>0, <3>2, <3>3, <3>4
  <2>3. QED BY <2>0, <2>1, <2>2, ReaderEnds
<1>3. CASE ReadWait
  BY <1>0, <1>3, ReaderEnds DEF ReadWait, Mains
<1>4. QED BY <1>1, <1>2, <1>3

\* A read of bytes returns how many.
LEMMA ReadSomeEnds == ASSUME Inv, Inv', Ends, ReadSome PROVE Ends'
<1>1. PICK k \in 1 .. FileSize, m \in 0 .. Len(ring) :
             /\ k <= RingSize /\ c.pos + k <= FileSize
             /\ ring' = SubSeq(ring, m + 1, Len(ring)) /\ m = readPos + k - readPos'
             /\ readPos' \in 0 .. Backwards
             /\ c' = [c EXCEPT !.pos = c.pos + k]
             /\ IF main.complete /\ main.got + k < main.want
                THEN main' = [main EXCEPT !.at = "readwait", !.got = main.got + k]
                ELSE ReadReturns(IF main.complete THEN c.pos + k ELSE k,
                                 IF main.complete THEN <<>> ELSE SubSeq(ring, readPos + 1, readPos + k))
             /\ bg' = WakeBackground /\ UNCHANGED <<hook, faults, interrupted>>
             /\ main.at = "read" /\ bg.at # "seeking" /\ ~interrupted
  BY ReadSomeFacts
<1>2. /\ Len(ring) \in Nat /\ readPos \in Nat /\ c.pos \in Nat /\ FileSize \in Nat /\ readPos' \in Int
      /\ ring \in Seq(0 .. FileSize - 1) /\ c \in Contexts /\ main \in Mains /\ k \in Nat /\ m \in Nat /\ k > 0
  <2>1. /\ Len(ring) \in Nat /\ readPos \in Nat /\ c.pos \in Nat /\ FileSize \in Nat
        /\ ring \in Seq(0 .. FileSize - 1) /\ c \in Contexts /\ main \in Mains
    BY Fields DEF Inv
  <2>2. readPos' \in 0 .. Backwards
    BY <1>1
  <2>3. QED BY <2>1, <2>2
<1>3. Len(ring') = Len(ring) - m
  <2>1. Len(ring) \in m .. Len(ring)
    BY <1>2
  <2>2. QED BY <1>1, <1>2, <2>1, Behind, ZenonT(30)
<1>4. /\ c'.pos = c.pos + k /\ c'.eof = c.eof /\ c'.err = c.err /\ c'.seekRet = c.seekRet
  <2> DEFINE p == c.pos + k
  <2>1. c' = [c EXCEPT !.pos = p]
    BY <1>1
  <2> HIDE DEF p
  <2>2. c'.pos = p /\ c'.eof = c.eof /\ c'.err = c.err /\ c'.seekRet = c.seekRet
    BY <1>2, <2>1 DEF Contexts
  <2>3. QED BY <2>2 DEF p
<1>5. main'.at = "readwait" \/ (main'.at = "idle" /\ main'.ret # Eof)
  <2>1. CASE main.complete /\ main.got + k < main.want
    <3> DEFINE g == main.got + k
    <3>1. main' = [main EXCEPT !.at = "readwait", !.got = g]
      BY <1>1, <2>1
    <3> HIDE DEF g
    <3>2. QED BY <1>2, <3>1 DEF Mains
  <2>2. CASE ~(main.complete /\ main.got + k < main.want)
    <3> DEFINE r == IF main.complete THEN c.pos + k ELSE k
    <3> DEFINE d == IF main.complete THEN <<>> ELSE SubSeq(ring, readPos + 1, readPos + k)
    <3>1. ReadReturns(r, d)
      BY <1>1, <2>2
    <3>2. r \in Int /\ r > 0
      BY <1>2
    <3> HIDE DEF r, d
    <3>3. main'.at = "idle" /\ main'.ret = r
      BY <1>2, <3>1 DEF ReadReturns, Mains
    <3>4. QED BY <3>2, <3>3 DEF Eof
  <2>3. QED BY <2>1, <2>2
<1>6. Base' + Len(ring') = Base + Len(ring)
  <2>1. ~Answered /\ ~Answered'
    BY <1>1, <1>5 DEF Answered
  <2>2. Base = c.pos - readPos /\ Base' = c'.pos - readPos'
    BY <2>1 DEF Base
  <2>3. m = readPos + k - readPos' /\ readPos' \in Int
    BY <1>1, <1>2
  <2>4. c'.pos = c.pos + k
    BY <1>4
  <2>5. Len(ring) \in Int /\ c.pos \in Int /\ readPos \in Int /\ k \in Int /\ readPos' \in Int /\ m \in Int
    BY <1>2
  <2>6. Base = c.pos - readPos /\ Len(ring') = Len(ring) - m
    BY <1>3, <2>2
  <2>7. Base' = (c.pos + k) - readPos'
    BY <2>2, <2>4
  <2>8. \A l, pos, r, r1, n \in Int : ((pos + n) - r1) + (l - (r + n - r1)) = (pos - r) + l
    OBVIOUS
  <2>9. ((c.pos + k) - readPos') + (Len(ring) - (readPos + k - readPos')) = (c.pos - readPos) + Len(ring)
    BY <2>5, <2>8
  <2>10. QED BY <2>3, <2>6, <2>7, <2>9, Zenon
<1>7. \/ bg'.at = bg.at /\ bg'.got = bg.got
      \/ {bg.at, bg'.at} \cap {"filling", "seeking", "relock"} = {}
  BY <1>1, Records, WakeBackgroundType DEF Inv
<1>8. QED BY <1>1, <1>4, <1>5, <1>6, <1>7, QuietEnds

\* A short seek moves the reader over the ring; a seek that is asked for, or
\* nowhere, leaves it where it is.
LEMMA SeekEnds ==
    ASSUME Inv, Inv', Ends, NEW p \in 0 .. FileSize + 1,
           SeekNowhere(p) \/ SeekForward(p) \/ SeekBack(p) \/ SeekCall(p)
    PROVE  Ends'
<1>0. /\ main \in Mains /\ c \in Contexts /\ bg \in Tasks /\ p \in Int /\ p >= 0 /\ Len(ring) \in Int
      /\ c.pos \in Int /\ readPos \in Int
  BY Fields DEF Inv
<1>1. CASE SeekNowhere(p)
  <2>1. main.at = "idle" /\ main'.at = "idle" /\ main'.ret \in {p, Einval}
    BY <1>0, <1>1, Numbers DEF SeekNowhere, Mains
  <2>2. main'.ret # Eof
    BY <1>0, <2>1 DEF Eof, Einval
  <2>3. QED BY <1>1, <2>1, <2>2, ReaderEnds DEF SeekNowhere
<1>2. CASE SeekForward(p)
  <2>1. p - c.pos \in Nat
    BY <1>0, <1>2 DEF SeekForward
  <2>2. main.at = "idle" /\ main'.at = "read"
    BY <1>0, <1>2, <2>1, Begins DEF SeekForward
  <2>3. QED BY <1>2, <2>2, ReaderEnds DEF SeekForward
<1>3. CASE SeekBack(p)
  <2>1. main.at = "idle" /\ main'.at = "idle" /\ main'.ret = p /\ UNCHANGED <<hook, interrupted, ring, bg>>
    BY <1>0, <1>3 DEF SeekBack, Mains
  <2>2. c'.pos = p /\ c'.eof = c.eof /\ c'.err = c.err /\ c'.seekRet = c.seekRet
    BY <1>0, <1>3 DEF SeekBack, Contexts
  <2>3. Base = c.pos - readPos /\ Base' = p - readPos' /\ readPos' = readPos - (c.pos - p)
    BY <1>3, <2>1, <2>2 DEF Base, Answered, SeekBack
  <2>4. Base' = Base
    BY <1>0, <2>3
  <2>5. main'.ret # Eof /\ bg.at # "seeking"
    BY <1>0, <2>1 DEF Eof, Ends, SeekWaited
  <2>6. QED BY <2>1, <2>2, <2>4, <2>5, QuietEnds
<1>4. CASE SeekCall(p)
  <2>1. /\ main.at = "idle" /\ main'.at \in {"idle", "seekwait"} /\ (main'.at = "idle" => main'.ret = Exit)
    BY <1>0, <1>4, Numbers DEF SeekCall, Mains
  <2>2. /\ c'.pos = c.pos /\ c'.eof = c.eof /\ c'.err = c.err /\ c'.seekRet = 0 /\ ~c'.seekDone
    BY <1>0, <1>4 DEF SeekCall, Contexts
  <2>3. Base' = Base /\ UNCHANGED <<hook, interrupted, ring>> /\ bg.at # "seeking"
    BY <1>4, <2>1, <2>2 DEF Base, Answered, SeekCall
  <2>4. \/ bg'.at = bg.at /\ bg'.got = bg.got
        \/ {bg.at, bg'.at} \cap {"filling", "seeking", "relock"} = {}
    BY <1>0, <1>4, WakeBackgroundType DEF SeekCall
  <2>5. QED BY <2>1, <2>2, <2>3, <2>4, QuietEnds DEF Exit, Eof
<1>5. QED BY <1>1, <1>2, <1>3, <1>4

\* A seek returns its position or that it was told to stop.
LEMMA SeekReturnsEnds == ASSUME Inv, Inv', Ends, SeekReturns PROVE Ends'
<1>0. /\ main.at = "seek" /\ bg.at # "seeking" /\ UNCHANGED <<hook, faults, interrupted, ring, readPos>>
      /\ main \in Mains /\ c \in Contexts /\ bg \in Tasks /\ c.seekRet \in Int
  BY Fields DEF SeekReturns, Inv
<1>1. CASE Aborting /\ main' = [main EXCEPT !.at = "idle", !.ret = Exit] /\ UNCHANGED <<c, bg>>
  <2>1. main'.at = "idle" /\ main'.ret = Exit /\ Exit # Eof
    BY <1>0, <1>1 DEF Mains, Eof, Exit
  <2>2. QED BY <1>0, <1>1, <2>1, QuietEnds DEF Aborting
<1>2. CASE /\ ~Aborting /\ c.seekDone
           /\ main' = [main EXCEPT !.at = "idle", !.ret = c.seekRet]
           /\ c' = [c EXCEPT !.pos = IF c.seekRet >= 0 THEN c.seekRet ELSE @,
                             !.seekPos = 0, !.seekDone = FALSE, !.seekRet = 0]
           /\ UNCHANGED bg
  <2>1. main'.at = "idle" /\ main'.ret = c.seekRet
    BY <1>0, <1>2 DEF Mains
  <2>2. main'.ret # Eof
    BY <1>0, <2>1 DEF Ends, EndTold, Eof, Exit
  <2> DEFINE pos == IF c.seekRet >= 0 THEN c.seekRet ELSE c.pos
  <2>3. c' = [c EXCEPT !.pos = pos, !.seekPos = 0, !.seekDone = FALSE, !.seekRet = 0]
    BY <1>2
  <2> HIDE DEF pos
  <2>4. c'.pos = pos /\ c'.eof = c.eof /\ c'.err = c.err /\ c'.seekRet = 0
    BY <1>0, <2>3 DEF Contexts
  <2>5. Base' = Base
    BY <1>0, <1>2, <2>1, <2>4 DEF Base, Answered, pos
  <2>6. QED BY <1>0, <1>2, <2>1, <2>2, <2>4, <2>5, QuietEnds
<1>3. CASE ~Aborting /\ ~c.seekDone /\ main' = [main EXCEPT !.at = "seekwait"] /\ bg' = WakeBackground /\ UNCHANGED c
  <2>1. main'.at = "seekwait"
    BY <1>0, <1>3 DEF Mains
  <2>2. Base' = Base
    BY <1>0, <1>3, <2>1 DEF Base, Answered
  <2>3. \/ bg'.at = bg.at /\ bg'.got = bg.got
        \/ {bg.at, bg'.at} \cap {"filling", "seeking", "relock"} = {}
    BY <1>0, <1>3, WakeBackgroundType
  <2>4. QED BY <1>0, <1>3, <2>1, <2>2, <2>3, QuietEnds
<1>4. QED BY <1>1, <1>2, <1>3 DEF SeekReturns

\* The background thread seeks, or stops.
LEMMA BgSeekEnds ==
    ASSUME Inv, Inv', Ends, BgStops \/ BgSeek \/ BgSeekReturns
    PROVE  Ends'
<1> USE DEF Ends
<1>0. main \in Mains /\ c \in Contexts /\ bg \in Tasks /\ hook \in Hooks /\ FileSize \in Nat
      /\ hook.ret \in Int /\ hook.pos \in Nat
  BY Fields DEF Inv
<1>1. CASE BgStops
  <2>1. /\ bg.at = "top" /\ interrupted' /\ main' = WakeMain /\ bg'.at = "gone" /\ c'.eof /\ c'.pos = c.pos
        /\ c'.seekRet = c.seekRet /\ hook' = hook
    BY <1>0, <1>1 DEF BgStops, Aborting, Tasks, Contexts
  <2>2. main'.ret = main.ret /\ (main'.at = "idle" <=> main.at = "idle")
        /\ (main'.at \in {"new", "opening"} <=> main.at \in {"new", "opening"})
    BY <1>0, <2>1, WakeMainType
  <2>3. EndTold' /\ SeekWaited' /\ EofKnown' /\ NoAnswer' /\ EofIsTheEnd'
    BY <2>1, <2>2 DEF EndTold, SeekWaited, EofKnown, NoAnswer, EofIsTheEnd, Aborting
  <2>4. QED BY <2>3
<1>2. CASE BgSeek
  <2>1. /\ bg.at = "top" /\ bg'.at = "seeking" /\ c' = c /\ main' = main /\ main.at \in {"seekwait", "seek"}
    BY <1>0, <1>2 DEF BgSeek, Tasks, Inv, SeekPending
  <2>2. hook'.call = "none" => hook'.ret >= 0
    <3>1. CASE c.seekPos = hook.pos
      <4>1. hook' = [Returned(hook, hook.pos) EXCEPT !.lied = FALSE] /\ hook.pos \in Positions \cup Errors
        BY <1>0, <1>2, <3>1 DEF BgSeek, CallHookSeek, Hooks
      <4>2. Returned(hook, hook.pos) \in Hooks /\ Returned(hook, hook.pos).ret = hook.pos
        BY <1>0, <4>1, ReturnedType
      <4>3. QED BY <1>0, <4>1, <4>2 DEF Hooks
    <3>2. CASE c.seekPos # hook.pos
      BY <1>0, <1>2, <3>2 DEF BgSeek, CallHookSeek, Hooks
    <3>3. QED BY <3>1, <3>2
  <2>3. EndTold' /\ SeekWaited' /\ EofKnown' /\ NoAnswer' /\ EofIsTheEnd'
    BY <2>1, <2>2 DEF EndTold, SeekWaited, EofKnown, NoAnswer, EofIsTheEnd
  <2>4. QED BY <2>3
<1>3. CASE BgSeekReturns
  <2>1. /\ bg.at = "seeking" /\ bg'.at = "top" /\ main' = WakeMain /\ hook' = hook
        /\ hook.ret >= 0 \/ hook.ret = Exit
    BY <1>0, <1>3 DEF BgSeekReturns, Tasks, EndTold
  <2>2. /\ c'.eof = (hook.ret < 0) /\ c'.err = (IF hook.ret < 0 THEN hook.ret ELSE 0) /\ c'.seekRet = hook.ret
    BY <1>0, <1>3 DEF BgSeekReturns, Contexts
  <2>3. main'.ret = main.ret /\ main'.at \notin {"idle", "new", "opening"}
    <3>1. main.at \in {"seekwait", "seek"}
      BY <2>1 DEF SeekWaited
    <3>2. QED BY <1>0, <2>1, <3>1, WakeMainType
  <2>4. EndTold'
    BY <1>0, <2>1, <2>2 DEF EndTold
  <2>5. EofKnown'
    <3>1. c'.eof => c'.err = Exit
      <4>1. CASE hook.ret < 0
        <5>1. hook.ret = Exit
          BY <1>0, <2>1, <4>1
        <5>2. QED BY <2>2, <4>1, <5>1, Zenon
      <4>2. CASE ~(hook.ret < 0)
        BY <2>2, <4>2, Zenon
      <4>3. QED BY <4>1, <4>2
    <3>2. c'.eof => c'.err \notin {0, Eof}
      BY <3>1 DEF Exit, Eof
    <3>3. QED BY <3>2 DEF EofKnown
  <2>6. SeekWaited' /\ NoAnswer' /\ EofIsTheEnd'
    BY <2>1, <2>3 DEF SeekWaited, NoAnswer, EofIsTheEnd
  <2>7. QED BY <2>4, <2>5, <2>6
<1>4. QED BY <1>1, <1>2, <1>3

\* A turn of reading ahead that gave nothing is the end, for one of the reasons.
LEMMA BgFillEnds ==
    ASSUME Inv, Inv', Ends, BgFill \/ BgFilled \/ BgRelock
    PROVE  Ends'
<1> USE DEF Ends
<1>0. main \in Mains /\ c \in Contexts /\ bg \in Tasks /\ hook \in Hooks /\ FileSize \in Nat
      /\ hook.ret \in Int /\ hook.pos \in Nat /\ bg.got \in Nat /\ Base \in Int /\ Len(ring) \in Nat
  BY Fields DEF Inv, Tasks
<1>1. CASE BgFill
  <2>1. bg.at = "top" /\ bg'.at = "filling" /\ c' = c /\ main' = main /\ hook'.call = "read"
        /\ ~c.eof /\ hook'.lied = hook.lied /\ hook'.declined = hook.declined
    BY <1>0, <1>1 DEF BgFill, CallHookRead, Hooks, Tasks
  <2>2. EndTold' /\ SeekWaited' /\ EofKnown' /\ NoAnswer' /\ EofIsTheEnd'
    BY <2>1 DEF EndTold, SeekWaited, EofKnown, NoAnswer, EofIsTheEnd
  <2>3. QED BY <2>2
<1>2. CASE BgFilled
  <2>1. /\ bg.at = "filling" /\ hook.call = "none" /\ ~c.eof /\ c' = c /\ main' = main
    BY <1>2 DEF BgFilled, Inv, Calls
  <2>2. \/ bg'.at = "filling" /\ hook'.call = "read" /\ hook'.lied = hook.lied /\ hook'.declined = hook.declined
        \/ bg'.at = "relock" /\ hook' = hook /\ (bg'.got = 0 => hook.ret <= 0)
    <3>1. CASE hook.ret > 0 /\ hook.ret < bg.left
      BY <1>0, <1>2, <3>1 DEF BgFilled, CallHookRead, Hooks, Tasks
    <3>2. CASE hook.ret > 0 /\ ~(hook.ret < bg.left)
      <4>1. bg' = [bg EXCEPT !.at = "relock", !.got = bg.got + hook.ret] /\ hook' = hook
        BY <1>2, <3>2 DEF BgFilled
      <4>2. bg'.at = "relock" /\ bg'.got = bg.got + hook.ret
        BY <1>0, <4>1 DEF Tasks
      <4>3. QED BY <1>0, <3>2, <4>1, <4>2
    <3>3. CASE ~(hook.ret > 0)
      BY <1>0, <1>2, <3>3 DEF BgFilled, Tasks
    <3>4. QED BY <3>1, <3>2, <3>3
  <2>3. EndTold'
    BY <2>1, <2>2 DEF EndTold
  <2>4. SeekWaited' /\ EofKnown' /\ NoAnswer' /\ EofIsTheEnd'
    BY <2>1, <2>2 DEF SeekWaited, EofKnown, NoAnswer, EofIsTheEnd
  <2>5. QED BY <2>3, <2>4
<1>3. CASE BgRelock
  <2>1. /\ bg.at = "relock" /\ bg'.at = "top" /\ main' = WakeMain /\ UNCHANGED <<hook, interrupted, ring, readPos>>
        /\ ~c.eof /\ c.err = 0 /\ hook.call = "none"
        /\ hook.ret = 0 => hook.declined
        /\ hook.ret < 0 /\ hook.ret # Exit => hook.pos = FileSize
    BY <1>0, <1>3 DEF BgRelock, EndTold
  <2>2. /\ main'.ret = main.ret /\ (main'.at = "idle" <=> main.at = "idle")
        /\ (main'.at \in {"new", "opening"} <=> main.at \in {"new", "opening"})
        /\ (main'.at \in {"seek", "seekwait"} <=> main.at \in {"seek", "seekwait"})
    BY <1>0, <2>1, WakeMainType
  <2>3. CASE bg.got > 0
    <3>1. c' = c
      BY <1>3, <2>3 DEF BgRelock
    <3>2. EndTold' /\ SeekWaited' /\ EofKnown' /\ NoAnswer' /\ EofIsTheEnd'
      BY <2>1, <2>2, <3>1 DEF EndTold, SeekWaited, EofKnown, NoAnswer, EofIsTheEnd
    <3>3. QED BY <3>2
  <2>4. CASE ~(bg.got > 0)
    <3>0. hook.ret <= 0
      BY <1>0, <2>1, <2>4 DEF EndTold
    <3>1. c'.eof /\ c'.err = (IF hook.ret < 0 THEN hook.ret ELSE 0) /\ c'.pos = c.pos
          /\ c'.seekRet = c.seekRet /\ c'.seekDone = c.seekDone
      BY <1>0, <1>3, <2>1, <2>4 DEF BgRelock, Contexts
    <3>2. Base' = Base /\ Pending = 0
      BY <1>0, <2>1, <2>2, <3>1 DEF Base, Answered, Pending
    <3>3. ASSUME ~interrupted, ~hook.lied, hook.ret = Eof
          PROVE  Base + Len(ring) = FileSize
      <4>1. Base + Len(ring) + Pending = hook.pos
        BY <2>1, <3>3 DEF Inv, HookAhead, Aborting
      <4>2. hook.pos = FileSize
        BY <2>1, <3>3 DEF Eof, Exit
      <4>3. QED BY <1>0, <3>2, <4>1, <4>2
    <3>4. EofKnown'
      BY <1>0, <2>1, <3>0, <3>1, <3>2, <3>3 DEF EofKnown, Aborting, Eof
    <3>5. EndTold' /\ SeekWaited' /\ NoAnswer' /\ EofIsTheEnd'
      BY <2>1, <2>2, <3>1 DEF EndTold, SeekWaited, NoAnswer, EofIsTheEnd
    <3>6. QED BY <3>4, <3>5
  <2>5. QED BY <2>3, <2>4
<1>4. QED BY <1>1, <1>2, <1>3

\* The hook goes on; the position is lost only in a seek, for which the reader waits.
LEMMA HookStepEnds ==
    ASSUME Inv, Inv', Ends, HookStep, UNCHANGED <<ring, readPos, c, main, bg>>
    PROVE  Ends'
<1> USE DEF Ends
<1>0. HookType /\ (hook.call = "seek" => hook.arg \in Positions)
  BY DEF Inv, TypeOK, Calls
<1>1. HookDid
  BY <1>0, HookEffect
<1>2. /\ hook.declined => hook'.declined
      /\ hook.call = "read" /\ hook'.call = "none" =>
           /\ hook'.ret = 0 => hook'.declined
           /\ hook'.ret < 0 /\ hook'.ret # Exit => hook'.pos = FileSize
      /\ hook.call = "seek" /\ hook'.call = "none" => hook'.ret >= 0 \/ hook'.ret = Exit
  BY <1>0, HookEnds
<1>3. /\ hook.call # "none" /\ interrupted' = interrupted
      /\ hook.call \in {"open", "read", "seek"}
      /\ bg.at # "seeking" => hook'.lied = hook.lied
      /\ bg.at \in {"filling", "relock"} => hook.call = "read"
      /\ bg.at = "seeking" => hook.call = "seek"
  <2>1. hook.call \in {"none", "open", "read", "seek"}
    BY <1>0 DEF HookType, Hooks
  <2>2. QED BY <1>1, <2>1 DEF HookDid, Inv, Calls, EndTold
<1>4. EndTold'
  BY <1>2, <1>3 DEF EndTold
<1>5. Base' = Base
  BY DEF Base, Answered
<1>6. SeekWaited' /\ EofKnown' /\ NoAnswer' /\ EofIsTheEnd'
  BY <1>2, <1>3, <1>5 DEF SeekWaited, EofKnown, NoAnswer, EofIsTheEnd, Aborting
<1>7. QED BY <1>4, <1>6

LEMMA NextEnds == ASSUME Inv, Inv', Ends, [Next]_vars PROVE Ends'
<1>0. main \in Mains /\ c \in Contexts /\ bg \in Tasks /\ hook \in Hooks
  BY Records DEF Inv
<1>1. CASE OpenCall
  <2>1. /\ main.at = "new" /\ main'.at = "opening" /\ main'.ret = main.ret /\ bg' = bg /\ bg.at = "none"
        /\ hook'.declined = hook.declined /\ hook'.lied = hook.lied /\ c' = c
        /\ UNCHANGED <<ring, readPos, interrupted>>
    BY <1>0, <1>1 DEF OpenCall, CallHookOpen, Hooks, Mains, Inv, Calls
  <2>2. Base' = Base
    BY <2>1 DEF Base, Answered
  <2>3. EndTold' /\ SeekWaited' /\ EofKnown' /\ NoAnswer' /\ EofIsTheEnd'
    BY <2>1, <2>2 DEF Ends, EndTold, SeekWaited, EofKnown, NoAnswer, EofIsTheEnd, Aborting
  <2>4. QED BY <2>3 DEF Ends
<1>2. ASSUME NEW n \in 1 .. MaxRead, ReadCall(n) PROVE Ends'
  <2>1. n \in Nat /\ main.at = "idle"
    BY <1>2, CapacityAssumption DEF ReadCall
  <2>2. main'.at = "read"
    BY <1>0, <1>2, <2>1, Begins DEF ReadCall
  <2>3. QED BY <1>2, <2>1, <2>2, ReaderEnds DEF ReadCall
<1>3. CASE BgSleep
  <2>1. /\ bg.at = "top" /\ bg'.at = "asleep" /\ main' = WakeMain
        /\ UNCHANGED <<hook, interrupted, ring, readPos, c>>
    BY <1>0, <1>3 DEF BgSleep, Tasks
  <2>2. /\ main'.ret = main.ret /\ (main'.at = "idle" <=> main.at = "idle")
        /\ (main'.at \in {"new", "opening"} <=> main.at \in {"new", "opening"})
        /\ (main'.at \in {"seek", "seekwait"} <=> main.at \in {"seek", "seekwait"})
    BY <1>0, <2>1, WakeMainType
  <2>3. Base' = Base
    BY <2>1, <2>2 DEF Base, Answered
  <2>4. QED BY <2>1, <2>2, <2>3, QuietEnds DEF Ends, NoAnswer, EofIsTheEnd
<1>4. CASE Interrupt /\ UNCHANGED <<ring, readPos, c, main, bg>>
  <2>1. hook' = hook /\ interrupted'
    BY <1>4 DEF Interrupt
  <2>2. QED BY <1>4, <2>1, QuietEnds DEF Ends, NoAnswer, EofIsTheEnd, SeekWaited
<1>5. CASE UNCHANGED vars
  BY <1>5 DEF vars, Ends, EndTold, SeekWaited, EofKnown, NoAnswer, EofIsTheEnd, Aborting, Base, Answered
<1>6. QED BY <1>1, <1>2, <1>3, <1>4, <1>5, OpenCloseEnds, ReadNothingEnds, ReadSomeEnds, SeekEnds,
             SeekReturnsEnds, BgSeekEnds, BgFillEnds, HookStepEnds
          DEF Next, BackgroundStep, MainStep, Call

\* A read says `end of file' at the end of the file only, unless the hook lost the
\* position or the application left a failed read alone: for every size of the
\* file and the ring, every interleaving of the two threads and any failures.
THEOREM EofCorrect == Spec => []EofIsTheEnd
<1>1. Init => Ends
  BY DEF Init, HookInit, Ends, EndTold, SeekWaited, EofKnown, NoAnswer, EofIsTheEnd
<1>2. Inv /\ Inv' /\ Ends /\ [Next]_vars => Ends'
  BY NextEnds
<1>3. Ends => EofIsTheEnd
  BY DEF Ends
<1>4. QED BY <1>1, <1>2, <1>3, AsyncInvariant, PTL DEF Spec

=============================================================================
