--------------------------- MODULE KernelLogProofs ---------------------------
(***************************************************************************)
(* The texts of a message stay together on each console, and no context    *)
(* that has left LogFmt, Write or Panic or is suspended keeps one of their *)
(* locks, for any number of CPUs and handlers that log, panic or take      *)
(* exceptions, any number of texts, and whichever consoles are ready.      *)
(***************************************************************************)
EXTENDS KernelLog, TLAPS

Doing == {"idle", "log_wait", "log", "newline", "exception", "panic", "halted"}

TypeOK ==
    /\ ready \in [Devices -> BOOLEAN]
    /\ logLock \in Contexts \cup {Nobody}
    /\ lock \in [Devices -> Contexts \cup {Nobody}]
    /\ doing \in [Contexts -> Doing]
    /\ todo \in [Contexts -> Seq(Devices \X Texts)]
    /\ errors \in [Contexts -> Nat]
    /\ last \in [Devices -> (Contexts \cup {Nobody}) \X Texts]

\* The Writes of its message that c has done, and how many were for d.
Done(c) == 2 * Parts - Len(todo[c])
DoneOn(c, d) == IF d = serial THEN (Done(c) + 1) \div 2 ELSE Done(c) \div 2

\* Whoever is in LogFmt holds the log lock; what it has still to write is the
\* end of its message, and each console has last seen the text before it.
LogInv(c) ==
    /\ doing[c] = "log" <=> logLock = c
    /\ doing[c] = "log" =>
         /\ Len(todo[c]) <= 2 * Parts
         /\ \A j \in 1 .. Len(todo[c]) : todo[c][j] = MessageWrites[Done(c) + j]
         /\ \A d \in Devices : ready[d] /\ DoneOn(c, d) > 0 => last[d] = <<c, DoneOn(c, d)>>
    /\ doing[c] \in {"newline", "panic"} =>
         \A j \in 1 .. Len(todo[c]) : todo[c][j][2] = 0

\* A device's lock is held only for the text that its holder is writing.
DeviceInv(c) ==
    \A d \in Devices : lock[d] = c => Writing(c) /\ Device(c) = d /\ ~Unready(c)

\* While a handler runs, whoever else is on its CPU was interrupted where
\* interrupts were on, and stays there.
Suspends(h, e) ==
    h # e /\ CpuOf[h] = CpuOf[e] /\ h \notin Threads /\ doing[h] # "idle" => Interruptible(e)

IInv == /\ TypeOK /\ \A c \in Contexts : LogInv(c) /\ DeviceInv(c)
        /\ \A h, e \in Contexts : Suspends(h, e)

(***************************************************************************)
(* The texts of a message.                                                 *)
(***************************************************************************)
\* Text after text goes to the serial port and then to the framebuffer.
LEMMA MessageParts ==
    ASSUME NEW k \in 1 .. 2 * Parts
    PROVE  /\ MessageWrites[k] \in Devices \X Texts
           /\ k % 2 = 1 => MessageWrites[k] = <<serial, (k + 1) \div 2>>
           /\ k % 2 = 0 => MessageWrites[k] = <<fb, k \div 2>>
<1>0. Parts \in Nat /\ k \in Nat /\ 1 <= k /\ k <= 2 * Parts BY KernelLogAssumption
<1>1. MessageWrites[k] = Log((k + 1) \div 2)[2 - (k % 2)] BY DEF MessageWrites
<1>2. CASE k % 2 = 1
  <2>1. MessageWrites[k] = <<serial, (k + 1) \div 2>> BY <1>1, <1>2 DEF Log
  <2>2. (k + 1) \div 2 \in Texts BY <1>0 DEF Texts
  <2> QED BY <1>2, <2>1, <2>2 DEF Devices
<1>3. CASE k % 2 = 0
  <2>1. (k + 1) \div 2 = k \div 2 BY <1>0, <1>3
  <2>2. MessageWrites[k] = <<fb, k \div 2>> BY <1>1, <1>3, <2>1 DEF Log
  <2>3. k \div 2 \in Texts BY <1>0 DEF Texts
  <2> QED BY <1>3, <2>2, <2>3 DEF Devices
<1> QED BY <1>0, <1>2, <1>3

LEMMA MessageIsSeq ==
    /\ MessageWrites \in Seq(Devices \X Texts) /\ Len(MessageWrites) = 2 * Parts
    /\ Log(0) \in Seq(Devices \X Texts) /\ PanicWrites \in Seq(Devices \X Texts)
    /\ \A j \in 1 .. Len(Log(0)) : Log(0)[j][2] = 0
    /\ \A j \in 1 .. Len(PanicWrites) : PanicWrites[j][2] = 0
<1>0. Parts \in Nat /\ 2 * Parts \in Nat BY KernelLogAssumption
<1>1. \A k \in 1 .. 2 * Parts : MessageWrites[k] \in Devices \X Texts BY MessageParts
<1>2. MessageWrites = [k \in 1 .. 2 * Parts |-> MessageWrites[k]] BY DEF MessageWrites
<1>3. MessageWrites \in Seq(Devices \X Texts) /\ Len(MessageWrites) = 2 * Parts
    BY <1>0, <1>1, <1>2
<1>4. 0 \in Texts /\ serial \in Devices /\ fb \in Devices BY <1>0 DEF Texts, Devices
<1> QED BY <1>3, <1>4 DEF Log, PanicWrites

\* The next text of c: of its message, the one after those that it has done.
LEMMA NextText ==
    ASSUME TypeOK, NEW c \in Contexts, LogInv(c), Writing(c)
    PROVE  /\ Device(c) \in Devices /\ Text(c) \in Texts
           /\ Len(todo[c]) > 0 /\ Len(Tail(todo[c])) = Len(todo[c]) - 1
           /\ Tail(todo[c]) \in Seq(Devices \X Texts)
           /\ \A j \in 1 .. Len(todo[c]) - 1 : Tail(todo[c])[j] = todo[c][j + 1]
           /\ doing[c] # "log" => Text(c) = 0
           /\ doing[c] = "log" =>
                /\ Done(c) \in 0 .. 2 * Parts - 1
                /\ Text(c) = DoneOn(c, Device(c)) + 1
                /\ Device(c) = IF Done(c) % 2 = 0 THEN serial ELSE fb
<1>1. todo[c] \in Seq(Devices \X Texts) /\ todo[c] # <<>> BY DEF TypeOK, Writing
<1>2. /\ Len(todo[c]) > 0 /\ Len(Tail(todo[c])) = Len(todo[c]) - 1
      /\ Tail(todo[c]) \in Seq(Devices \X Texts)
      /\ \A j \in 1 .. Len(todo[c]) - 1 : Tail(todo[c])[j] = todo[c][j + 1]
      /\ Len(todo[c]) \in Nat
      /\ Head(todo[c]) = todo[c][1] /\ todo[c][1] \in Devices \X Texts
    BY <1>1
<1>3. Device(c) \in Devices /\ Text(c) \in Texts BY <1>2 DEF Device, Text
<1>4. ASSUME doing[c] # "log" PROVE Text(c) = 0 BY <1>2, <1>4 DEF Writing, LogInv, Text
<1>5. ASSUME doing[c] = "log"
      PROVE  /\ Done(c) \in 0 .. 2 * Parts - 1
             /\ Text(c) = DoneOn(c, Device(c)) + 1
             /\ Device(c) = IF Done(c) % 2 = 0 THEN serial ELSE fb
  <2>1. Parts \in Nat /\ serial # fb BY KernelLogAssumption
  <2>2. Done(c) \in 0 .. 2 * Parts - 1 BY <1>2, <1>5, <2>1 DEF LogInv, Done
  <2>3. Head(todo[c]) = MessageWrites[Done(c) + 1] BY <1>2, <1>5 DEF LogInv
  <2>4. Done(c) + 1 \in 1 .. 2 * Parts /\ Done(c) \in Nat BY <2>1, <2>2
  <2> HIDE DEF Done
  <2>5. CASE Done(c) % 2 = 0
    <3>1. (Done(c) + 1) % 2 = 1 /\ (Done(c) + 2) \div 2 = (Done(c) + 1) \div 2 + 1
        BY <2>4, <2>5
    <3>2. Head(todo[c]) = <<serial, (Done(c) + 2) \div 2>> BY <2>3, <2>4, <3>1, MessageParts
    <3> QED BY <2>2, <2>5, <3>1, <3>2 DEF Device, Text, DoneOn
  <2>6. CASE Done(c) % 2 = 1
    <3>1. (Done(c) + 1) % 2 = 0 /\ (Done(c) + 1) \div 2 = Done(c) \div 2 + 1
        BY <2>4, <2>6
    <3>2. Head(todo[c]) = <<fb, (Done(c) + 1) \div 2>> BY <2>3, <2>4, <3>1, MessageParts
    <3> QED BY <2>1, <2>2, <2>6, <3>1, <3>2 DEF Device, Text, DoneOn
  <2> QED BY <2>4, <2>5, <2>6
<1> QED BY <1>2, <1>3, <1>4, <1>5

(***************************************************************************)
(* The invariant.                                                          *)
(***************************************************************************)
\* Another context d is not disturbed by a step that takes no lock from it
\* and writes a text of a message only under the log lock.
LEMMA Others ==
    ASSUME IInv, NEW c \in Contexts, NEW d \in Contexts \ {c},
           ready' = ready, doing'[d] = doing[d], todo'[d] = todo[d],
           logLock' = d <=> logLock = d,
           \A x \in Devices : lock'[x] = d => lock[x] = d,
           last' = last \/ logLock = c
    PROVE  LogInv(d)' /\ DeviceInv(d)'
<1>1. LogInv(d) /\ DeviceInv(d) /\ TypeOK BY DEF IInv
<1>2. Done(d)' = Done(d) /\ \A x \in Devices : DoneOn(d, x)' = DoneOn(d, x)
    BY DEF Done, DoneOn
<1>3. MessageWrites' = MessageWrites OBVIOUS
<1>4. CASE doing[d] = "log"
  <2>1. last' = last BY <1>1, <1>4 DEF LogInv
  <2> QED BY <1>1, <1>2, <1>3, <1>4, <2>1
          DEF LogInv, DeviceInv, Writing, Device, Unready
<1>5. CASE doing[d] # "log"
    BY <1>1, <1>5 DEF LogInv, DeviceInv, Writing, Device, Unready
<1> QED BY <1>4, <1>5

\* A step of c, which runs, and may go on if it was idle, leaves the others
\* suspended where they are.
LEMMA SuspendsNext ==
    ASSUME IInv, NEW c \in Contexts, Runs(c),
           \A d \in Contexts \ {c} : doing'[d] = doing[d] /\ errors'[d] = errors[d],
           \A d \in Contexts \ {c}, x \in Devices : lock'[x] = d => lock[x] = d
    PROVE  \A h, e \in Contexts : Suspends(h, e)'
<1> SUFFICES ASSUME NEW h \in Contexts, NEW e \in Contexts, h # e, CpuOf[h] = CpuOf[e],
                    h \notin Threads, doing'[h] # "idle"
             PROVE  Interruptible(e)'
    BY DEF Suspends
<1>1. ASSUME e # c, Interruptible(e) PROVE Interruptible(e)'
    BY <1>1 DEF Interruptible
<1>2. CASE h = c
  <2>1. Interruptible(e) BY <1>2 DEF IInv, Suspends, Runs, Interruptible
  <2> QED BY <1>1, <1>2, <2>1
<1>3. CASE h # c /\ e # c BY <1>1, <1>3 DEF IInv, Suspends
<1>4. CASE e = c
  <2>1. doing[h] # "idle" /\ h # c BY <1>4
  <2>2. Interruptible(c) BY <1>4, <2>1 DEF IInv, Suspends
  <2>3. c \notin Threads BY <1>4, <2>1 DEF Runs
  <2>4. doing[c] = "idle" BY <2>2, <2>3 DEF Interruptible
  <2>5. Interruptible(h) BY <1>4, <2>1, <2>4 DEF Runs
  <2> QED BY <2>1, <2>5 DEF Interruptible
<1> QED BY <1>2, <1>3, <1>4

\* A step of c that touches no lock, no console and no todo.
LEMMA Elsewhere ==
    ASSUME IInv, NEW c \in Contexts, TypeOK',
           UNCHANGED <<ready, logLock, lock, todo, last>>,
           \A d \in Contexts \ {c} : doing'[d] = doing[d] /\ errors'[d] = errors[d],
           Runs(c), doing[c] # "log", doing'[c] \notin {"log", "panic", "newline"},
           ~Writing(c)
    PROVE  IInv'
<1>1. \A d \in Contexts \ {c} : LogInv(d)' /\ DeviceInv(d)' BY Others DEF IInv
<1>2. LogInv(c)' /\ DeviceInv(c)' BY DEF IInv, LogInv, DeviceInv
<1>3. \A h, e \in Contexts : Suspends(h, e)' BY SuspendsNext
<1> QED BY <1>1, <1>2, <1>3 DEF IInv

LEMMA InitIInv == Init => IInv
<1> SUFFICES ASSUME Init PROVE IInv OBVIOUS
<1>0. Parts \in Nat /\ 0 \in Texts /\ serial \in Devices /\ fb \in Devices /\ Nobody \notin Contexts
    BY KernelLogAssumption DEF Texts, Devices
<1>1. TypeOK BY <1>0 DEF Init, TypeOK, Doing
<1>2. \A c \in Contexts : LogInv(c) /\ DeviceInv(c) BY <1>0 DEF Init, LogInv, DeviceInv
<1>3. \A h, e \in Contexts : Suspends(h, e) BY DEF Init, Suspends
<1> QED BY <1>1, <1>2, <1>3 DEF IInv

LEMMA NextIInv == IInv /\ [Next]_vars => IInv'
<1> SUFFICES ASSUME IInv, [Next]_vars PROVE IInv' OBVIOUS
<1>a. TypeOK BY DEF IInv
<1>b. /\ Parts \in Nat \ {0} /\ ErrorMessages \in Nat /\ Nobody \notin Contexts /\ serial # fb
      /\ Devices = {serial, fb}
    BY KernelLogAssumption DEF Devices
<1>0. CASE UNCHANGED <<config, logLock, lock, doing, todo, errors, last>>
  <2>1. \A c \in Contexts : Done(c)' = Done(c) /\ \A d \in Devices : DoneOn(c, d)' = DoneOn(c, d)
      BY <1>0 DEF Done, DoneOn
  <2>2. \A c \in Contexts : LogInv(c) => LogInv(c)' BY <1>0, <2>1 DEF config, LogInv
  <2>3. \A c \in Contexts : DeviceInv(c) => DeviceInv(c)'
      BY <1>0 DEF config, DeviceInv, Writing, Device, Unready
  <2>4. TypeOK' BY <1>0, <1>a DEF config, TypeOK
  <2>5. \A h, e \in Contexts : Suspends(h, e) => Suspends(h, e)'
      BY <1>0 DEF Suspends, Interruptible
  <2> QED BY <2>2, <2>3, <2>4, <2>5 DEF IInv
<1> SUFFICES ASSUME NEW c \in Contexts,
                    Step(c) \/ (\E level \in Levels : LOG_MESSAGE(c, level))
                    \/ HandleException(c) \/ Panic(c)
             PROVE  IInv'
    BY <1>0 DEF Next, Transmit, vars, config
<1>c. LogInv(c) /\ DeviceInv(c) BY DEF IInv
<1>d. Runs(c) BY DEF Step, LOG_MESSAGE, HandleException, Panic, EnterLogFmt, LeaveLogFmt,
         EndMessage, SkipWrite, LockDevice, SendChar, WriteDevice, Halt, ExceptionLogs, At
<1>1. ASSUME StartMessage(c), doing[c] \in {"idle", "exception"}, errors' \in [Contexts -> Nat],
             \A d \in Contexts \ {c} : errors'[d] = errors[d]
      PROVE  IInv'
  <2>0. doing' \in [Contexts -> Doing]
      BY <1>a, <1>1 DEF StartMessage, Do, TypeOK, Doing
  <2>1. TypeOK' BY <1>a, <1>1, <2>0 DEF StartMessage, TypeOK, config
  <2> QED BY <1>a, <1>1, <1>d, <2>1, Elsewhere DEF StartMessage, Do, TypeOK, Writing, config
<1>2. CASE EnterLogFmt(c)
  <2>1. /\ todo'[c] = MessageWrites /\ doing'[c] = "log" /\ logLock' = c /\ logLock = Nobody
        /\ doing[c] = "log_wait" /\ UNCHANGED <<ready, lock, last>>
      BY <1>2, <1>a DEF EnterLogFmt, At, Do, TypeOK, config
  <2>2. TypeOK' BY <1>2, <1>a, MessageIsSeq DEF EnterLogFmt, Do, TypeOK, Doing, config
  <2>3. \A d \in Contexts \ {c} : LogInv(d)' /\ DeviceInv(d)'
      BY <1>2, <1>a, <1>b, <2>1, Others DEF EnterLogFmt, Do, TypeOK
  <2>4. Done(c)' = 0 /\ \A d \in Devices : DoneOn(c, d)' = 0
    <3>1. Done(c)' = 0 BY <1>b, <2>1, MessageIsSeq DEF Done
    <3> QED BY <3>1 DEF DoneOn
  <2>5. LogInv(c)' BY <1>b, <2>1, <2>4, MessageIsSeq DEF LogInv
  <2>6. DeviceInv(c)' BY <1>c, <2>1 DEF DeviceInv, Writing
  <2>7. \A h, e \in Contexts : Suspends(h, e)'
      BY <1>2, <1>a, <1>d, <2>1, SuspendsNext DEF EnterLogFmt, Do, TypeOK
  <2> QED BY <2>2, <2>3, <2>5, <2>6, <2>7 DEF IInv
<1>3. CASE LeaveLogFmt(c)
  <2>1. /\ todo[c] = <<>> /\ doing[c] = "log" /\ logLock' = Nobody /\ todo'[c] = Log(0)
        /\ doing'[c] = "newline" /\ UNCHANGED <<ready, lock, last>>
      BY <1>3, <1>a DEF LeaveLogFmt, At, Do, TypeOK, config
  <2>2. logLock = c BY <1>c, <2>1 DEF LogInv
  <2>3. TypeOK' BY <1>3, <1>a, MessageIsSeq DEF LeaveLogFmt, Do, TypeOK, Doing, config
  <2>4. \A d \in Contexts \ {c} : LogInv(d)' /\ DeviceInv(d)'
      BY <1>3, <1>a, <1>b, <2>1, <2>2, Others DEF LeaveLogFmt, Do, TypeOK
  <2>5. LogInv(c)' BY <1>b, <2>1, MessageIsSeq DEF LogInv
  <2>6. DeviceInv(c)' BY <1>c, <2>1 DEF DeviceInv, Writing
  <2>7. \A h, e \in Contexts : Suspends(h, e)'
      BY <1>3, <1>a, <1>d, <2>1, SuspendsNext DEF LeaveLogFmt, Do, TypeOK
  <2> QED BY <2>3, <2>4, <2>5, <2>6, <2>7 DEF IInv
<1>4. CASE EndMessage(c)
  <2>1. TypeOK' BY <1>4, <1>a DEF EndMessage, Do, TypeOK, Doing, config
  <2> QED BY <1>4, <1>a, <1>d, <2>1, Elsewhere DEF At, EndMessage, Do, TypeOK, Writing, config
<1>5. CASE SkipWrite(c) \/ WriteDevice(c)
  <2>1. /\ Writing(c) /\ todo' = [todo EXCEPT ![c] = Tail(@)]
        /\ UNCHANGED <<config, logLock, doing, errors>>
      BY <1>5 DEF SkipWrite, WriteDevice
  <2>2. /\ Device(c) \in Devices /\ Text(c) \in Texts
        /\ Len(todo[c]) > 0 /\ Len(Tail(todo[c])) = Len(todo[c]) - 1
        /\ Tail(todo[c]) \in Seq(Devices \X Texts)
        /\ \A j \in 1 .. Len(todo[c]) - 1 : Tail(todo[c])[j] = todo[c][j + 1]
      BY <1>a, <1>c, <2>1, NextText
  <2>3. ready' = ready /\ todo'[c] = Tail(todo[c]) BY <1>a, <2>1 DEF config, TypeOK
  <2>4. \/ SkipWrite(c) /\ lock' = lock /\ last' = last /\ ~ready[Device(c)]
        \/ WriteDevice(c) /\ lock' = [lock EXCEPT ![Device(c)] = Nobody] /\ Put(c)
      BY <1>5 DEF SkipWrite, WriteDevice, Unready
  <2>5. TypeOK'
    <3>1. todo' \in [Contexts -> Seq(Devices \X Texts)] BY <1>a, <2>1, <2>2 DEF TypeOK
    <3>2. lock' \in [Devices -> Contexts \cup {Nobody}] BY <1>a, <2>4 DEF TypeOK
    <3>3. last' \in [Devices -> (Contexts \cup {Nobody}) \X Texts]
      <4>1. <<c, Text(c)>> \in (Contexts \cup {Nobody}) \X Texts BY <2>2
      <4>2. CASE last' = last BY <1>a, <4>2 DEF TypeOK
      <4>3. CASE last' = [last EXCEPT ![Device(c)] = <<c, Text(c)>>]
          BY <1>a, <4>1, <4>3 DEF TypeOK
      <4> QED BY <2>4, <4>2, <4>3 DEF Put
    <3> QED BY <1>a, <2>1, <3>1, <3>2, <3>3 DEF TypeOK, config
  <2>6. ASSUME NEW d \in Contexts \ {c} PROVE LogInv(d)' /\ DeviceInv(d)'
    <3>1. last' = last \/ logLock = c BY <1>a, <1>c, <2>1, <2>4, NextText DEF Put, LogInv
    <3>2. todo'[d] = todo[d] /\ doing'[d] = doing[d] BY <1>a, <2>1 DEF TypeOK
    <3>3. \A x \in Devices : lock'[x] = d => lock[x] = d BY <1>a, <1>b, <2>4 DEF TypeOK
    <3> QED BY <2>1, <2>3, <3>1, <3>2, <3>3, Others
  <2>7. DeviceInv(c)'
    <3>1. ASSUME NEW d \in Devices PROVE lock'[d] # c
      <4>1. CASE SkipWrite(c) BY <1>c, <4>1 DEF SkipWrite, DeviceInv
      <4>2. CASE WriteDevice(c)
          BY <1>a, <1>b, <1>c, <2>2, <4>2 DEF WriteDevice, DeviceInv, TypeOK
      <4> QED BY <2>4, <4>1, <4>2
    <3> QED BY <3>1 DEF DeviceInv
  <2>8. \A h, e \in Contexts : Suspends(h, e)'
    <3>1. \A d \in Contexts \ {c}, x \in Devices : lock'[x] = d => lock[x] = d
        BY <1>a, <1>b, <2>4 DEF TypeOK
    <3> QED BY <1>d, <2>1, <3>1, SuspendsNext
  <2>9. Len(todo[c]) \in Nat BY <1>a DEF TypeOK
  <2>10. CASE doing[c] # "log"
    <3>1. ASSUME NEW j \in 1 .. Len(todo'[c]) PROVE todo'[c][j][2] = 0
      <4>1. \A i \in 1 .. Len(todo[c]) : todo[c][i][2] = 0
          BY <1>c, <2>1, <2>10 DEF LogInv, Writing
      <4>2. Len(todo'[c]) = Len(todo[c]) - 1 BY <2>2, <2>3
      <4>3. j + 1 \in 1 .. Len(todo[c]) /\ j \in 1 .. Len(todo[c]) - 1
          BY <2>9, <4>2
      <4>4. todo'[c][j] = todo[c][j + 1] BY <2>2, <2>3, <4>3
      <4> QED BY <4>1, <4>3, <4>4
    <3>2. LogInv(c)' BY <1>c, <2>1, <2>10, <3>1 DEF LogInv
    <3> QED BY <2>5, <2>6, <2>7, <2>8, <3>2 DEF IInv
  <2>11. CASE doing[c] = "log"
    <3>1. /\ Done(c) \in 0 .. 2 * Parts - 1
          /\ Text(c) = DoneOn(c, Device(c)) + 1
          /\ Device(c) = IF Done(c) % 2 = 0 THEN serial ELSE fb
        BY <1>a, <1>c, <2>1, <2>11, NextText
    <3>2. Done(c)' = Done(c) + 1
      <4>1. Len(todo'[c]) = Len(todo[c]) - 1 BY <2>2, <2>3
      <4> QED BY <1>b, <2>9, <4>1 DEF Done
    <3>3. \A d \in Devices : DoneOn(c, d)' = IF d = Device(c) THEN Text(c) ELSE DoneOn(c, d)
      <4>1. DoneOn(c, serial)' = (Done(c) + 2) \div 2 /\ DoneOn(c, fb)' = (Done(c) + 1) \div 2
          BY <1>b, <3>1, <3>2 DEF DoneOn
      <4>2. DoneOn(c, serial) = (Done(c) + 1) \div 2 /\ DoneOn(c, fb) = Done(c) \div 2
          BY <1>b DEF DoneOn
      <4> HIDE DEF Done, DoneOn
      <4>3. CASE Done(c) % 2 = 0
        <5>1. (Done(c) + 2) \div 2 = (Done(c) + 1) \div 2 + 1 /\ (Done(c) + 1) \div 2 = Done(c) \div 2
            BY <1>b, <3>1, <4>3
        <5> QED BY <1>b, <3>1, <4>1, <4>2, <4>3, <5>1
      <4>4. CASE Done(c) % 2 = 1 BY <1>b, <3>1, <4>1, <4>2, <4>4
      <4> QED BY <1>b, <3>1, <4>3, <4>4
    <3>4. Len(todo'[c]) <= 2 * Parts
        BY <1>a, <1>b, <1>c, <2>2, <2>3, <2>11 DEF LogInv, TypeOK
    <3>5. ASSUME NEW j \in 1 .. Len(todo'[c])
          PROVE  todo'[c][j] = MessageWrites[Done(c)' + j]
      <4>1. j + 1 \in 1 .. Len(todo[c]) /\ todo'[c][j] = todo[c][j + 1]
          BY <1>a, <2>2, <2>3 DEF TypeOK
      <4>2. Done(c)' + j = Done(c) + (j + 1) BY <3>1, <3>2
      <4> QED BY <1>c, <2>11, <4>1, <4>2 DEF LogInv
    <3>6. ASSUME NEW d \in Devices, ready[d], DoneOn(c, d)' > 0
          PROVE  last'[d] = <<c, DoneOn(c, d)'>>
      <4>1. CASE d = Device(c)
        <5>1. Text(c) > 0 /\ last' = [last EXCEPT ![Device(c)] = <<c, Text(c)>>]
            BY <2>4, <3>3, <3>6, <4>1 DEF Put
        <5> QED BY <1>a, <3>3, <4>1, <5>1 DEF TypeOK
      <4>2. CASE d # Device(c)
        <5>1. last'[d] = last[d] BY <1>a, <2>4, <4>2 DEF TypeOK, Put
        <5> QED BY <1>c, <2>11, <3>3, <3>6, <4>2, <5>1 DEF LogInv
      <4> QED BY <4>1, <4>2
    <3>7. LogInv(c)' BY <1>c, <2>1, <2>3, <2>11, <3>4, <3>5, <3>6 DEF LogInv
    <3> QED BY <2>5, <2>6, <2>7, <2>8, <3>7 DEF IInv
  <2> QED BY <2>10, <2>11
<1>6. CASE LockDevice(c)
  <2>1. /\ Writing(c) /\ ~Unready(c) /\ lock[Device(c)] = Nobody
        /\ lock' = [lock EXCEPT ![Device(c)] = c]
        /\ UNCHANGED <<ready, minimumLogLevel, logLock, doing, todo, errors, last>>
      BY <1>6 DEF LockDevice, config
  <2>2. Device(c) \in Devices BY <1>a, <1>c, <2>1, NextText
  <2>3. TypeOK' BY <1>a, <2>1, <2>2 DEF TypeOK
  <2>4. ASSUME NEW d \in Contexts \ {c} PROVE LogInv(d)' /\ DeviceInv(d)'
    <3>1. \A x \in Devices : lock'[x] = d => lock[x] = d BY <1>a, <1>b, <2>1, <2>2 DEF TypeOK
    <3> QED BY <2>1, <3>1, Others
  <2>5. Done(c)' = Done(c) /\ \A d \in Devices : DoneOn(c, d)' = DoneOn(c, d)
      BY <2>1 DEF Done, DoneOn
  <2>6. LogInv(c)' BY <1>c, <2>1, <2>5 DEF LogInv
  <2>7. DeviceInv(c)'
    <3>1. \A d \in Devices : lock'[d] = c => d = Device(c) BY <1>a, <1>c, <2>1, <2>2 DEF DeviceInv, TypeOK
    <3> QED BY <2>1, <3>1 DEF DeviceInv, Writing, Device, Unready
  <2>8. \A h, e \in Contexts : Suspends(h, e)'
    <3>1. \A d \in Contexts \ {c}, x \in Devices : lock'[x] = d => lock[x] = d
        BY <1>a, <1>b, <2>1, <2>2 DEF TypeOK
    <3> QED BY <1>d, <2>1, <3>1, SuspendsNext
  <2> QED BY <2>3, <2>4, <2>6, <2>7, <2>8 DEF IInv
<1>7. CASE Halt(c)
  <2>1. TypeOK' BY <1>7, <1>a DEF Halt, Do, TypeOK, Doing, config
  <2> QED BY <1>7, <1>a, <1>d, <2>1, Elsewhere DEF At, Halt, Do, TypeOK, Writing, config
<1>8. CASE HandleException(c)
  <2>0. errors' \in [Contexts -> Nat] /\ doing' \in [Contexts -> Doing]
    <3>1. ErrorMessages + 1 \in Nat BY <1>b
    <3> QED BY <1>8, <1>a, <3>1 DEF HandleException, Do, TypeOK, Doing
  <2>1. TypeOK' BY <1>8, <1>a, <2>0 DEF HandleException, TypeOK, config
  <2> QED BY <1>8, <1>a, <1>d, <2>1, Elsewhere DEF At, HandleException, Do, TypeOK, Writing, config
<1>9. CASE ExceptionLogs(c)
  <2>1. errors' \in [Contexts -> Nat] /\ \A d \in Contexts \ {c} : errors'[d] = errors[d]
      BY <1>9, <1>a DEF ExceptionLogs, TypeOK
  <2> QED BY <1>1, <1>9, <2>1 DEF ExceptionLogs, At
<1>10. CASE Panic(c)
  <2>1. /\ todo'[c] = PanicWrites /\ doing'[c] = "panic" /\ doing[c] \in {"idle", "exception"}
        /\ UNCHANGED <<ready, logLock, lock, last>>
      BY <1>10, <1>a DEF Panic, At, Do, TypeOK, config
  <2>2. TypeOK' BY <1>10, <1>a, MessageIsSeq DEF Panic, Do, TypeOK, Doing, config
  <2>3. \A d \in Contexts \ {c} : LogInv(d)' /\ DeviceInv(d)'
      BY <1>10, <1>a, <2>1, Others DEF Panic, Do, TypeOK
  <2>4. LogInv(c)' BY <1>c, <2>1, MessageIsSeq DEF LogInv
  <2>5. DeviceInv(c)' BY <1>c, <2>1 DEF DeviceInv, Writing
  <2>6. \A h, e \in Contexts : Suspends(h, e)'
      BY <1>10, <1>a, <1>d, <2>1, SuspendsNext DEF Panic, Do, TypeOK
  <2> QED BY <2>2, <2>3, <2>4, <2>5, <2>6 DEF IInv
<1>11. ASSUME NEW level \in Levels, LOG_MESSAGE(c, level) PROVE IInv'
  <2>1. errors' = errors BY <1>11 DEF LOG_MESSAGE
  <2> QED BY <1>1, <1>11, <1>a, <2>1 DEF LOG_MESSAGE, At, TypeOK
<1>12. CASE SendChar(c) BY <1>0, <1>12 DEF SendChar
<1> QED BY <1>2, <1>3, <1>4, <1>5, <1>6, <1>7, <1>8, <1>9, <1>10, <1>11, <1>12 DEF Step

(***************************************************************************)
(* The theorems.                                                           *)
(***************************************************************************)
\* LogFmt's ScopedLock keeps the texts of a message together on each console,
\* though it is released before the newline and a panic does not take it.
THEOREM MessageContiguousHolds == Spec => []MessageContiguous
<1>1. IInv => MessageContiguous
  <2> SUFFICES ASSUME IInv, NEW c \in Contexts, doing[c] = "log", todo[c] # <<>>,
                      ready[Device(c)], Text(c) > 1
               PROVE  last[Device(c)] = <<c, Text(c) - 1>>
      BY DEF MessageContiguous
  <2>1. TypeOK /\ LogInv(c) /\ Writing(c) BY DEF IInv, Writing
  <2>2. /\ Device(c) \in Devices /\ Text(c) \in Nat /\ Done(c) \in Nat
        /\ Text(c) = DoneOn(c, Device(c)) + 1
      BY <2>1, NextText, KernelLogAssumption DEF Texts
  <2>3. DoneOn(c, Device(c)) \in Nat BY <2>2 DEF DoneOn
  <2>4. DoneOn(c, Device(c)) > 0 /\ DoneOn(c, Device(c)) = Text(c) - 1 BY <2>2, <2>3
  <2> QED BY <2>1, <2>2, <2>4 DEF LogInv
<1> QED BY <1>1, InitIInv, NextIInv, PTL DEF Spec

\* No context leaves LogFmt, a Write or Panic with a lock, and none is
\* suspended with one: a CPU that has halted after its panic, in a thread or
\* in a handler, never keeps the others from their consoles.
THEOREM LocksReleasedHolds == Spec => []LocksReleased
<1>1. IInv => LocksReleased
  <2> SUFFICES ASSUME IInv, NEW c \in Contexts
               PROVE  /\ doing[c] \in {"idle", "exception", "halted", "log_wait"} \/ ~Runs(c) =>
                           logLock # c /\ \A d \in Devices : lock[d] # c
                      /\ ~(lock[serial] = c /\ lock[fb] = c)
      BY DEF LocksReleased
  <2>1. serial # fb BY KernelLogAssumption
  <2>2. LogInv(c) /\ DeviceInv(c) BY DEF IInv
  <2>3. ASSUME Interruptible(c) PROVE logLock # c /\ \A d \in Devices : lock[d] # c
      BY <2>2, <2>3 DEF Interruptible, LogInv, DeviceInv, Writing
  <2>4. ASSUME ~Runs(c) PROVE Interruptible(c)
    <3>1. PICK e \in Contexts \ {c} : /\ CpuOf[e] = CpuOf[c] /\ doing[e] # "idle"
                                     /\ ~(c \notin Threads /\ (doing[c] # "idle" \/ Interruptible(e)))
        BY <2>4 DEF Runs
    <3>2. CASE e \notin Threads BY <3>1, <3>2 DEF IInv, Suspends
    <3>3. CASE e \in Threads
      <4>1. doing[c] = "idle" BY <3>1, <3>3, KernelLogAssumption
      <4> QED BY <4>1 DEF Interruptible
    <3> QED BY <3>2, <3>3
  <2> QED BY <2>1, <2>2, <2>3, <2>4 DEF LogInv, DeviceInv, Writing, Devices
<1> QED BY <1>1, InitIInv, NextIInv, PTL DEF Spec
==============================================================================
