--------------------------- MODULE CommandsProofs ---------------------------
(***************************************************************************)
(* For any number of commands and of lost connections: the types of        *)
(* Commands, that nothing takes effect onroad, that a command that reads   *)
(* DONE has taken effect, and that redelivery is bounded.                  *)
(***************************************************************************)
EXTENDS Commands, FiniteSetTheorems, FunctionTheorems, TLAPS

LEMMA TypeInit == Init => TypeOK
<1> SUFFICES ASSUME Init PROVE TypeOK
  OBVIOUS
<1>1. row \in [Commands -> CommandStatus \cup {"none"}] BY DEF Init
<1>2. kind \in [Commands -> Kinds \cup {"none"}] BY DEF Init
<1>3. issuer \in [Commands -> {"idle", "send", "delivered", "undelivered", "done"}]
  BY DEF Init
<1>4. ran \in [Commands -> Nat] BY DEF Init
<1>5. down \in Seq(Commands) /\ up \in Seq(Answer) /\ late \in Seq(Answer) BY DEF Init
<1>6. drops \in 0 .. MaxDrops /\ cuts \in 0 .. drops BY CommandsAssumption DEF Init
<1> QED BY <1>1, <1>2, <1>3, <1>4, <1>5, <1>6 DEF Init, TypeOK

\* What is recorded names a command and settles it.
LEMMA RecordType ==
  ASSUME TypeOK, NEW a \in Answer, Record(a)
  PROVE  row' \in [Commands -> CommandStatus \cup {"none"}]
BY DEF TypeOK, Record, Answer, CommandStatus

\* What the handler of a lost connection keeps of the results under way.
LEMMA LateType ==
  ASSUME TypeOK, Drop
  PROVE  \E n \in Nat : n <= Len(up) /\ late' = late \o SubSeq(up, 1, n)
<1>1. PICK n \in 0 .. (IF link = "streaming" THEN Len(up) ELSE 0) :
        late' = late \o SubSeq(up, 1, n)
  BY DEF Drop
<1>2. up \in Seq(Answer) /\ Len(up) \in Nat BY DEF TypeOK
<1>3. n \in Nat /\ n <= Len(up) BY <1>1, <1>2
<1> QED BY <1>1, <1>3

\* A frame under way names a command; what comes off a channel keeps the rest.
LEMMA TypeStep == TypeOK /\ [Next]_vars => TypeOK'
<1> SUFFICES ASSUME TypeOK, [Next]_vars PROVE TypeOK'
  OBVIOUS
<1> USE CommandsAssumption
<1>1. ASSUME NEW c \in Commands, NEW k \in Kinds, Issue(c, k) PROVE TypeOK'
  BY <1>1 DEF TypeOK, Issue, flush, wire, car, count, CommandStatus, Kinds
<1>2. ASSUME NEW c \in Commands, Send(c) PROVE TypeOK'
  BY <1>2 DEF TypeOK, Send, flush, car, count
<1>3. ASSUME NEW c \in Commands, Mark(c) PROVE TypeOK'
  <2>1. Outcome(c) \in CommandStatus \cup {"none"}
    BY DEF Outcome, CommandStatus, TypeOK
  <2> QED BY <1>3, <2>1 DEF TypeOK, Mark, flush, wire, car, count
<1>4. ASSUME NEW c \in Commands, FlushSend(c) PROVE TypeOK'
  BY <1>4 DEF TypeOK, FlushSend, request, car, count
<1>5. ASSUME Connect PROVE TypeOK'
  BY <1>5 DEF TypeOK, Connect, request, flush, wire, car, count
<1>6. ASSUME FlushLoad PROVE TypeOK'
  BY <1>6 DEF TypeOK, FlushLoad, Queued, request, wire, car, count
<1>7. ASSUME FlushCommit PROVE TypeOK'
  BY <1>7 DEF TypeOK, FlushCommit, CommandStatus, request, wire, car, count
<1>8. ASSUME Result PROVE TypeOK'
  <2>a. up \in Seq(Answer) /\ up # <<>> /\ up' = Tail(up)
    BY <1>8 DEF TypeOK, Result
  <2>b. Head(up) \in Answer /\ up' \in Seq(Answer) BY <2>a
  <2>2. row' \in [Commands -> CommandStatus \cup {"none"}]
    BY <1>8, <2>b, RecordType DEF Result
  <2> QED BY <1>8, <2>b, <2>2 DEF TypeOK, Result, request, flush, car, count
<1>15. ASSUME ResultLate PROVE TypeOK'
  <2>a. late \in Seq(Answer) /\ late # <<>> /\ late' = Tail(late)
    BY <1>15 DEF TypeOK, ResultLate
  <2>b. Head(late) \in Answer /\ late' \in Seq(Answer) BY <2>a
  <2>2. row' \in [Commands -> CommandStatus \cup {"none"}]
    BY <1>15, <2>b, RecordType DEF ResultLate
  <2> QED BY <1>15, <2>b, <2>2 DEF TypeOK, ResultLate, request, flush, car, count
<1>9. ASSUME Drop PROVE TypeOK'
  <2>1. PICK n \in Nat : n <= Len(up) /\ late' = late \o SubSeq(up, 1, n) BY <1>9, LateType
  <2>2. late' \in Seq(Answer) BY <2>1 DEF TypeOK
  <2> QED BY <1>9, <2>2 DEF TypeOK, Drop, request, car
<1>10. ASSUME Execute PROVE TypeOK'
  <2>1. Head(down) \in Commands /\ down' \in Seq(Commands)
    BY <1>10 DEF TypeOK, Execute
  <2>2. PICK ok \in BOOLEAN :
          /\ up' = Append(up, [cmd |-> Head(down), ok |-> ok])
          /\ ran' = IF ok THEN [ran EXCEPT ![Head(down)] = @ + 1] ELSE ran
    BY <1>10 DEF Execute
  <2>3. [cmd |-> Head(down), ok |-> ok] \in Answer BY <2>1 DEF Answer
  <2>4. up' \in Seq(Answer) BY <2>2, <2>3 DEF TypeOK
  <2>5. ran' \in [Commands -> Nat] BY <2>1, <2>2 DEF TypeOK
  <2> QED BY <1>10, <2>1, <2>4, <2>5 DEF TypeOK, Execute, request, flush, car, count
<1>11. ASSUME Turn PROVE TypeOK'
  BY <1>11 DEF TypeOK, Turn, request, flush, wire, count
<1>12. ASSUME Report PROVE TypeOK'
  BY <1>12 DEF TypeOK, Report, request, flush, wire, count
<1>13. ASSUME UNCHANGED vars PROVE TypeOK'
  BY <1>13 DEF TypeOK, vars, request, flush, wire, car, count
<1>14. CASE \E c \in Commands :
         (\E k \in Kinds : Issue(c, k)) \/ Send(c) \/ Mark(c) \/ FlushSend(c)
  BY <1>14, <1>1, <1>2, <1>3, <1>4
<1> QED BY <1>5, <1>6, <1>7, <1>8, <1>9, <1>10, <1>11, <1>12, <1>13, <1>14, <1>15 DEF Next

\* Every variable keeps its type, for any number of commands and drops.
THEOREM TypeCorrect == Spec => []TypeOK
BY TypeInit, TypeStep, PTL DEF Spec
-----------------------------------------------------------------------------
\* Only Execute changes ran, and only under its own check of the car; no
\* invariant about queues, sessions or the stack's belief is needed.
THEOREM NothingOnroad == Spec => OffroadOnly
<1>1. [Next]_vars => [ran' # ran => ~onroad]_vars
  <2> SUFFICES ASSUME [Next]_vars, ran' # ran PROVE ~onroad
    OBVIOUS
  <2>1. Execute
    BY DEF Next, Issue, Send, Mark, FlushSend, Connect, FlushLoad, FlushCommit,
           Result, ResultLate, Drop, Turn, Report, vars
  <2> QED BY <2>1 DEF Execute
<1> QED BY <1>1, PTL DEF Spec, OffroadOnly
-----------------------------------------------------------------------------
\* An ok answer under way is the answer of a command that has run.
TrueIn(q) == \A i \in 1 .. Len(q) : q[i].ok => ran[q[i].cmd] > 0
AnswerTrue == TrueIn(up) /\ TrueIn(late)

DoneInv == DoneHasRun /\ AnswerTrue

LEMMA DoneInit == Init => DoneInv
BY DEF Init, DoneInv, DoneHasRun, AnswerTrue, TrueIn

\* Recording the first of the answers under way, or under way no more.
LEMMA RecordTrue ==
  ASSUME TypeOK, DoneHasRun, NEW q \in Seq(Answer), q # <<>>, TrueIn(q), Record(Head(q)),
         UNCHANGED ran
  PROVE  DoneHasRun' /\ \A i \in 1 .. Len(Tail(q)) : Tail(q)[i].ok => ran[Tail(q)[i].cmd] > 0
<1>1. Head(q) = q[1] /\ 1 \in 1 .. Len(q) /\ Head(q) \in Answer OBVIOUS
<1>2. Head(q).cmd \in Commands BY <1>1 DEF Answer
<1>3. Head(q).ok => ran[Head(q).cmd] > 0 BY <1>1 DEF TrueIn
<1>4. DoneHasRun' BY <1>2, <1>3 DEF DoneHasRun, Record, TypeOK
<1>5. \A i \in 1 .. Len(Tail(q)) : Tail(q)[i] = q[i + 1] /\ i + 1 \in 1 .. Len(q)
  OBVIOUS
<1> QED BY <1>4, <1>5 DEF TrueIn

LEMMA DoneStep == TypeOK /\ DoneInv /\ [Next]_vars => DoneInv'
<1> SUFFICES ASSUME TypeOK, DoneInv, [Next]_vars PROVE DoneInv'
  OBVIOUS
<1>t. /\ row \in [Commands -> CommandStatus \cup {"none"}]
      /\ down \in Seq(Commands) /\ up \in Seq(Answer) /\ late \in Seq(Answer)
      /\ ran \in [Commands -> Nat]
  BY DEF TypeOK
<1>d. /\ \A c \in Commands : row[c] = "DONE" => ran[c] > 0
      /\ DoneHasRun /\ TrueIn(up) /\ TrueIn(late)
  BY DEF DoneInv, DoneHasRun, AnswerTrue
<1> USE <1>t, <1>d
\* A step that marks nothing DONE and leaves the answers.
<1>k. ASSUME \A c \in Commands : row'[c] = "DONE" => row[c] = "DONE",
             up' = up, late' = late, ran' = ran
      PROVE  DoneInv'
  BY <1>k DEF DoneInv, DoneHasRun, AnswerTrue, TrueIn
<1>1. ASSUME NEW c \in Commands, NEW k \in Kinds, Issue(c, k) PROVE DoneInv'
  BY <1>1, <1>k DEF Issue, wire
<1>2. ASSUME NEW c \in Commands, Mark(c) PROVE DoneInv'
  BY <1>2, <1>k DEF Mark, Outcome, wire
<1>3. ASSUME FlushCommit PROVE DoneInv'
  BY <1>3, <1>k DEF FlushCommit, wire
<1>4. ASSUME Result PROVE DoneInv'
  <2>1. /\ up # <<>> /\ up' = Tail(up) /\ Record(Head(up)) /\ UNCHANGED <<ran, late>>
    BY <1>4 DEF Result
  <2>2. DoneHasRun' /\ \A i \in 1 .. Len(Tail(up)) : Tail(up)[i].ok => ran[Tail(up)[i].cmd] > 0
    BY <2>1, RecordTrue
  <2> QED BY <2>1, <2>2 DEF DoneInv, AnswerTrue, TrueIn
<1>8. ASSUME ResultLate PROVE DoneInv'
  <2>1. /\ late # <<>> /\ late' = Tail(late) /\ Record(Head(late)) /\ UNCHANGED <<ran, up>>
    BY <1>8 DEF ResultLate
  <2>2. DoneHasRun'
        /\ \A i \in 1 .. Len(Tail(late)) : Tail(late)[i].ok => ran[Tail(late)[i].cmd] > 0
    BY <2>1, RecordTrue
  <2> QED BY <2>1, <2>2 DEF DoneInv, AnswerTrue, TrueIn
<1>9. ASSUME Drop PROVE DoneInv'
  <2>1. PICK n \in Nat : n <= Len(up) /\ late' = late \o SubSeq(up, 1, n) BY <1>9, LateType
  <2>2. up' = <<>> /\ UNCHANGED <<row, ran>> BY <1>9 DEF Drop
  <2>3. ASSUME NEW i \in 1 .. Len(late')
        PROVE  \/ i \in 1 .. Len(late) /\ late'[i] = late[i]
               \/ i - Len(late) \in 1 .. Len(up) /\ late'[i] = up[i - Len(late)]
    BY <2>1
  <2>4. TrueIn(late)' BY <2>2, <2>3 DEF TrueIn
  <2>5. TrueIn(up)' BY <2>2 DEF TrueIn
  <2> QED BY <2>2, <2>4, <2>5 DEF DoneInv, DoneHasRun, AnswerTrue
<1>5. ASSUME Execute PROVE DoneInv'
  <2>1. Head(down) \in Commands BY <1>5 DEF Execute
  <2>2. PICK ok \in BOOLEAN :
          /\ up' = Append(up, [cmd |-> Head(down), ok |-> ok])
          /\ ran' = IF ok THEN [ran EXCEPT ![Head(down)] = @ + 1] ELSE ran
    BY <1>5 DEF Execute
  <2>3. \A c \in Commands : ran'[c] >= ran[c] /\ ran'[c] \in Nat BY <2>1, <2>2
  <2>4. ok => ran'[Head(down)] > 0 BY <2>1, <2>2
  <2>5. DoneHasRun' BY <1>5, <2>3 DEF DoneHasRun, Execute
  <2>6. \A i \in 1 .. Len(up) : up[i].cmd \in Commands
    <3>1. \A i \in 1 .. Len(up) : up[i] \in Answer OBVIOUS
    <3> QED BY <3>1 DEF Answer
  <2>8. TrueIn(late)'
    <3>1. late' = late /\ \A i \in 1 .. Len(late) : late[i] \in Answer BY <1>5 DEF Execute
    <3> QED BY <2>3, <3>1 DEF TrueIn, Answer
  <2>7. TrueIn(up)'
    <3> SUFFICES ASSUME NEW i \in 1 .. Len(up'), up'[i].ok PROVE ran'[up'[i].cmd] > 0
      BY DEF TrueIn
    <3>1. CASE i \in 1 .. Len(up)
      <4>1. up'[i] = up[i] BY <2>2, <3>1
      <4>2. ran[up[i].cmd] > 0 /\ up[i].cmd \in Commands BY <3>1, <4>1, <2>6 DEF TrueIn
      <4> QED BY <4>1, <4>2, <2>3
    <3>2. CASE i = Len(up) + 1
      <4>1. up'[i] = [cmd |-> Head(down), ok |-> ok] BY <2>2, <3>2
      <4> QED BY <4>1, <2>4
    <3> QED BY <2>2, <3>1, <3>2
  <2> QED BY <2>5, <2>7, <2>8 DEF DoneInv, AnswerTrue
<1>6. ASSUME \/ Connect \/ FlushLoad \/ Turn \/ Report \/ UNCHANGED vars
             \/ \E c \in Commands : Send(c) \/ FlushSend(c)
      PROVE DoneInv'
  <2>1. row' = row /\ ran' = ran /\ up' = up /\ late' = late
    BY <1>6 DEF Connect, FlushLoad, Turn, Report, vars, Send, FlushSend, wire
  <2> QED BY <2>1, <1>k
<1>7. CASE \E c \in Commands :
         (\E k \in Kinds : Issue(c, k)) \/ Send(c) \/ Mark(c) \/ FlushSend(c)
  BY <1>7, <1>1, <1>2, <1>6
<1> QED BY <1>3, <1>4, <1>5, <1>6, <1>7, <1>8, <1>9 DEF Next

\* A command that reads DONE has taken effect, over every loss and redelivery.
THEOREM DoneIsTrue == Spec => []DoneHasRun
<1>1. DoneInv => DoneHasRun BY DEF DoneInv
<1> QED BY <1>1, TypeInit, TypeStep, DoneInit, DoneStep, PTL DEF Spec
-----------------------------------------------------------------------------
(* Redelivery: what a command has done, what is under way to the device,   *)
(* and what its request and the flush may still send stay within its       *)
(* limit, whatever is lost.                                                *)

Places(c, q) == {i \in DOMAIN q : q[i] = c}
Count(c, q) == Cardinality(Places(c, q))

LEMMA CountType ==
  ASSUME NEW c \in Commands, NEW q \in Seq(Commands)
  PROVE  IsFiniteSet(Places(c, q)) /\ Count(c, q) \in Nat
<1>1. IsFiniteSet(1 .. Len(q)) BY FS_Interval
<1>2. Places(c, q) \in SUBSET (1 .. Len(q)) BY DEF Places
<1> QED BY <1>1, <1>2, FS_Subset, FS_CardinalityType DEF Count

LEMMA CountNone == ASSUME NEW c PROVE Count(c, <<>>) = 0
<1>1. Places(c, <<>>) = {} BY DEF Places
<1>2. Cardinality({}) = 0 BY FS_EmptySet
<1> QED BY <1>1, <1>2 DEF Count

LEMMA CountAppend ==
  ASSUME NEW c \in Commands, NEW q \in Seq(Commands), NEW e \in Commands
  PROVE  Count(c, Append(q, e)) = Count(c, q) + (IF e = c THEN 1 ELSE 0)
<1> DEFINE n == Len(q) + 1
<1>1. DOMAIN Append(q, e) = DOMAIN q \cup {n} /\ n \notin DOMAIN q
      /\ Append(q, e)[n] = e /\ \A i \in DOMAIN q : Append(q, e)[i] = q[i]
  OBVIOUS
<1>2. CASE e = c
  <2>1. Places(c, Append(q, e)) = Places(c, q) \cup {n} /\ n \notin Places(c, q)
    BY <1>1, <1>2 DEF Places
  <2> HIDE DEF n
  <2>2. Cardinality(Places(c, q) \cup {n}) = Cardinality(Places(c, q)) + 1
    BY <2>1, CountType, FS_AddElement
  <2> QED BY <1>2, <2>1, <2>2 DEF Count
<1>3. CASE e # c
  <2>1. Places(c, Append(q, e)) = Places(c, q) BY <1>1, <1>3 DEF Places
  <2> QED BY <1>3, <2>1, CountType DEF Count
<1> QED BY <1>2, <1>3

LEMMA CountTail ==
  ASSUME NEW c \in Commands, NEW q \in Seq(Commands), q # <<>>
  PROVE  Count(c, Tail(q)) + (IF Head(q) = c THEN 1 ELSE 0) <= Count(c, q)
<1> DEFINE S == Places(c, Tail(q))
           T == Places(c, q) \ {1}
           f == [i \in S |-> i + 1]
<1>1. \A i \in DOMAIN Tail(q) :
        i \in Nat /\ i + 1 \in DOMAIN q /\ i + 1 # 1 /\ Tail(q)[i] = q[i + 1]
  OBVIOUS
<1>2. f \in [S -> T] /\ \A i, j \in S : f[i] = f[j] => i = j
  BY <1>1 DEF Places
<1>3. IsFiniteSet(Places(c, q)) /\ Cardinality(Places(c, q)) \in Nat BY CountType DEF Count
<1>4. /\ IsFiniteSet(T)
      /\ Cardinality(T) = IF 1 \in Places(c, q) THEN Cardinality(Places(c, q)) - 1
                          ELSE Cardinality(Places(c, q))
  BY <1>3, FS_RemoveElement
<1>5. Head(q) = c <=> 1 \in Places(c, q) BY DEF Places
<1> HIDE DEF S, T, f
<1>6. f \in Injection(S, T) BY <1>2, Fun_IsInj
<1>7. Cardinality(S) <= Cardinality(T) BY <1>4, <1>6, FS_Injection
<1>8. Cardinality(S) \in Nat
  <2>1. Tail(q) \in Seq(Commands) OBVIOUS
  <2> QED BY <2>1, CountType DEF Count, S
<1> QED BY <1>3, <1>4, <1>5, <1>7, <1>8 DEF Count, S

\* What the request of a command may still send, and what a flush may.
Own(c) ==
  IF issuer[c] \in {"idle", "send"} \/ (issuer[c] = "undelivered" /\ kind[c] = "reboot")
  THEN 1 ELSE 0
Again(c) == IF c \in batch \/ (c \notin flushed /\ row[c] = "QUEUED") THEN 1 ELSE 0

Limit(c) == IF kind[c] = "reboot" THEN 1 ELSE 2

Within(c) == ran[c] + Count(c, down) + Own(c) + Again(c) <= Limit(c) + cuts

Untouched(c) ==
  /\ kind[c] = "none" /\ row[c] = "none" /\ ran[c] = 0
  /\ Count(c, down) = 0 /\ c \notin batch \cup flushed

Budget ==
  /\ link # "flushing" => batch = {} /\ flushed = {}
  /\ \A c \in Commands : Within(c) /\ (issuer[c] = "idle" => Untouched(c))

LEMMA BudgetInit == Init => Budget
BY CountNone DEF Init, Budget, Within, Untouched, Own, Again, Limit

LEMMA BudgetStep == TypeOK /\ Budget /\ [Next]_vars => Budget'
<1> SUFFICES ASSUME TypeOK, Budget, [Next]_vars PROVE Budget'
  OBVIOUS
<1>t. /\ row \in [Commands -> CommandStatus \cup {"none"}]
      /\ kind \in [Commands -> Kinds \cup {"none"}]
      /\ issuer \in [Commands -> {"idle", "send", "delivered", "undelivered", "done"}]
      /\ down \in Seq(Commands) /\ up \in Seq(Answer)
      /\ ran \in [Commands -> Nat] /\ cuts \in Nat /\ drops \in Nat
      /\ \A c \in Commands : ran[c] \in Nat /\ Count(c, down) \in Nat
      /\ \A c \in Commands : Own(c) \in Int /\ 0 <= Own(c) /\ Own(c) <= 1
      /\ \A c \in Commands : Again(c) \in Int /\ 0 <= Again(c) /\ Again(c) <= 1
  BY CommandsAssumption, CountType DEF TypeOK, Own, Again
<1>b. /\ link # "flushing" => batch = {} /\ flushed = {}
      /\ \A c \in Commands : Within(c) /\ (issuer[c] = "idle" => Untouched(c))
  BY DEF Budget
<1> USE <1>t, <1>b
<1>n. /\ \A c \in Commands : Own(c)' \in Int /\ 0 <= Own(c)' /\ Own(c)' <= 1
      /\ \A c \in Commands : Again(c)' \in Int /\ 0 <= Again(c)' /\ Again(c)' <= 1
  BY DEF Own, Again
\* A command keeps within its limit when a step spends no more than it frees.
<1>w. ASSUME NEW c \in Commands, kind'[c] = kind[c],
             ran'[c] \in Nat, Count(c, down') \in Nat, cuts' \in Nat,
             ran'[c] + Count(c, down') + Own(c)' + Again(c)' + cuts
               <= ran[c] + Count(c, down) + Own(c) + Again(c) + cuts'
      PROVE  Within(c)'
  <2> SUFFICES ran'[c] + Count(c, down') + Own(c)' + Again(c)' <= Limit(c) + cuts'
    BY <1>w DEF Within, Limit
  <2>1. ran[c] + Count(c, down) + Own(c) + Again(c) <= Limit(c) + cuts BY DEF Within
  <2>2. Limit(c) \in Int /\ Own(c) \in Int /\ Again(c) \in Int BY DEF Limit
  <2>3. Own(c)' \in Int /\ Again(c)' \in Int BY <1>n
  <2>4. ran[c] \in Int /\ Count(c, down) \in Int /\ cuts \in Int OBVIOUS
  <2> HIDE <1>t, <1>b
  <2>5. PICK r \in Int, q \in Int, o \in Int, a \in Int, l \in Int, x \in Int :
          r = ran[c] /\ q = Count(c, down) /\ o = Own(c) /\ a = Again(c) /\ l = Limit(c) /\ x = cuts
    BY <2>2, <2>4
  <2>6. PICK r1 \in Int, q1 \in Int, o1 \in Int, a1 \in Int, x1 \in Int :
          r1 = ran'[c] /\ q1 = Count(c, down') /\ o1 = Own(c)' /\ a1 = Again(c)' /\ x1 = cuts'
    <3>1. ran'[c] \in Int /\ Count(c, down') \in Int /\ cuts' \in Int BY <1>w
    <3> QED BY <2>3, <3>1
  <2>7. r + q + o + a <= l + x BY <2>1, <2>5
  <2>8. r1 + q1 + o1 + a1 + x <= r + q + o + a + x1 BY <1>w, <2>5, <2>6
  <2>9. r1 + q1 + o1 + a1 <= l + x1 BY <2>7, <2>8
  <2> QED BY <2>5, <2>6, <2>9
\* A step that spends nothing of what runs or is under way.
<1>k. ASSUME UNCHANGED <<kind, ran, down, cuts>>,
             link' # "flushing" => batch' = {} /\ flushed' = {},
             \A c \in Commands :
               /\ Own(c)' + Again(c)' <= Own(c) + Again(c)
               /\ issuer'[c] = "idle" =>
                    issuer[c] = "idle" /\ row'[c] = row[c] /\ c \notin batch' \cup flushed'
      PROVE  Budget'
  <2>1. ASSUME NEW c \in Commands PROVE Within(c)' /\ (issuer'[c] = "idle" => Untouched(c)')
    <3>1. Count(c, down') = Count(c, down) /\ ran'[c] = ran[c] /\ kind'[c] = kind[c] BY <1>k
    <3>2. Own(c)' + Again(c)' <= Own(c) + Again(c) BY <1>k
    <3>3. ran'[c] + Count(c, down') + Own(c)' + Again(c)' + cuts
            <= ran[c] + Count(c, down) + Own(c) + Again(c) + cuts'
      BY <1>k, <1>n, <3>1, <3>2
    <3>4. Within(c)' BY <1>k, <1>w, <3>1, <3>3
    <3>5. issuer'[c] = "idle" => Untouched(c)' BY <1>k, <3>1 DEF Untouched
    <3> QED BY <3>4, <3>5
  <2> QED BY <1>k, <2>1 DEF Budget
<1>1. ASSUME NEW d \in Commands, NEW k \in Kinds, Issue(d, k) PROVE Budget'
  <2>1. /\ issuer[d] = "idle" /\ UNCHANGED <<link, batch, flushed, down, ran, cuts>>
        /\ kind' = [kind EXCEPT ![d] = k] /\ issuer' = [issuer EXCEPT ![d] = "send"]
        /\ row' = IF k = "reboot" THEN row ELSE [row EXCEPT ![d] = "QUEUED"]
    BY <1>1 DEF Issue, flush, wire, count
  <2>2. ASSUME NEW c \in Commands PROVE Within(c)' /\ (issuer'[c] = "idle" => Untouched(c)')
    <3>1. CASE c = d
      <4>1. Untouched(d) BY <2>1
      <4>2. ran'[d] = 0 /\ Count(d, down') = 0 /\ kind'[d] = k /\ issuer'[d] = "send"
        BY <2>1, <4>1 DEF Untouched
      <4>3. k = "reboot" => Again(d)' = 0 BY <2>1, <4>1 DEF Again, Untouched
      <4>4. Within(d)'
        <5>1. cuts' = cuts /\ Own(d)' \in Int /\ Own(d)' <= 1 /\ Again(d)' \in Int /\ Again(d)' <= 1
          BY <1>n, <2>1
        <5>2. CASE k = "reboot"
          <6>1. Again(d)' = 0 BY <4>3, <5>2
          <6>2. 0 + 0 + Own(d)' + 0 <= 1 + cuts BY <5>1
          <6> QED BY <4>2, <5>1, <5>2, <6>1, <6>2 DEF Within, Limit
        <5>3. CASE k # "reboot"
          <6>1. 0 + 0 + Own(d)' + Again(d)' <= 2 + cuts BY <5>1
          <6> QED BY <4>2, <5>1, <5>3, <6>1 DEF Within, Limit
        <5> QED BY <5>2, <5>3
      <4> QED BY <3>1, <4>2, <4>4
    <3>2. CASE c # d
      <4>1. /\ row'[c] = row[c] /\ kind'[c] = kind[c] /\ issuer'[c] = issuer[c]
            /\ Count(c, down') = Count(c, down)
        BY <2>1, <3>2
      <4>2. Own(c)' = Own(c) /\ Again(c)' = Again(c) BY <2>1, <4>1 DEF Own, Again
      <4>3. Within(c)' BY <2>1, <4>1, <4>2 DEF Within, Limit
      <4>4. issuer'[c] = "idle" => Untouched(c)' BY <2>1, <4>1 DEF Untouched
      <4> QED BY <4>3, <4>4
    <3> QED BY <3>1, <3>2
  <2> QED BY <2>1, <2>2 DEF Budget
<1>2. ASSUME NEW d \in Commands, Send(d) PROVE Budget'
  <2>1. /\ issuer[d] = "send" /\ UNCHANGED <<row, kind, link, batch, flushed, ran, cuts>>
        /\ \A c \in Commands : c # d => issuer'[c] = issuer[c]
        /\ issuer'[d] # "idle" /\ Again(d)' = Again(d) /\ Own(d) = 1
    BY <1>2 DEF Send, flush, count, Own, Again
  <2>2. CASE link = "down"
    <3>1. down' = down BY <1>2, <2>2 DEF Send
    <3>2. \A c \in Commands : Own(c)' + Again(c)' <= Own(c) + Again(c)
      <4>1. \A c \in Commands : c # d => Own(c)' = Own(c) /\ Again(c)' = Again(c)
        BY <2>1 DEF Own, Again
      <4>2. Own(d)' + Again(d)' <= Own(d) + Again(d) BY <1>n, <2>1
      <4>3. \A c \in Commands : Own(c) + Again(c) <= Own(c) + Again(c) OBVIOUS
      <4> QED BY <4>1, <4>2, <4>3
    <3>3. \A c \in Commands : issuer'[c] = "idle" =>
            issuer[c] = "idle" /\ row'[c] = row[c] /\ c \notin batch' \cup flushed'
      BY <2>1 DEF Untouched
    <3> QED BY <1>k, <2>1, <3>1, <3>2, <3>3
  <2>3. CASE link # "down"
    <3>1. down' = Append(down, d) /\ Own(d)' = 0 BY <1>2, <2>3 DEF Send, Own
    <3>2. ASSUME NEW c \in Commands PROVE Within(c)' /\ (issuer'[c] = "idle" => Untouched(c)')
      <4>1. Count(c, down') = Count(c, down) + (IF d = c THEN 1 ELSE 0) BY <3>1, CountAppend
      <4>2. CASE c = d
        <5>1. ran'[d] + Count(d, down') + Own(d)' + Again(d)' + cuts
                <= ran[d] + Count(d, down) + Own(d) + Again(d) + cuts'
          BY <2>1, <3>1, <4>1, <4>2
        <5>2. Count(d, down') \in Nat /\ kind'[d] = kind[d] /\ ran'[d] \in Nat /\ cuts' \in Nat
          BY <2>1, <4>1, <4>2
        <5>3. Within(d)' BY <1>w, <5>1, <5>2
        <5> QED BY <2>1, <4>2, <5>3
      <4>3. CASE c # d
        <5>1. Own(c)' = Own(c) /\ Again(c)' = Again(c) BY <2>1, <4>3 DEF Own, Again
        <5>2. Count(c, down') = Count(c, down) BY <4>1, <4>3
        <5>3. Within(c)' BY <2>1, <4>3, <5>1, <5>2 DEF Within, Limit
        <5>4. issuer'[c] = "idle" => Untouched(c)' BY <2>1, <4>3, <5>2 DEF Untouched
        <5> QED BY <5>3, <5>4
      <4> QED BY <4>2, <4>3
    <3> QED BY <2>1, <3>2 DEF Budget
  <2> QED BY <2>2, <2>3
<1>3. ASSUME NEW d \in Commands, Mark(d) PROVE Budget'
  <2>1. /\ issuer[d] \in {"delivered", "undelivered"} /\ issuer' = [issuer EXCEPT ![d] = "done"]
        /\ row' = [row EXCEPT ![d] = Outcome(d)]
        /\ UNCHANGED <<kind, link, batch, flushed, down, ran, cuts>>
    BY <1>3 DEF Mark, flush, wire, count
  <2>2. ASSUME NEW c \in Commands
        PROVE  /\ Own(c)' + Again(c)' <= Own(c) + Again(c)
               /\ issuer'[c] = "idle" =>
                    issuer[c] = "idle" /\ row'[c] = row[c] /\ c \notin batch' \cup flushed'
    <3>1. CASE c = d
      <4>1. Own(d)' = 0 /\ issuer'[d] = "done" BY <2>1 DEF Own
      <4>2. \/ row'[d] = row[d] \/ row'[d] # "QUEUED"
            \/ issuer[d] = "undelivered" /\ kind[d] = "reboot"
        BY <2>1 DEF Outcome
      <4>3. Again(d)' <= Again(d) \/ Own(d) = 1 BY <2>1, <4>2 DEF Own, Again
      <4> QED BY <1>n, <3>1, <4>1, <4>3
    <3>2. CASE c # d
      <4>1. Own(c)' = Own(c) /\ Again(c)' = Again(c) BY <2>1, <3>2 DEF Own, Again
      <4>2. issuer'[c] = issuer[c] /\ row'[c] = row[c] BY <2>1, <3>2
      <4> QED BY <2>1, <4>1, <4>2 DEF Untouched
    <3> QED BY <3>1, <3>2
  <2> QED BY <1>k, <1>n, <2>1, <2>2
<1>4. ASSUME NEW d \in Commands, FlushSend(d) PROVE Budget'
  <2>1. /\ link = "flushing" /\ d \in batch /\ batch' = batch \ {d} /\ flushed' = flushed \cup {d}
        /\ down' = Append(down, d) /\ UNCHANGED <<row, kind, issuer, link, ran, cuts>>
    BY <1>4 DEF FlushSend, request, count
  <2>2. ASSUME NEW c \in Commands PROVE Within(c)' /\ (issuer'[c] = "idle" => Untouched(c)')
    <3>1. Count(c, down') = Count(c, down) + (IF d = c THEN 1 ELSE 0) BY <2>1, CountAppend
    <3>2. CASE c = d
      <4>1. Again(d) = 1 /\ Again(d)' = 0 /\ Own(d)' = Own(d) BY <2>1 DEF Again, Own
      <4>2. issuer[d] # "idle" BY <2>1 DEF Untouched
      <4>3. ran'[d] + Count(d, down') + Own(d)' + Again(d)' + cuts
              <= ran[d] + Count(d, down) + Own(d) + Again(d) + cuts'
        BY <2>1, <3>1, <3>2, <4>1
      <4>4. Within(d)' BY <1>w, <2>1, <3>1, <3>2, <4>3
      <4> QED BY <2>1, <3>2, <4>2, <4>4
    <3>3. CASE c # d
      <4>1. Again(c)' = Again(c) /\ Own(c)' = Own(c) BY <2>1, <3>3 DEF Again, Own
      <4>2. Count(c, down') = Count(c, down) BY <3>1, <3>3
      <4>3. Within(c)' BY <2>1, <4>1, <4>2 DEF Within, Limit
      <4>4. issuer'[c] = "idle" => Untouched(c)' BY <2>1, <3>3, <4>2 DEF Untouched
      <4> QED BY <4>3, <4>4
    <3> QED BY <3>2, <3>3
  <2> QED BY <2>1, <2>2 DEF Budget
<1>5. ASSUME Connect \/ FlushLoad \/ FlushCommit \/ Result \/ ResultLate PROVE Budget'
  <2>1. UNCHANGED <<kind, issuer, ran, down, cuts>>
    BY <1>5 DEF Connect, FlushLoad, FlushCommit, Result, ResultLate, request, wire, count
  <2>2. link' # "flushing" => batch' = {} /\ flushed' = {}
    BY <1>5 DEF Connect, FlushLoad, FlushCommit, Result, ResultLate, flush
  <2>3. \A c \in Commands : issuer[c] = "idle" =>
          row[c] = "none" /\ c \notin batch \cup flushed
    BY DEF Untouched
  <2>4. ASSUME NEW c \in Commands
        PROVE  /\ Again(c)' <= Again(c)
               /\ issuer[c] = "idle" => row'[c] = row[c] /\ c \notin batch' \cup flushed'
    <3>1. CASE Connect BY <2>3, <3>1 DEF Connect, Again, flush
    <3>2. CASE FlushLoad BY <2>3, <3>2 DEF FlushLoad, Again, Queued
    <3>3. CASE FlushCommit BY <2>3, <3>3 DEF FlushCommit, Again
    <3>4. CASE Result \/ ResultLate
      <4>1. /\ \A e \in Commands : row'[e] = row[e] \/ (row[e] # "none" /\ row'[e] # "QUEUED")
            /\ batch' = batch /\ flushed' = flushed
        BY <3>4 DEF Result, ResultLate, Record, flush
      <4> QED BY <2>3, <4>1 DEF Again
    <3> QED BY <1>5, <3>1, <3>2, <3>3, <3>4
  <2>5. \A c \in Commands : Own(c)' = Own(c) BY <2>1 DEF Own
  <2>6. \A c \in Commands : Own(c)' + Again(c)' <= Own(c) + Again(c)
    BY <1>n, <2>4, <2>5
  <2> QED BY <1>k, <2>1, <2>2, <2>4, <2>6
<1>6. ASSUME Drop PROVE Budget'
  <2>1. /\ link' = "down" /\ batch' = {} /\ flushed' = {} /\ down' = <<>>
        /\ cuts' = IF link = "flushing" THEN cuts + 1 ELSE cuts
        /\ UNCHANGED <<row, kind, issuer, ran>>
    BY <1>6 DEF Drop, request
  <2>2. ASSUME NEW c \in Commands PROVE Within(c)' /\ (issuer'[c] = "idle" => Untouched(c)')
    <3>1. Count(c, down') = 0 BY <2>1, CountNone
    <3>2. Own(c)' = Own(c) /\ Again(c)' + cuts <= Again(c) + cuts'
      BY <1>n, <2>1 DEF Own, Again
    <3>3. cuts' \in Nat BY <2>1
    <3>4. ran'[c] + Count(c, down') + Own(c)' + Again(c)' + cuts
            <= ran[c] + Count(c, down) + Own(c) + Again(c) + cuts'
      <4>1. ran'[c] = ran[c] /\ ran[c] \in Int /\ Own(c) \in Int /\ Again(c) \in Int
            /\ Again(c)' \in Int /\ cuts \in Int /\ cuts' \in Int
        BY <1>n, <2>1, <3>3
      <4>2. PICK q \in Int : q = Count(c, down) /\ q >= 0 OBVIOUS
      <4> HIDE <1>t, <1>b
      <4>3. ran[c] + 0 + Own(c) + Again(c)' + cuts <= ran[c] + q + Own(c) + Again(c) + cuts'
        BY <3>2, <4>1, <4>2
      <4> QED BY <3>1, <3>2, <4>1, <4>2, <4>3
    <3>5. Within(c)' BY <1>w, <2>1, <3>1, <3>3, <3>4
    <3>6. issuer'[c] = "idle" => Untouched(c)' BY <2>1, <3>1 DEF Untouched
    <3> QED BY <3>5, <3>6
  <2> QED BY <2>1, <2>2 DEF Budget
<1>7. ASSUME Execute PROVE Budget'
  <2>1. /\ down # <<>> /\ down' = Tail(down) /\ Head(down) \in Commands
        /\ UNCHANGED <<row, kind, issuer, link, batch, flushed, cuts>>
        /\ down' \in Seq(Commands)
    BY <1>7 DEF Execute, request, flush, count
  <2>2. ran' = ran \/ ran' = [ran EXCEPT ![Head(down)] = ran[Head(down)] + 1]
    BY <1>7 DEF Execute
  <2>3. ASSUME NEW c \in Commands PROVE Within(c)' /\ (issuer'[c] = "idle" => Untouched(c)')
    <3>1. /\ Count(c, down') + (IF Head(down) = c THEN 1 ELSE 0) <= Count(c, down)
          /\ Count(c, down') \in Nat
      BY <2>1, CountTail, CountType
    <3>2. ran'[c] \in Nat /\ ran'[c] <= ran[c] + (IF Head(down) = c THEN 1 ELSE 0)
          /\ (Head(down) # c => ran'[c] = ran[c])
      <4>1. CASE Head(down) = c
        <5>1. ran'[c] = ran[c] \/ ran'[c] = ran[c] + 1 BY <2>2, <4>1
        <5>2. ran[c] \in Nat OBVIOUS
        <5> HIDE <1>t, <1>b
        <5>3. ran'[c] \in Nat /\ ran'[c] <= ran[c] + 1 BY <5>1, <5>2
        <5> QED BY <4>1, <5>3
      <4>2. CASE Head(down) # c
        <5>1. ran'[c] = ran[c] BY <2>1, <2>2, <4>2
        <5>2. ran[c] \in Nat OBVIOUS
        <5> HIDE <1>t, <1>b
        <5>3. ran[c] <= ran[c] + 0 BY <5>2
        <5> QED BY <4>2, <5>1, <5>2, <5>3
      <4> QED BY <4>1, <4>2
    <3>3. Own(c)' = Own(c) /\ Again(c)' = Again(c) BY <2>1 DEF Own, Again
    <3>4. Within(c)'
      <4>1. ran'[c] + Count(c, down') + Own(c)' + Again(c)' + cuts
              <= ran[c] + Count(c, down) + Own(c) + Again(c) + cuts'
        <5>1. PICK h \in {0, 1} : h = IF Head(down) = c THEN 1 ELSE 0 OBVIOUS
        <5>2. PICK r \in Int, q \in Int, o \in Int, a \in Int, x \in Int, r1 \in Int, q1 \in Int :
                /\ r = ran[c] /\ q = Count(c, down) /\ o = Own(c) /\ a = Again(c) /\ x = cuts
                /\ r1 = ran'[c] /\ q1 = Count(c, down')
          <6>1. ran[c] \in Int /\ Count(c, down) \in Int /\ cuts \in Int
                /\ Own(c) \in Int /\ Again(c) \in Int
            OBVIOUS
          <6>2. ran'[c] \in Int /\ Count(c, down') \in Int BY <3>1, <3>2
          <6> HIDE <1>t, <1>b
          <6> QED BY <6>1, <6>2
        <5>3. q1 + h <= q /\ r1 <= r + h BY <3>1, <3>2, <5>1, <5>2
        <5> HIDE <1>t, <1>b
        <5>4. r1 + q1 + o + a + x <= r + q + o + a + x BY <5>1, <5>3
        <5> QED BY <2>1, <3>3, <5>2, <5>4
      <4> QED BY <1>w, <2>1, <3>1, <3>2, <4>1
    <3>5. issuer[c] = "idle" => Count(c, down') = 0 /\ Head(down) # c
      BY <3>1 DEF Untouched
    <3> QED BY <2>1, <3>2, <3>4, <3>5 DEF Untouched
  <2> QED BY <2>1, <2>3 DEF Budget
<1>8. ASSUME Turn \/ Report \/ UNCHANGED vars PROVE Budget'
  <2>1. UNCHANGED <<row, kind, issuer, link, batch, flushed, down, ran, cuts>>
    BY <1>8 DEF Turn, Report, vars, request, flush, wire, count
  <2>2. \A c \in Commands : Own(c)' = Own(c) /\ Again(c)' = Again(c) BY <2>1 DEF Own, Again
  <2>3. \A c \in Commands : issuer[c] = "idle" => c \notin batch \cup flushed
    BY DEF Untouched
  <2>4. \A c \in Commands : Own(c)' + Again(c)' <= Own(c) + Again(c) BY <2>2
  <2> QED BY <1>k, <2>1, <2>3, <2>4
<1> QED BY <1>1, <1>2, <1>3, <1>4, <1>5, <1>6, <1>7, <1>8 DEF Next

\* A reboot takes effect once, a switch or a restore twice, plus once for every
\* flush that was cut, for any number of commands and of lost connections.
THEOREM RedeliveryIsBounded == Spec => []RedeliveryBounded
<1>1. TypeOK /\ Budget => RedeliveryBounded
  <2> SUFFICES ASSUME TypeOK, Budget, NEW c \in Commands
               PROVE  ran[c] <= (IF kind[c] = "reboot" THEN 1 ELSE 2) + cuts
    BY DEF RedeliveryBounded
  <2>1. ran[c] \in Nat /\ Count(c, down) \in Nat /\ cuts \in Nat
    BY CountType, CommandsAssumption DEF TypeOK
  <2>2. ran[c] + Count(c, down) + Own(c) + Again(c) <= Limit(c) + cuts
    BY DEF Budget, Within
  <2> QED BY <2>1, <2>2 DEF Own, Again, Limit
<1> QED BY <1>1, TypeInit, TypeStep, BudgetInit, BudgetStep, PTL DEF Spec
=============================================================================
