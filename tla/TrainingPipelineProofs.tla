---------------------- MODULE TrainingPipelineProofs ----------------------
(***************************************************************************)
(* Proofs about TrainingPipeline, for every set of calls and contents and  *)
(* every size of the channel, the batches, the pages and the table.        *)
(***************************************************************************)
EXTENDS TrainingPipeline, TLAPS

Distinct(s) == \A i, j \in DOMAIN s : s[i] = s[j] => i = j

\* The consumer writes only a batch that holds something, and stops only when told to.
ConsumerState ==
  /\ cpc \in {"writing", "singles", "lastWriting", "lastSingles"} => batch # <<>>
  /\ cpc \in {"draining", "lastWriting", "lastSingles", "stopped"} => phase # "serving"
  /\ phase \in {"closing", "exited"} => cpc = "stopped"

\* Only a content that has a hash is looked for, and only then marked.
CheckedHasHash == \A r \in Call : pc[r] = "checked" => ContentOf[r] # NoHash

\* A record is in one place, once, and its call has finished recording.
OnePlace ==
  /\ Distinct(chan) /\ Distinct(batch) /\ Distinct(log)
  /\ Elements(chan) \cap Elements(batch) = {}
  /\ Held \cap Elements(log) = {}
  /\ \A r \in Held \cup Elements(log) : pc[r] = "done"

\* Where the records accepted before the stop are, while the consumer finishes.
EarlyIsKept ==
  /\ early \subseteq Held \cup Elements(log) \cup lost
  /\ cpc \in {"lastWriting", "lastSingles", "stopped"} =>
       early \subseteq Elements(batch) \cup Elements(log) \cup lost
  /\ cpc = "stopped" => batch = <<>>

\* The archiver has exported the range up to its last row, deletes it only when it is in
\* an archive file, and no later row enters it.
RangeIsExported ==
  /\ apc \in {"exporting", "compressing", "deleting"} => boundary <= Len(log)
  /\ apc = "exporting" =>
       \A i \in InRange : (\E e \in exported : i <= e) => i \in exported
  /\ apc = "compressing" => InRange \subseteq exported
  /\ apc = "deleting" /\ ~cut => InRange \subseteq archived

\* How a step may bring the consumer to its last write or its end without moving a record.
ConsumerEnds ==
  \/ cpc' \in {cpc, "looping", "writing", "draining"}
  \/ chan = <<>> /\ (cpc' = "stopped" => batch = <<>>)

TrainingInv ==
  /\ TypeOK
  /\ ConsumerState
  /\ CheckedHasHash
  /\ OnePlace
  /\ EarlyIsKept
  /\ RangeIsExported
  /\ DeletedIsArchived
  /\ MarkedIsKept

-----------------------------------------------------------------------------
\* What a record added to a sequence does to its elements.
LEMMA AppendElements ==
  ASSUME NEW s \in Seq(Call), NEW x \in Call
  PROVE  /\ Append(s, x) \in Seq(Call) /\ Len(Append(s, x)) = Len(s) + 1
         /\ Elements(Append(s, x)) = Elements(s) \cup {x}
         /\ Distinct(s) /\ x \notin Elements(s) => Distinct(Append(s, x))
<1>1. /\ Append(s, x) \in Seq(Call) /\ Len(Append(s, x)) = Len(s) + 1
      /\ DOMAIN s = 1..Len(s) /\ DOMAIN Append(s, x) = 1..(Len(s) + 1) /\ Len(s) \in Nat
      /\ \A i \in 1..Len(s) : Append(s, x)[i] = s[i]
      /\ Append(s, x)[Len(s) + 1] = x
  OBVIOUS
<1>2. Elements(Append(s, x)) \subseteq Elements(s) \cup {x}
  BY <1>1 DEF Elements
<1>3. Elements(s) \cup {x} \subseteq Elements(Append(s, x))
  BY <1>1 DEF Elements
<1>4. Distinct(s) /\ x \notin Elements(s) => Distinct(Append(s, x))
  BY <1>1 DEF Elements, Distinct
<1>. QED  BY <1>1, <1>2, <1>3, <1>4

\* ... what taking the first one does ...
LEMMA HeadElements ==
  ASSUME NEW s \in Seq(Call), s # <<>>
  PROVE  /\ Head(s) \in Call /\ Tail(s) \in Seq(Call) /\ Len(Tail(s)) = Len(s) - 1
         /\ Elements(s) = {Head(s)} \cup Elements(Tail(s))
         /\ Distinct(s) => Distinct(Tail(s)) /\ Head(s) \notin Elements(Tail(s))
<1>1. /\ Head(s) = s[1] /\ Tail(s) \in Seq(Call) /\ Len(Tail(s)) = Len(s) - 1
      /\ DOMAIN s = 1..Len(s) /\ Len(s) \in Nat \ {0}
      /\ DOMAIN Tail(s) = 1..(Len(s) - 1)
      /\ \A i \in 1..(Len(s) - 1) : Tail(s)[i] = s[i + 1]
  OBVIOUS
<1>2. \A i \in DOMAIN s : i = 1 \/ (i - 1 \in DOMAIN Tail(s) /\ Tail(s)[i - 1] = s[i])
  BY <1>1
<1>3. \A i \in DOMAIN Tail(s) : i + 1 \in DOMAIN s /\ Tail(s)[i] = s[i + 1] /\ i + 1 # 1
  BY <1>1
<1>4. 1 \in DOMAIN s /\ s[1] \in Call
  BY <1>1
<1>5. Elements(s) \subseteq {Head(s)} \cup Elements(Tail(s))
  BY <1>1, <1>2 DEF Elements
<1>6. {Head(s)} \cup Elements(Tail(s)) \subseteq Elements(s)
  BY <1>1, <1>3, <1>4 DEF Elements
<1>7. ASSUME Distinct(s) PROVE Distinct(Tail(s)) /\ Head(s) \notin Elements(Tail(s))
  BY <1>1, <1>3, <1>4, <1>7 DEF Elements, Distinct
<1>. QED  BY <1>1, <1>4, <1>5, <1>6, <1>7

\* ... and what joining two sequences does.
LEMMA ConcatElements ==
  ASSUME NEW s \in Seq(Call), NEW t \in Seq(Call)
  PROVE  /\ s \o t \in Seq(Call) /\ Len(s \o t) = Len(s) + Len(t)
         /\ Elements(s \o t) = Elements(s) \cup Elements(t)
         /\ Distinct(s) /\ Distinct(t) /\ Elements(s) \cap Elements(t) = {}
              => Distinct(s \o t)
<1>1. /\ s \o t \in Seq(Call) /\ Len(s \o t) = Len(s) + Len(t)
      /\ Len(s) \in Nat /\ Len(t) \in Nat
      /\ DOMAIN s = 1..Len(s) /\ DOMAIN t = 1..Len(t) /\ DOMAIN (s \o t) = 1..(Len(s) + Len(t))
      /\ \A i \in 1..Len(s) : (s \o t)[i] = s[i]
      /\ \A i \in 1..Len(t) : (s \o t)[Len(s) + i] = t[i]
  OBVIOUS
<1>2. \A i \in DOMAIN (s \o t) :
        \/ i \in DOMAIN s /\ (s \o t)[i] = s[i]
        \/ i - Len(s) \in DOMAIN t /\ i = Len(s) + (i - Len(s)) /\ (s \o t)[i] = t[i - Len(s)]
  BY <1>1
<1>3. Elements(s \o t) \subseteq Elements(s) \cup Elements(t)
  BY <1>2 DEF Elements
<1>4. Elements(s) \cup Elements(t) \subseteq Elements(s \o t)
  <2>1. \A i \in DOMAIN s : i \in DOMAIN (s \o t) /\ (s \o t)[i] = s[i]
    BY <1>1
  <2>2. \A i \in DOMAIN t : Len(s) + i \in DOMAIN (s \o t) /\ (s \o t)[Len(s) + i] = t[i]
    BY <1>1
  <2>. QED  BY <2>1, <2>2 DEF Elements
<1>5. ASSUME Distinct(s), Distinct(t), Elements(s) \cap Elements(t) = {} PROVE Distinct(s \o t)
  <2>. SUFFICES ASSUME NEW i \in DOMAIN (s \o t), NEW j \in DOMAIN (s \o t),
                       (s \o t)[i] = (s \o t)[j]
                PROVE  i = j
    BY DEF Distinct
  <2>1. CASE i \in DOMAIN s /\ (s \o t)[i] = s[i] /\ j \in DOMAIN s /\ (s \o t)[j] = s[j]
    BY <2>1, <1>5 DEF Distinct
  <2>2. CASE /\ i - Len(s) \in DOMAIN t /\ (s \o t)[i] = t[i - Len(s)]
             /\ j - Len(s) \in DOMAIN t /\ (s \o t)[j] = t[j - Len(s)]
    <3>1. i - Len(s) = j - Len(s)
      BY <2>2, <1>5 DEF Distinct
    <3>. QED  BY <3>1, <1>1
  <2>3. CASE i \in DOMAIN s /\ (s \o t)[i] = s[i]
             /\ j - Len(s) \in DOMAIN t /\ (s \o t)[j] = t[j - Len(s)]
    <3>1. s[i] \in Elements(s) /\ s[i] \in Elements(t)
      BY <2>3 DEF Elements
    <3>. QED  BY <3>1, <1>5
  <2>4. CASE j \in DOMAIN s /\ (s \o t)[j] = s[j]
             /\ i - Len(s) \in DOMAIN t /\ (s \o t)[i] = t[i - Len(s)]
    <3>1. s[j] \in Elements(s) /\ s[j] \in Elements(t)
      BY <2>4 DEF Elements
    <3>. QED  BY <3>1, <1>5
  <2>. QED  BY <1>2, <2>1, <2>2, <2>3, <2>4
<1>. QED  BY <1>1, <1>3, <1>4, <1>5

\* The empty sequence and a sequence of one record.
LEMMA SmallSequences ==
  /\ Elements(<<>>) = {} /\ Distinct(<<>>) /\ <<>> \in Seq(Call) /\ Len(<<>>) = 0
  /\ \A x \in Call : <<x>> \in Seq(Call) /\ Len(<<x>>) = 1 /\ Elements(<<x>>) = {x}
                     /\ Distinct(<<x>>)
<1>1. /\ <<>> \in Seq(Call) /\ Len(<<>>) = 0 /\ DOMAIN <<>> = {}
  OBVIOUS
<1>2. Elements(<<>>) = {} /\ Distinct(<<>>)
  BY <1>1 DEF Elements, Distinct
<1>3. ASSUME NEW x \in Call
      PROVE  <<x>> \in Seq(Call) /\ Len(<<x>>) = 1 /\ DOMAIN <<x>> = {1} /\ <<x>>[1] = x
  OBVIOUS
<1>4. ASSUME NEW x \in Call PROVE Elements(<<x>>) = {x} /\ Distinct(<<x>>)
  BY <1>3 DEF Elements, Distinct
<1>. QED  BY <1>1, <1>2, <1>3, <1>4

-----------------------------------------------------------------------------
\* The recording goroutine changes nothing but its phase, the marks and the faults ...
LEMMA RecordingStep ==
  ASSUME TypeOK, CheckedHasHash, NEW r \in Call, NEW off \in BOOLEAN, NEW failed \in BOOLEAN,
         Check(r, off, failed) \/ Mark(r, off, failed)
  PROVE  /\ pc[r] \in {"idle", "checked"} /\ Up
         /\ UNCHANGED <<dropped, buffer, rows, archive, process, lost>>
         /\ faults' \in 0..MaxFaults
         /\ \E p \in CallPhases : pc' = [pc EXCEPT ![r] = p]
         /\ pc'[r] = "checked" => ContentOf[r] # NoHash
         /\ \/ marks' = marks
            \/ ContentOf[r] \in Content /\ marks' = marks \cup {ContentOf[r]}
               /\ pc' = [pc EXCEPT ![r] = "marked"]
<1>. USE TrainingAssumption DEF TypeOK, Fault, Goto, CallPhases
<1>1. CASE Check(r, off, failed)
  BY <1>1 DEF Check
<1>2. CASE Mark(r, off, failed)
  <2>1. ContentOf[r] # NoHash
    BY <1>2 DEF Mark, CheckedHasHash
  <2>. QED  BY <1>2, <2>1 DEF Mark
<1>. QED  BY <1>1, <1>2

\* No step leaves the types.
LEMMA TrainingTypeStep ==
  ASSUME TypeOK, ConsumerState, CheckedHasHash, [Next]_vars
  PROVE  TypeOK'
<1>. USE TrainingAssumption
     DEF TypeOK, Ids, ConsumerPhases, ArchiverPhases, MainPhases,
         Fault, Goto, recording, buffer, rows, archive, process
<1>1. ASSUME NEW r \in Call, NEW off \in BOOLEAN, NEW failed \in BOOLEAN,
             Check(r, off, failed) \/ Mark(r, off, failed)
      PROVE  TypeOK'
  <2>1. /\ UNCHANGED <<dropped, buffer, rows, archive, process, lost>>
        /\ faults' \in 0..MaxFaults
        /\ \E p \in CallPhases : pc' = [pc EXCEPT ![r] = p]
        /\ marks' = marks \/ (ContentOf[r] \in Content /\ marks' = marks \cup {ContentOf[r]})
    BY <1>1, RecordingStep
  <2>. QED  BY <2>1
<1>2. ASSUME NEW r \in Call, Add(r) PROVE TypeOK'
  <2>1. chan' \in Seq(Call) /\ Len(chan') <= BufferCap
    <3>1. CASE Len(chan) < BufferCap
      <4>1. chan' = Append(chan, r) /\ Len(chan) \in Nat
        BY <1>2, <3>1 DEF Add
      <4>. QED  BY <4>1, <3>1, AppendElements
    <3>2. CASE ~(Len(chan) < BufferCap)
      BY <1>2, <3>2 DEF Add
    <3>. QED  BY <3>1, <3>2
  <2>2. /\ UNCHANGED <<marks, batch, cpc, rows, archive, phase, faults, lost>>
        /\ pc' = [pc EXCEPT ![r] = "done"]
        /\ dropped' = dropped \/ dropped' = dropped \cup {r}
        /\ early' = early \/ early' = early \cup {r}
    BY <1>2 DEF Add
  <2>. QED  BY <2>1, <2>2 DEF CallPhases
<1>3. ASSUME NEW c \in Content, MarkExpires(c) PROVE TypeOK'
  BY <1>3 DEF MarkExpires
<1>4. CASE Receive \/ Drain
  <2>1. chan' = Tail(chan) /\ batch' = Append(batch, Head(chan)) /\ chan # <<>>
        /\ cpc' \in ConsumerPhases
        /\ UNCHANGED <<recording, rows, archive, process, faults, lost>>
    BY <1>4 DEF Receive, Drain
  <2>2. chan' \in Seq(Call) /\ Len(chan') <= BufferCap
    BY <2>1, HeadElements
  <2>3. batch' \in Seq(Call)
    BY <2>1, HeadElements, AppendElements
  <2>. QED  BY <2>1, <2>2, <2>3
<1>5. CASE FlushTimer \/ SeeStop \/ Drained
  BY <1>5 DEF FlushTimer, SeeStop, Drained
<1>6. ASSUME NEW failed \in BOOLEAN, WriteBatch(failed) \/ WriteSingle(failed) PROVE TypeOK'
  <2>1. /\ UNCHANGED <<recording, chan, archive, process>>
        /\ faults' \in 0..MaxFaults /\ cpc' \in ConsumerPhases
    BY <1>6 DEF WriteBatch, WriteSingle, Flushed
  <2>2. batch # <<>>
    BY <1>6 DEF WriteBatch, WriteSingle, ConsumerState
  <2>3. /\ batch' \in {batch, <<>>, Tail(batch)}
        /\ lost' = lost \/ lost' = lost \cup {Head(batch)}
        /\ \/ UNCHANGED rows
           \/ Insert(batch)
           \/ Insert(<<Head(batch)>>)
    BY <1>6 DEF WriteBatch, WriteSingle
  <2>4. ASSUME NEW s \in Seq(Call), Insert(s)
        PROVE  log' \in Seq(Call) /\ table' \subseteq DOMAIN log' /\ DOMAIN log \subseteq DOMAIN log'
    BY <2>4, ConcatElements DEF Insert
  <2>5. /\ Head(batch) \in Call /\ Tail(batch) \in Seq(Call)
        /\ <<>> \in Seq(Call) /\ <<Head(batch)>> \in Seq(Call)
    BY <2>2, HeadElements, SmallSequences
  <2>6. batch' \in Seq(Call) /\ lost' \subseteq Call /\ <<Head(batch)>> \in Seq(Call)
    BY <2>3, <2>5
  <2>7. log' \in Seq(Call) /\ table' \subseteq DOMAIN log' /\ DOMAIN log \subseteq DOMAIN log'
    BY <2>3, <2>4, <2>6
  <2>. QED  BY <2>1, <2>6, <2>7
<1>7. ASSUME NEW failed \in BOOLEAN,
             TryArchive(failed) \/ FindBoundary(failed) \/ ExportPage(failed)
               \/ DeletePage(failed)
      PROVE  TypeOK'
  <2>1. UNCHANGED <<log, archived, cut, recording, buffer, process, lost>>
    BY <1>7 DEF TryArchive, FindBoundary, ExportPage, DeletePage
  <2>2. faults' \in 0..MaxFaults
    <3>1. Fault(failed)
      BY <1>7 DEF TryArchive, FindBoundary, ExportPage, DeletePage
    <3>. QED  BY <3>1
  <2>3. apc' \in ArchiverPhases
    BY <1>7 DEF TryArchive, FindBoundary, ExportPage, DeletePage
  <2>4. table' = table \/ \E page \in SUBSET table : table' = table \ page
    BY <1>7 DEF InRange, TryArchive, FindBoundary, ExportPage, DeletePage
  <2>5. boundary' = boundary \/ boundary' \in table
    BY <1>7 DEF TryArchive, FindBoundary, ExportPage, DeletePage
  <2>6. exported' \subseteq Ids
    BY <1>7 DEF TryArchive, FindBoundary, ExportPage, DeletePage, InRange
  <2>. QED  BY <2>1, <2>2, <2>3, <2>4, <2>5, <2>6
<1>8. ASSUME NEW failed \in BOOLEAN, NEW closeFailed \in BOOLEAN, Compress(failed, closeFailed)
      PROVE  TypeOK'
  <2>1. cut' \in BOOLEAN
    BY <1>8 DEF Compress
  <2>2. /\ UNCHANGED <<boundary, recording, buffer, rows, process, lost>>
        /\ faults' \in 0..MaxFaults /\ apc' \in ArchiverPhases
        /\ exported' = {} /\ archived' \subseteq Ids
    BY <1>8 DEF Compress
  <2>. QED  BY <2>1, <2>2
<1>9. CASE ArchiverStops \/ CloseBuffer \/ CloseArchiver \/ Restart
  BY <1>9 DEF ArchiverStops, CloseBuffer, CloseArchiver, Restart
<1>10. CASE Exit \/ Crash
  <2>1. Stop /\ faults' \in 0..MaxFaults
    BY <1>10 DEF Exit, Crash
  <2>2. Held \subseteq Call
    BY DEF Held, Elements
  <2>3. pc' \in [Call -> CallPhases] /\ lost' \subseteq Call
    BY <2>1, <2>2 DEF Stop, CallPhases
  <2>. QED  BY <2>1, <2>3, SmallSequences DEF Stop
<1>11. CASE UNCHANGED vars
  BY <1>11 DEF vars
<1>. QED
  BY <1>1, <1>2, <1>3, <1>4, <1>5, <1>6, <1>7, <1>8, <1>9, <1>10, <1>11
     DEF Next, Consume, Archive

\* Where the consumer stands follows from its own steps and from main's.
LEMMA ConsumerStep ==
  ASSUME TypeOK, ConsumerState, [Next]_vars
  PROVE  ConsumerState'
<1>. USE TrainingAssumption DEF TypeOK, ConsumerState, ConsumerPhases, MainPhases, recording,
         buffer, archive, process
<1>1. ASSUME NEW r \in Call, NEW off \in BOOLEAN, NEW failed \in BOOLEAN,
             Check(r, off, failed) \/ Mark(r, off, failed)
      PROVE  ConsumerState'
  BY <1>1 DEF Check, Mark
<1>2. ASSUME NEW r \in Call, Add(r) PROVE ConsumerState'
  BY <1>2 DEF Add
<1>3. ASSUME NEW c \in Content, MarkExpires(c) PROVE ConsumerState'
  BY <1>3 DEF MarkExpires
<1>4. CASE Receive \/ Drain
  <2>1. chan # <<>> /\ batch' = Append(batch, Head(chan))
    BY <1>4 DEF Receive, Drain
  <2>2. batch' # <<>>
    BY <2>1, HeadElements, AppendElements, SmallSequences
  <2>. QED  BY <1>4, <2>2 DEF Receive, Drain
<1>5. CASE FlushTimer \/ SeeStop \/ Drained
  BY <1>5 DEF FlushTimer, SeeStop, Drained
<1>6. ASSUME NEW failed \in BOOLEAN, WriteBatch(failed) PROVE ConsumerState'
  BY <1>6 DEF WriteBatch, Flushed
<1>7. ASSUME NEW failed \in BOOLEAN, WriteSingle(failed) PROVE ConsumerState'
  <2>1. batch # <<>> /\ batch' = Tail(batch) /\ phase' = phase
    BY <1>7 DEF WriteSingle
  <2>2. ASSUME Len(batch) # 1 PROVE batch' # <<>>
    <3>1. batch \in Seq(Call) /\ batch # <<>>
      BY <2>1
    <3>2. Len(batch') = Len(batch) - 1 /\ Len(batch) \in Nat
      BY <2>1, <3>1, HeadElements
    <3>3. Len(batch') # 0
      BY <2>2, <3>2
    <3>. QED  BY <3>3, SmallSequences
  <2>. QED  BY <1>7, <2>1, <2>2 DEF WriteSingle, Flushed
<1>8. ASSUME NEW failed \in BOOLEAN,
             TryArchive(failed) \/ FindBoundary(failed) \/ ExportPage(failed)
               \/ DeletePage(failed)
      PROVE  ConsumerState'
  <2>1. UNCHANGED <<buffer, process>>
    BY <1>8 DEF TryArchive, FindBoundary, ExportPage, DeletePage
  <2>. QED  BY <2>1
<1>9. ASSUME NEW failed \in BOOLEAN, NEW closeFailed \in BOOLEAN, Compress(failed, closeFailed)
      PROVE  ConsumerState'
  BY <1>9 DEF Compress
<1>10. CASE ArchiverStops \/ CloseBuffer \/ CloseArchiver \/ Restart
  BY <1>10 DEF ArchiverStops, CloseBuffer, CloseArchiver, Restart
<1>11. CASE Exit \/ Crash
  BY <1>11 DEF Exit, Crash, Stop
<1>12. CASE UNCHANGED vars
  BY <1>12 DEF vars
<1>. QED
  BY <1>1, <1>2, <1>3, <1>4, <1>5, <1>6, <1>7, <1>8, <1>9, <1>10, <1>11, <1>12
     DEF Next, Consume, Archive

\* The steps that touch a record: all others leave every record where it is.
LEMMA RecordSteps ==
  ASSUME [Next]_vars
  PROVE  \/ \E r \in Call, off, failed \in BOOLEAN : Check(r, off, failed) \/ Mark(r, off, failed)
         \/ \E r \in Call : Add(r)
         \/ Receive \/ Drain
         \/ \E failed \in BOOLEAN : WriteBatch(failed) \/ WriteSingle(failed)
         \/ Stop
         \/ /\ UNCHANGED <<pc, chan, batch, log, dropped, lost, early>>
            /\ marks' \subseteq marks /\ ConsumerEnds
<1>. DEFINE Quiet == /\ UNCHANGED <<pc, chan, batch, log, dropped, lost, early>>
                     /\ marks' \subseteq marks /\ ConsumerEnds
<1>. USE DEF ConsumerEnds, recording, buffer, rows, archive, process
<1>1. ASSUME NEW c \in Content, MarkExpires(c) PROVE Quiet
  BY <1>1 DEF MarkExpires
<1>2. ASSUME FlushTimer \/ SeeStop \/ Drained PROVE Quiet
  BY <1>2 DEF FlushTimer, SeeStop, Drained
<1>3. ASSUME NEW failed \in BOOLEAN,
             TryArchive(failed) \/ FindBoundary(failed) \/ ExportPage(failed)
               \/ DeletePage(failed)
      PROVE  Quiet
  <2>1. UNCHANGED <<log, recording, buffer, process, lost>>
    BY <1>3 DEF TryArchive, FindBoundary, ExportPage, DeletePage
  <2>. QED  BY <2>1
<1>4. ASSUME NEW failed \in BOOLEAN, NEW closeFailed \in BOOLEAN, Compress(failed, closeFailed)
      PROVE  Quiet
  BY <1>4 DEF Compress
<1>5. ASSUME ArchiverStops \/ CloseBuffer \/ CloseArchiver \/ Restart PROVE Quiet
  BY <1>5 DEF ArchiverStops, CloseBuffer, CloseArchiver, Restart
<1>6. ASSUME UNCHANGED vars PROVE Quiet
  BY <1>6 DEF vars
<1>. HIDE DEF Quiet
<1>7. ASSUME Exit \/ Crash PROVE Stop
  BY <1>7 DEF Exit, Crash
<1>8. Next \/ UNCHANGED vars
  OBVIOUS
<1>9. \/ \E r \in Call, off, failed \in BOOLEAN : Check(r, off, failed) \/ Mark(r, off, failed)
      \/ \E r \in Call : Add(r)
      \/ Receive \/ Drain
      \/ \E failed \in BOOLEAN : WriteBatch(failed) \/ WriteSingle(failed)
      \/ Stop
      \/ Quiet
  BY <1>1, <1>2, <1>3, <1>4, <1>5, <1>6, <1>7, <1>8 DEF Next, Consume, Archive
<1>. QED  BY <1>9 DEF Quiet

\* Receiving moves the first record of the channel to the batch ...
LEMMA ReceiveMoves ==
  ASSUME TypeOK, Receive \/ Drain
  PROVE  /\ UNCHANGED <<pc, marks, dropped, log, lost, early, phase>>
         /\ Elements(chan) = {Head(chan)} \cup Elements(chan')
         /\ Elements(batch') = Elements(batch) \cup {Head(chan)}
         /\ Distinct(chan) => Distinct(chan') /\ Head(chan) \notin Elements(chan')
         /\ Distinct(batch) /\ Head(chan) \notin Elements(batch) => Distinct(batch')
         /\ Held' = Held
<1>1. /\ UNCHANGED <<pc, marks, dropped, log, lost, early, phase>>
      /\ chan # <<>> /\ chan' = Tail(chan) /\ batch' = Append(batch, Head(chan))
  BY DEF Receive, Drain, recording, rows, process
<1>2. chan \in Seq(Call) /\ batch \in Seq(Call)
  BY DEF TypeOK
<1>3. /\ Head(chan) \in Call
      /\ Elements(chan) = {Head(chan)} \cup Elements(chan')
      /\ Distinct(chan) => Distinct(chan') /\ Head(chan) \notin Elements(chan')
  BY <1>1, <1>2, HeadElements
<1>4. /\ Elements(batch') = Elements(batch) \cup {Head(chan)}
      /\ Distinct(batch) /\ Head(chan) \notin Elements(batch) => Distinct(batch')
  BY <1>1, <1>2, <1>3, AppendElements
<1>. QED  BY <1>1, <1>3, <1>4 DEF Held

\* ... and a write takes records from the batch to the table, or gives one up.
LEMMA WriteMoves ==
  ASSUME TypeOK, ConsumerState, NEW failed \in BOOLEAN, WriteBatch(failed) \/ WriteSingle(failed)
  PROVE  /\ UNCHANGED <<pc, marks, dropped, chan, early, phase>>
         /\ Elements(batch') \subseteq Elements(batch)
         /\ Elements(log) \subseteq Elements(log')
         /\ Elements(log') \subseteq Elements(log) \cup Elements(batch)
         /\ lost \subseteq lost'
         /\ Elements(batch) \subseteq Elements(batch') \cup Elements(log') \cup lost'
         /\ Distinct(batch) /\ Distinct(log) /\ Elements(batch) \cap Elements(log) = {} =>
              Distinct(batch') /\ Distinct(log') /\ Elements(batch') \cap Elements(log') = {}
         /\ cpc' = "stopped" => batch' = <<>>
         /\ cpc' \in {"lastWriting", "lastSingles", "stopped"} =>
              cpc \in {"lastWriting", "lastSingles"}
<1>. DEFINE One == <<Head(batch)>>
<1>1. batch \in Seq(Call) /\ log \in Seq(Call) /\ batch # <<>>
  BY DEF TypeOK, ConsumerState, WriteBatch, WriteSingle
<1>2. /\ UNCHANGED <<pc, marks, dropped, chan, early, phase>>
      /\ cpc' \in {"lastWriting", "lastSingles", "stopped"} =>
           cpc \in {"lastWriting", "lastSingles"}
      /\ \/ UNCHANGED <<batch, log, lost>> /\ cpc' # "stopped"
         \/ batch' = <<>> /\ log' = log \o batch /\ lost' = lost
         \/ /\ batch' = Tail(batch) /\ (cpc' = "stopped" => Len(batch) = 1)
            /\ \/ log' = log \o One /\ lost' = lost
               \/ log' = log /\ lost' = lost \cup {Head(batch)}
  BY DEF WriteBatch, WriteSingle, Insert, Flushed, recording, rows, process
<1>3. /\ Head(batch) \in Call /\ Tail(batch) \in Seq(Call) /\ Len(Tail(batch)) = Len(batch) - 1
      /\ Elements(batch) = {Head(batch)} \cup Elements(Tail(batch))
      /\ Distinct(batch) => Distinct(Tail(batch)) /\ Head(batch) \notin Elements(Tail(batch))
  BY <1>1, HeadElements
<1>4. /\ Elements(<<>>) = {} /\ Distinct(<<>>)
      /\ One \in Seq(Call) /\ Elements(One) = {Head(batch)} /\ Distinct(One)
  BY <1>3, SmallSequences
<1>5. /\ Elements(log \o batch) = Elements(log) \cup Elements(batch)
      /\ Distinct(log) /\ Distinct(batch) /\ Elements(log) \cap Elements(batch) = {}
           => Distinct(log \o batch)
  BY <1>1, ConcatElements
<1>6. /\ Elements(log \o One) = Elements(log) \cup {Head(batch)}
      /\ Distinct(log) /\ Head(batch) \notin Elements(log) => Distinct(log \o One)
  BY <1>1, <1>4, ConcatElements
<1>7. Len(batch) = 1 => Tail(batch) = <<>>
  <2>1. Len(batch) = 1 => Len(Tail(batch)) = 0
    BY <1>3
  <2>2. \A s \in Seq(Call) : Len(s) = 0 => s = <<>>
    OBVIOUS
  <2>. QED  BY <1>3, <2>1, <2>2
<1>. HIDE DEF One
<1>8. CASE UNCHANGED <<batch, log, lost>> /\ cpc' # "stopped"
  BY <1>2, <1>8
<1>9. CASE batch' = <<>> /\ log' = log \o batch /\ lost' = lost
  BY <1>2, <1>4, <1>5, <1>9
<1>10. CASE batch' = Tail(batch) /\ (cpc' = "stopped" => Len(batch) = 1)
            /\ log' = log \o One /\ lost' = lost
  BY <1>2, <1>3, <1>6, <1>7, <1>10
<1>11. CASE batch' = Tail(batch) /\ (cpc' = "stopped" => Len(batch) = 1)
            /\ log' = log /\ lost' = lost \cup {Head(batch)}
  BY <1>2, <1>3, <1>7, <1>11
<1>. QED  BY <1>2, <1>8, <1>9, <1>10, <1>11

\* A record stays in one place.
LEMMA PlaceStep ==
  ASSUME TypeOK, ConsumerState, CheckedHasHash, OnePlace, [Next]_vars
  PROVE  OnePlace'
<1>1. ASSUME NEW r \in Call, NEW off \in BOOLEAN, NEW failed \in BOOLEAN,
             Check(r, off, failed) \/ Mark(r, off, failed)
      PROVE  OnePlace'
  <2>1. UNCHANGED <<chan, batch, log>> /\ pc[r] # "done"
    BY <1>1, RecordingStep DEF buffer, rows
  <2>2. \A q \in Call \ {r} : pc'[q] = pc[q]
    BY <1>1, RecordingStep DEF TypeOK
  <2>3. Held' = Held /\ Held \subseteq Call /\ Elements(log) \subseteq Call
    BY <2>1 DEF Held, Elements, TypeOK
  <2>. QED  BY <2>1, <2>2, <2>3 DEF OnePlace
<1>2. ASSUME NEW r \in Call, Add(r) PROVE OnePlace'
  <2>1. /\ UNCHANGED <<batch, log>> /\ pc[r] # "done" /\ pc' = [pc EXCEPT ![r] = "done"]
        /\ chan' = chan \/ chan' = Append(chan, r)
    BY <1>2 DEF Add, Goto, rows
  <2>2. /\ Elements(chan') = Elements(chan) \/ Elements(chan') = Elements(chan) \cup {r}
        /\ r \notin Elements(chan) /\ Distinct(chan) => Distinct(chan')
    <3>1. CASE chan' = chan
      BY <3>1 DEF Elements, Distinct
    <3>2. CASE chan' = Append(chan, r)
      BY <3>2, AppendElements DEF TypeOK
    <3>. QED  BY <2>1, <3>1, <3>2
  <2>3. r \notin Held \cup Elements(log)
    BY <2>1 DEF OnePlace
  <2>4. \A q \in Call : pc[q] = "done" \/ q = r => pc'[q] = "done"
    BY <2>1 DEF TypeOK
  <2>5. Held \subseteq Call /\ Elements(log) \subseteq Call
    BY DEF Held, Elements, TypeOK
  <2>. QED  BY <2>1, <2>2, <2>3, <2>4, <2>5 DEF OnePlace, Held
<1>3. ASSUME Receive \/ Drain PROVE OnePlace'
  BY <1>3, ReceiveMoves DEF OnePlace, Held
<1>4. ASSUME NEW failed \in BOOLEAN, WriteBatch(failed) \/ WriteSingle(failed) PROVE OnePlace'
  BY <1>4, WriteMoves DEF OnePlace, Held
<1>5. ASSUME Stop PROVE OnePlace'
  <2>1. chan' = <<>> /\ batch' = <<>> /\ log' = log
    BY <1>5 DEF Stop, rows
  <2>2. \A q \in Call : pc[q] = "done" => pc'[q] = "done"
    BY <1>5 DEF Stop
  <2>3. Elements(log) \subseteq Call
    BY DEF Elements, TypeOK
  <2>. QED  BY <2>1, <2>2, <2>3, SmallSequences DEF OnePlace, Held
<1>6. ASSUME UNCHANGED <<pc, chan, batch, log>> PROVE OnePlace'
  BY <1>6 DEF OnePlace, Held, Elements, Distinct
<1>. QED  BY <1>1, <1>2, <1>3, <1>4, <1>5, <1>6, RecordSteps

\* What was accepted early is still held, stored or lost; the channel holds none of it when
\* the consumer is about to end.
LEMMA EarlyStep ==
  ASSUME TypeOK, ConsumerState, CheckedHasHash, EarlyIsKept, [Next]_vars
  PROVE  EarlyIsKept'
<1>1. ASSUME NEW r \in Call, NEW off \in BOOLEAN, NEW failed \in BOOLEAN,
             Check(r, off, failed) \/ Mark(r, off, failed)
      PROVE  EarlyIsKept'
  <2>1. UNCHANGED <<chan, batch, cpc, log, lost, early>>
    BY <1>1, RecordingStep DEF buffer, rows, process
  <2>. QED  BY <2>1 DEF EarlyIsKept, Held, Elements
<1>2. ASSUME NEW r \in Call, Add(r) PROVE EarlyIsKept'
  <2>1. /\ UNCHANGED <<batch, cpc, log, lost>>
        /\ \/ UNCHANGED <<chan, early>>
           \/ chan' = Append(chan, r) /\ early' = early
           \/ chan' = Append(chan, r) /\ early' = early \cup {r} /\ phase = "serving"
    BY <1>2 DEF Add, rows
  <2>2. Elements(Append(chan, r)) = Elements(chan) \cup {r}
    BY AppendElements DEF TypeOK
  <2>3. phase = "serving" => cpc \notin {"lastWriting", "lastSingles", "stopped"}
    BY DEF ConsumerState
  <2>4. Elements(batch') = Elements(batch) /\ Elements(log') = Elements(log)
    BY <2>1 DEF Elements
  <2>5. Elements(chan) \subseteq Elements(chan')
    BY <2>1, <2>2 DEF Elements
  <2>6. early' \subseteq early \cup Elements(chan')
    BY <2>1, <2>2
  <2>7. phase # "serving" => early' = early
    BY <2>1
  <2>. QED  BY <2>1, <2>3, <2>4, <2>5, <2>6, <2>7 DEF EarlyIsKept, Held
<1>3. ASSUME Receive \/ Drain PROVE EarlyIsKept'
  <2>1. cpc' \notin {"lastWriting", "lastSingles", "stopped"}
    BY <1>3 DEF Receive, Drain
  <2>2. Elements(log') = Elements(log) /\ lost' = lost /\ early' = early /\ Held' = Held
    BY <1>3, ReceiveMoves DEF Elements
  <2>. QED  BY <2>1, <2>2 DEF EarlyIsKept
<1>4. ASSUME NEW failed \in BOOLEAN, WriteBatch(failed) \/ WriteSingle(failed)
      PROVE  EarlyIsKept'
  BY <1>4, WriteMoves DEF EarlyIsKept, Held
<1>5. ASSUME Stop PROVE EarlyIsKept'
  <2>1. /\ chan' = <<>> /\ batch' = <<>> /\ log' = log /\ early' = early
        /\ Held \subseteq lost' /\ lost \subseteq lost'
    BY <1>5 DEF Stop, rows
  <2>. QED  BY <2>1 DEF EarlyIsKept, Held, Elements
<1>6. ASSUME UNCHANGED <<chan, batch, log, lost, early>>, ConsumerEnds PROVE EarlyIsKept'
  <2>1. chan = <<>> => early \subseteq Elements(batch) \cup Elements(log) \cup lost
    BY SmallSequences DEF EarlyIsKept, Held
  <2>2. /\ Elements(chan') = Elements(chan) /\ Elements(batch') = Elements(batch)
        /\ Elements(log') = Elements(log)
    BY <1>6 DEF Elements
  <2>. QED  BY <1>6, <2>1, <2>2 DEF EarlyIsKept, Held, ConsumerEnds
<1>. QED  BY <1>1, <1>2, <1>3, <1>4, <1>5, <1>6, RecordSteps

\* The records that a mark can stand for: none ever leaves this set.
Kept == {r \in Call : pc[r] = "marked"} \cup Held \cup Elements(log) \cup dropped \cup lost

\* Every new mark is that of a call about to add its record.
LEMMA KeptStep ==
  ASSUME TypeOK, ConsumerState, CheckedHasHash, MarkedIsKept, [Next]_vars
  PROVE  MarkedIsKept'
<1>. DEFINE Grows == /\ Kept \subseteq Kept'
                     /\ \A c \in marks' \ marks : \E r \in Call : ContentOf[r] = c /\ r \in Kept'
<1>1. ASSUME NEW r \in Call, NEW off \in BOOLEAN, NEW failed \in BOOLEAN,
             Check(r, off, failed) \/ Mark(r, off, failed)
      PROVE  Grows
  <2>1. /\ UNCHANGED <<chan, batch, log, dropped, lost>> /\ pc[r] # "marked"
        /\ \/ marks' = marks
           \/ marks' = marks \cup {ContentOf[r]} /\ pc' = [pc EXCEPT ![r] = "marked"]
    BY <1>1, RecordingStep DEF buffer, rows
  <2>2. \A q \in Call \ {r} : pc'[q] = pc[q]
    BY <1>1, RecordingStep DEF TypeOK
  <2>3. Held' = Held /\ Elements(log') = Elements(log)
    BY <2>1 DEF Held, Elements
  <2>4. Kept \subseteq Kept'
    BY <2>1, <2>2, <2>3 DEF Kept
  <2>5. marks' = marks \/ (marks' = marks \cup {ContentOf[r]} /\ pc'[r] = "marked")
    BY <2>1 DEF TypeOK
  <2>. QED  BY <2>4, <2>5 DEF Kept
<1>2. ASSUME NEW r \in Call, Add(r) PROVE Grows
  <2>1. /\ UNCHANGED <<marks, batch, log, lost>> /\ pc' = [pc EXCEPT ![r] = "done"]
        /\ \/ chan' = Append(chan, r) /\ dropped' = dropped
           \/ chan' = chan /\ dropped' = dropped \cup {r}
    BY <1>2 DEF Add, Goto, rows
  <2>2. Elements(Append(chan, r)) = Elements(chan) \cup {r}
    BY AppendElements DEF TypeOK
  <2>3. /\ Elements(chan) \subseteq Elements(chan') /\ dropped \subseteq dropped'
        /\ r \in Elements(chan') \cup dropped'
    BY <2>1, <2>2 DEF Elements
  <2>4. \A q \in Call \ {r} : pc'[q] = pc[q]
    BY <2>1 DEF TypeOK
  <2>5. Elements(batch') = Elements(batch) /\ Elements(log') = Elements(log)
    BY <2>1 DEF Elements
  <2>6. \A q \in Kept : q = r \/ q \in Kept'
    BY <2>1, <2>3, <2>4, <2>5 DEF Kept, Held
  <2>7. r \in Kept'
    BY <2>3 DEF Kept, Held
  <2>. QED  BY <2>1, <2>6, <2>7
<1>3. ASSUME Receive \/ Drain PROVE Grows
  BY <1>3, ReceiveMoves DEF Kept, Elements
<1>4. ASSUME NEW failed \in BOOLEAN, WriteBatch(failed) \/ WriteSingle(failed) PROVE Grows
  BY <1>4, WriteMoves DEF Kept, Held
<1>5. ASSUME Stop PROVE Grows
  <2>1. /\ UNCHANGED <<marks, dropped, log>>
        /\ lost' = lost \cup Held \cup {r \in Call : pc[r] \in {"checked", "marked"}}
    BY <1>5 DEF Stop, rows
  <2>2. Elements(log') = Elements(log)
    BY <2>1 DEF Elements
  <2>. QED  BY <2>1, <2>2 DEF Kept
<1>6. ASSUME UNCHANGED <<pc, chan, batch, log, dropped, lost>>, marks' \subseteq marks PROVE Grows
  BY <1>6 DEF Kept, Held, Elements
<1>. HIDE DEF Grows
<1>7. Grows
  BY <1>1, <1>2, <1>3, <1>4, <1>5, <1>6, RecordSteps
<1>8. Held \cup Elements(log) \cup dropped \cup lost \subseteq Call
  BY DEF TypeOK, Held, Elements
<1>9. \A c \in marks : \E r \in Call : ContentOf[r] = c /\ r \in Kept
  BY DEF MarkedIsKept, Kept
<1>10. \A c \in marks' : \E r \in Call : ContentOf[r] = c /\ r \in Kept'
  BY <1>7, <1>9 DEF Grows
<1>. QED  BY <1>10 DEF MarkedIsKept, Kept

\* A call that is checked has a hash: Check lets the others pass.
LEMMA HashStep ==
  ASSUME TypeOK, CheckedHasHash, [Next]_vars
  PROVE  CheckedHasHash'
<1>1. ASSUME NEW r \in Call, NEW off \in BOOLEAN, NEW failed \in BOOLEAN,
             Check(r, off, failed) \/ Mark(r, off, failed)
      PROVE  CheckedHasHash'
  <2>1. \A q \in Call \ {r} : pc'[q] = pc[q]
    BY <1>1, RecordingStep DEF TypeOK
  <2>2. pc'[r] = "checked" => ContentOf[r] # NoHash
    BY <1>1, RecordingStep
  <2>. QED  BY <2>1, <2>2 DEF CheckedHasHash
<1>2. ASSUME NEW r \in Call, Add(r) PROVE CheckedHasHash'
  BY <1>2 DEF Add, Goto, CheckedHasHash, TypeOK
<1>3. ASSUME Receive \/ Drain PROVE CheckedHasHash'
  BY <1>3, ReceiveMoves DEF CheckedHasHash
<1>4. ASSUME NEW failed \in BOOLEAN, WriteBatch(failed) \/ WriteSingle(failed)
      PROVE  CheckedHasHash'
  BY <1>4 DEF WriteBatch, WriteSingle, recording, CheckedHasHash
<1>5. ASSUME Stop PROVE CheckedHasHash'
  BY <1>5 DEF Stop, CheckedHasHash
<1>6. ASSUME UNCHANGED pc PROVE CheckedHasHash'
  BY <1>6 DEF CheckedHasHash
<1>. QED  BY <1>1, <1>2, <1>3, <1>4, <1>5, <1>6, RecordSteps

\* The steps that touch the table or the archive.
LEMMA ArchiveSteps ==
  ASSUME [Next]_vars
  PROVE  \/ \E failed \in BOOLEAN :
              \/ WriteBatch(failed) \/ WriteSingle(failed) \/ TryArchive(failed)
              \/ FindBoundary(failed) \/ ExportPage(failed) \/ DeletePage(failed)
         \/ \E failed, closeFailed \in BOOLEAN : Compress(failed, closeFailed)
         \/ UNCHANGED <<rows, archived, cut>> /\ (UNCHANGED archive \/ apc' \in {"idle", "stopped"})
<1>. DEFINE Quiet ==
       UNCHANGED <<rows, archived, cut>> /\ (UNCHANGED archive \/ apc' \in {"idle", "stopped"})
<1>. USE DEF archive
<1>1. ASSUME NEW r \in Call, NEW off \in BOOLEAN, NEW failed \in BOOLEAN,
             Check(r, off, failed) \/ Mark(r, off, failed)
      PROVE  Quiet
  BY <1>1 DEF Check, Mark
<1>2. ASSUME NEW r \in Call, Add(r) PROVE Quiet
  BY <1>2 DEF Add
<1>3. ASSUME NEW c \in Content, MarkExpires(c) PROVE Quiet
  BY <1>3 DEF MarkExpires
<1>4. ASSUME Receive \/ FlushTimer \/ SeeStop \/ Drain \/ Drained PROVE Quiet
  BY <1>4 DEF Receive, FlushTimer, SeeStop, Drain, Drained
<1>5. ASSUME ArchiverStops \/ CloseBuffer \/ CloseArchiver \/ Restart PROVE Quiet
  BY <1>5 DEF ArchiverStops, CloseBuffer, CloseArchiver, Restart
<1>6. ASSUME Exit \/ Crash PROVE Quiet
  BY <1>6 DEF Exit, Crash, Stop
<1>7. ASSUME UNCHANGED vars PROVE Quiet
  BY <1>7 DEF vars
<1>. HIDE DEF Quiet
<1>8. Next \/ UNCHANGED vars
  OBVIOUS
<1>9. \/ \E failed \in BOOLEAN :
           \/ WriteBatch(failed) \/ WriteSingle(failed) \/ TryArchive(failed)
           \/ FindBoundary(failed) \/ ExportPage(failed) \/ DeletePage(failed)
      \/ \E failed, closeFailed \in BOOLEAN : Compress(failed, closeFailed)
      \/ Quiet
  BY <1>1, <1>2, <1>3, <1>4, <1>5, <1>6, <1>7, <1>8 DEF Next, Consume, Archive
<1>. QED  BY <1>9 DEF Quiet

\* Rows enter the table behind the range, and leave it only after they were exported: each
\* page continues where the last one ended, the last page completes the range.
LEMMA ArchiveStep ==
  ASSUME TypeOK, TypeOK', ConsumerState, RangeIsExported, DeletedIsArchived, [Next]_vars
  PROVE  RangeIsExported' /\ DeletedIsArchived'
<1>. DEFINE Good == RangeIsExported /\ DeletedIsArchived
<1>0. DOMAIN log = 1..Len(log) /\ Len(log) \in Nat /\ table \subseteq Nat /\ boundary \in Nat
  BY DEF TypeOK, Ids
<1>1. ASSUME NEW failed \in BOOLEAN, WriteBatch(failed) \/ WriteSingle(failed) PROVE Good'
  <2>1. UNCHANGED archive /\ (UNCHANGED rows \/ Insert(batch) \/ Insert(<<Head(batch)>>))
    BY <1>1 DEF WriteBatch, WriteSingle
  <2>2. CASE UNCHANGED rows
    BY <2>1, <2>2 DEF archive, rows, RangeIsExported, DeletedIsArchived, InRange, Ids
  <2>3. ASSUME NEW s \in Seq(Call), Insert(s) PROVE Good'
    <3>1. /\ Len(log') = Len(log) + Len(s) /\ Len(s) \in Nat
          /\ DOMAIN log' = 1..(Len(log) + Len(s))
          /\ table' = table \cup (Len(log) + 1)..(Len(log) + Len(s))
      BY <2>3, ConcatElements DEF Insert, TypeOK
    <3>2. apc \in {"exporting", "compressing", "deleting"} => InRange' = InRange
      BY <1>0, <2>1, <3>1 DEF archive, InRange, RangeIsExported
    <3>3. Ids' \ table' \subseteq Ids \ table
      BY <1>0, <3>1 DEF Ids
    <3>4. UNCHANGED <<apc, boundary, exported, archived, cut>>
      BY <2>1 DEF archive
    <3>5. DeletedIsArchived'
      BY <3>3, <3>4 DEF DeletedIsArchived
    <3>6. boundary <= Len(log) => boundary' <= Len(log')
      BY <1>0, <3>1, <3>4
    <3>7. RangeIsExported'
      BY <3>2, <3>4, <3>6 DEF RangeIsExported
    <3>. QED  BY <3>5, <3>7
  <2>4. batch \in Seq(Call) /\ <<Head(batch)>> \in Seq(Call)
    BY <1>1, HeadElements, SmallSequences
       DEF TypeOK, ConsumerState, WriteBatch, WriteSingle
  <2>. QED  BY <2>1, <2>2, <2>3, <2>4
<1>2. ASSUME NEW failed \in BOOLEAN, TryArchive(failed) PROVE Good'
  <2>1. UNCHANGED <<rows, boundary, exported, archived, cut>> /\ apc' \in {"idle", "bounding"}
    BY <1>2 DEF TryArchive
  <2>. QED  BY <2>1 DEF rows, RangeIsExported, DeletedIsArchived, Ids
<1>3. ASSUME NEW failed \in BOOLEAN, FindBoundary(failed) PROVE Good'
  <2>1. /\ UNCHANGED <<rows, archived, cut>> /\ exported' = {}
        /\ apc' = "idle" \/ (apc' = "exporting" /\ boundary' \in table)
    BY <1>3 DEF FindBoundary
  <2>2. apc' = "exporting" => boundary' <= Len(log)
    BY <1>0, <2>1 DEF TypeOK, Ids
  <2>. QED  BY <2>1, <2>2 DEF rows, RangeIsExported, DeletedIsArchived, Ids
<1>4. ASSUME NEW failed \in BOOLEAN, ExportPage(failed) PROVE Good'
  <2>. DEFINE rest == {i \in InRange : \A e \in exported : e < i}
  <2>1. UNCHANGED <<rows, boundary, archived, cut>> /\ apc = "exporting"
    BY <1>4 DEF ExportPage
  <2>2. InRange' = InRange /\ InRange \subseteq Nat /\ exported \subseteq Nat
    BY <1>0, <2>1 DEF InRange, rows, TypeOK, Ids
  <2>3. DeletedIsArchived' /\ boundary' <= Len(log')
    BY <2>1 DEF DeletedIsArchived, Ids, rows, RangeIsExported
  <2>4. CASE apc' = "idle"
    BY <2>3, <2>4 DEF RangeIsExported
  <2>5. ASSUME NEW page \in SUBSET rest, \A i \in page, j \in rest \ page : i < j,
               exported' = exported \cup page,
               apc' = "exporting" \/ (apc' = "compressing" /\ page = rest)
        PROVE  Good'
    <3>1. \A i \in InRange : i \in rest \/ i \in exported
      BY <2>1, <2>2 DEF RangeIsExported
    <3>2. ASSUME NEW i \in InRange, NEW e \in exported', i <= e PROVE i \in exported'
      <4>1. CASE e \in exported
        BY <2>1, <2>5, <3>2, <4>1 DEF RangeIsExported
      <4>2. CASE e \in page /\ i \in rest
        BY <2>2, <2>5, <3>2, <4>2
      <4>. QED  BY <2>5, <3>1, <3>2, <4>1, <4>2
    <3>3. apc' = "compressing" => InRange \subseteq exported'
      BY <2>5, <3>1
    <3>. QED  BY <2>2, <2>3, <2>5, <3>2, <3>3 DEF RangeIsExported
  <2>6. \/ apc' = "idle"
        \/ \E page \in SUBSET rest :
             /\ \A i \in page, j \in rest \ page : i < j
             /\ exported' = exported \cup page
             /\ apc' = "exporting" \/ (apc' = "compressing" /\ page = rest)
    BY <1>4, <2>1 DEF ExportPage
  <2>. QED  BY <2>3, <2>4, <2>5, <2>6
<1>5. ASSUME NEW failed \in BOOLEAN, DeletePage(failed) PROVE Good'
  <2>1. /\ UNCHANGED <<log, boundary, exported, archived, cut>> /\ apc = "deleting"
        /\ apc' \in {"idle", "deleting"}
        /\ table' = table \/ \E page \in SUBSET InRange : table' = table \ page
    BY <1>5 DEF DeletePage
  <2>2. InRange' \subseteq InRange /\ Ids' = Ids /\ Ids \ table' \subseteq (Ids \ table) \cup InRange
    BY <2>1 DEF InRange, Ids
  <2>3. ASSUME ~cut' PROVE Ids \ table' \subseteq archived' /\ InRange' \subseteq archived'
    BY <2>1, <2>2, <2>3 DEF RangeIsExported, DeletedIsArchived
  <2>4. boundary' <= Len(log')
    BY <2>1 DEF RangeIsExported
  <2>. QED  BY <2>1, <2>2, <2>3, <2>4 DEF RangeIsExported, DeletedIsArchived
<1>6. ASSUME NEW failed \in BOOLEAN, NEW closeFailed \in BOOLEAN, Compress(failed, closeFailed)
      PROVE  Good'
  <2>1. /\ UNCHANGED <<log, table, boundary>> /\ apc = "compressing"
        /\ apc' \in {"idle", "deleting"} /\ archived \subseteq archived'
    BY <1>6 DEF Compress, rows
  <2>2. ASSUME ~cut' PROVE ~cut /\ (apc' = "deleting" => exported \subseteq archived')
    BY <1>6, <2>2 DEF Compress
  <2>3. InRange' = InRange /\ Ids' = Ids
    BY <2>1 DEF InRange, Ids
  <2>4. DeletedIsArchived'
    BY <2>1, <2>2, <2>3 DEF DeletedIsArchived
  <2>5. apc' = "deleting" /\ ~cut' => InRange' \subseteq archived'
    BY <2>1, <2>2, <2>3 DEF RangeIsExported
  <2>6. boundary' <= Len(log')
    BY <2>1 DEF RangeIsExported
  <2>. QED  BY <2>1, <2>4, <2>5, <2>6 DEF RangeIsExported
<1>7. ASSUME UNCHANGED <<rows, archived, cut>>, UNCHANGED archive \/ apc' \in {"idle", "stopped"}
      PROVE  Good'
  <2>1. CASE UNCHANGED archive
    BY <1>7, <2>1 DEF archive, rows, RangeIsExported, DeletedIsArchived, InRange, Ids
  <2>2. CASE apc' \in {"idle", "stopped"}
    BY <1>7, <2>2 DEF rows, RangeIsExported, DeletedIsArchived, Ids
  <2>. QED  BY <1>7, <2>1, <2>2
<1>8. Good'
  <2>. HIDE DEF Good
  <2>. QED  BY <1>1, <1>2, <1>3, <1>4, <1>5, <1>6, <1>7, ArchiveSteps
<1>. QED  BY <1>8

-----------------------------------------------------------------------------
LEMMA TrainingInit ==
  ASSUME Init
  PROVE  TrainingInv
<1>. USE TrainingAssumption DEF Init
<1>1. /\ Elements(chan) = {} /\ Elements(batch) = {} /\ Elements(log) = {}
      /\ Distinct(chan) /\ Distinct(batch) /\ Distinct(log)
      /\ <<>> \in Seq(Call) /\ Len(<<>>) = 0
  BY SmallSequences
<1>2. TypeOK
  <2>1. pc \in [Call -> CallPhases] /\ marks \subseteq Content /\ faults \in 0..MaxFaults
    BY DEF CallPhases
  <2>2. chan \in Seq(Call) /\ Len(chan) <= BufferCap /\ batch \in Seq(Call) /\ log \in Seq(Call)
    BY <1>1
  <2>3. /\ cpc \in ConsumerPhases /\ apc \in ArchiverPhases /\ phase \in MainPhases
        /\ boundary \in Nat
    BY DEF ConsumerPhases, ArchiverPhases, MainPhases
  <2>4. cut \in BOOLEAN
    BY Zenon
  <2>5. /\ table \subseteq Ids /\ exported \subseteq Ids /\ archived \subseteq Ids
        /\ dropped \subseteq Call /\ lost \subseteq Call /\ early \subseteq Call
    OBVIOUS
  <2>. QED  BY <2>1, <2>2, <2>3, <2>4, <2>5 DEF TypeOK
<1>3. DeletedIsArchived /\ MarkedIsKept
  BY DEF DeletedIsArchived, MarkedIsKept, Ids
<1>4. OnePlace /\ EarlyIsKept
  BY <1>1 DEF OnePlace, EarlyIsKept, Held
<1>5. ConsumerState /\ CheckedHasHash /\ RangeIsExported
  BY DEF ConsumerState, CheckedHasHash, RangeIsExported
<1>. QED  BY <1>2, <1>3, <1>4, <1>5 DEF TrainingInv

\* The invariant of the pipeline, of which the properties below are parts or consequences.
THEOREM TrainingInvariant == Spec => []TrainingInv
<1>1. Init => TrainingInv
  BY TrainingInit
<1>2. TrainingInv /\ [Next]_vars => TrainingInv'
  <2>. SUFFICES ASSUME TrainingInv, [Next]_vars PROVE TrainingInv'
    OBVIOUS
  <2>1. /\ TypeOK /\ ConsumerState /\ CheckedHasHash /\ OnePlace /\ EarlyIsKept
        /\ RangeIsExported /\ DeletedIsArchived /\ MarkedIsKept
    BY DEF TrainingInv
  <2>2. TypeOK'
    BY <2>1, TrainingTypeStep
  <2>3. ConsumerState' /\ CheckedHasHash'
    BY <2>1, ConsumerStep, HashStep
  <2>4. OnePlace' /\ EarlyIsKept'
    BY <2>1, PlaceStep, EarlyStep
  <2>5. RangeIsExported' /\ DeletedIsArchived'
    BY <2>1, <2>2, ArchiveStep
  <2>6. MarkedIsKept'
    BY <2>1, KeptStep
  <2>. QED  BY <2>2, <2>3, <2>4, <2>5, <2>6 DEF TrainingInv
<1>. QED  BY <1>1, <1>2, PTL DEF Spec

\* Type correctness: among others, the channel never holds more than its capacity.
THEOREM TrainingTypes == Spec => []TypeOK
<1>1. TrainingInv => TypeOK
  BY DEF TrainingInv
<1>. QED  BY <1>1, TrainingInvariant, PTL

\* The buffer stores a record at most once, with any failures of the batch and the single
\* writes (TrainingDataBuffer.flush).
THEOREM TrainingRecordedOnce == Spec => []RecordedOnce
<1>1. TrainingInv => RecordedOnce
  BY DEF TrainingInv, OnePlace, RecordedOnce, Distinct, Ids
<1>. QED  BY <1>1, TrainingInvariant, PTL

\* The archiver deletes only exported rows, for every threshold and page size
\* (TrainingDataArchiver.tryArchive).
THEOREM TrainingArchive == Spec => []DeletedIsArchived
<1>1. TrainingInv => DeletedIsArchived
  BY DEF TrainingInv
<1>. QED  BY <1>1, TrainingInvariant, PTL

\* buffer.Close returns only after everything accepted before the stop was written or given
\* up (TrainingDataBuffer.consume, main).
THEOREM TrainingShutdown == Spec => []ShutdownFlushes
<1>1. TrainingInv => ShutdownFlushes
  <2>. SUFFICES ASSUME TrainingInv, phase = "closing"
                PROVE  early \subseteq Elements(log) \cup lost
    BY DEF ShutdownFlushes
  <2>1. cpc = "stopped" /\ batch = <<>>
    BY DEF TrainingInv, ConsumerState, EarlyIsKept
  <2>2. Elements(batch) = {}
    BY <2>1, SmallSequences
  <2>. QED  BY <2>1, <2>2 DEF TrainingInv, EarlyIsKept
<1>. QED  BY <1>1, TrainingInvariant, PTL

\* The mark of a content never stands for nothing: IsDuplicate and MarkAsSeen, and their
\* failures, lose no content that was not dropped or lost later.
THEOREM TrainingMarks == Spec => []MarkedIsKept
<1>1. TrainingInv => MarkedIsKept
  BY DEF TrainingInv
<1>. QED  BY <1>1, TrainingInvariant, PTL
=============================================================================
