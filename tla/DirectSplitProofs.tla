------------------------- MODULE DirectSplitProofs -------------------------
(***************************************************************************)
(* The one-pass split for every number of messages and folders, every set  *)
(* of sizes, every maximum and every reserve: it cuts parts as the plain   *)
(* rule does, loses a split to the maximum only in the cases that its      *)
(* cheap test cannot see, and reports exactly what it published.           *)
(*                                                                         *)
(* None of the three is inductive.  Durable(n) says what the published     *)
(* parts hold, the messages up to n; Open(n) says that the open part holds *)
(* those after n, which message starts it, what it was last checked        *)
(* against, and what its layout knew when it was begun.                    *)
(***************************************************************************)
EXTENDS DirectSplit, FiniteSetTheorems, TLAPS

Phases == {"loop", "rollover", "drained", "last", "done", "interrupted", "terminal", "failed"}
Causes == {"none", "flag", "layout", "disk", "exceeds"}

\* The folders a part can have.
Places == {Home(m) : m \in All} \cup 1..Folders
Part == [number : Nat, folders : SUBSET Places, messages : Seq(All), eof : Nat]

TypeOK ==
    /\ size \in [All -> Sizes] /\ seen \in [1..Folders -> 0..Messages]
    /\ index \in 0..Messages
    /\ active \in Part /\ intent \in Part /\ parts \in Seq(Part)
    /\ phase \in Phases

TooLarge(p) == finalized_file_eof(p) > maximum_pst_bytes

Increasing(s) == \A k, l \in DOMAIN s : k < l => s[k] < s[l]

\* The published parts hold the writable messages up to n, cut by the rule.
Durable(n) ==
    /\ \A m \in All : m \in Published <=> m <= n /\ Writable(m)
    /\ \A i, j \in DOMAIN parts :
         \A k \in DOMAIN parts[i].messages, l \in DOMAIN parts[j].messages :
            i < j \/ (i = j /\ k < l) => parts[i].messages[k] < parts[j].messages[l]
    /\ \A i \in DOMAIN parts :
        /\ parts[i].number = i /\ ~Exceeds(parts[i]) /\ parts[i].messages # <<>>
        /\ i > 1 => TooLarge(With(parts[i - 1], Head(parts[i].messages)))

\* A message is about to be written, in a new part if parts are published.
Waiting == index < Messages /\ Writable(index + 1)
Following(m) == parts # <<>> => TooLarge(With(parts[Len(parts)], m))

\* The open part holds what comes behind n.
Content(n) ==
    /\ n <= index
    /\ \A m \in All : (\E k \in DOMAIN active.messages : active.messages[k] = m)
                        <=> n < m /\ m <= index /\ Writable(m)
    /\ Increasing(active.messages)
    /\ active = NoPart \/ active.number = Len(parts) + 1

\* Which message the open part begins with, and the layout it was given.
Beginning ==
    /\ active.messages = <<>> =>
        /\ active # NoPart \/ parts # <<>> => phase = "loop" /\ Waiting
        /\ Following(index + 1)
        /\ active # NoPart => Known(index + 1) \subseteq active.folders
    /\ active.messages # <<>> =>
        /\ Following(Head(active.messages))
        /\ Known(Head(active.messages)) \cup Homes(active.messages) \subseteq active.folders

\* What the last append left: too large only where nobody looked.
Checked ==
    active.messages # <<>> /\ Len(active.messages) # 1 /\ TooLarge(active) =>
        \/ single_part_without_incremental_projection
        \/ ~direct_exact_projection_required(private_file_eof(active))

\* A folder without messages that joined after the part was begun: at the end,
\* or with the message that closes the part.
LateFolder == \E f \in active.folders : LateAndEmpty(f)
LateHome == LateAndEmpty(Home(index + 1))

Open(n) ==
    /\ Content(n) /\ Beginning
    /\ intent = NoPart \/ (Closing /\ intent = active /\ ~Exceeds(active))
    /\ Closing => active.messages # <<>>
    /\ ~Closing => Checked
    /\ phase = "last" => Checked \/ (active.number = 1 /\ LateFolder)
    /\ phase = "rollover" => /\ Checked \/ (active.number = 1 /\ LateHome)
                             /\ Waiting /\ TooLarge(With(active, index + 1))
    /\ phase \in {"drained", "last"} => index = Messages
    /\ phase = "loop" => intent = NoPart

At(n) ==
    /\ Durable(n)
    /\ Running => Open(n)
    /\ phase # "failed" => reports = parts
    /\ phase \in {"done", "interrupted", "terminal"} => intent = NoPart
    /\ phase = "done" => n = Messages

Inv == TypeOK /\ \E n \in 0..Messages : At(n)

-----------------------------------------------------------------------------
(* What the steps leave alone.                                             *)

LEMMA Frozen ==
  ASSUME UNCHANGED input
  PROVE  /\ \A n : Known(n)' = Known(n)
         /\ \A p : Homes(p)' = Homes(p)
         /\ \A m : Home(m)' = Home(m)
         /\ \A p : TooLarge(p)' <=> TooLarge(p)
         /\ \A p : Exceeds(p)' <=> Exceeds(p)
         /\ \A p, m : With(p, m)' = With(p, m)
         /\ \A m : Writable(m)' <=> Writable(m)
         /\ single_part_without_incremental_projection'
              <=> single_part_without_incremental_projection
         /\ Part' = Part
<1>1. /\ size' = size /\ bad' = bad /\ terminal' = terminal /\ seen' = seen /\ odd' = odd
  BY DEF input
<1>2. \A n : Known(n)' = Known(n)
  BY <1>1 DEF Known
<1>3. \A m : Home(m)' = Home(m)
  BY <1>1 DEF Home, Known
<1>4. \A p : Homes(p)' = Homes(p)
  BY <1>3 DEF Homes
<1>5. \A p : finalized_file_eof(p)' = finalized_file_eof(p)
  BY <1>4 DEF finalized_file_eof, KeptFolders
<1>6. \A p : (TooLarge(p)' <=> TooLarge(p)) /\ (Exceeds(p)' <=> Exceeds(p))
  BY <1>5 DEF TooLarge, Exceeds
<1>7. \A p, m : With(p, m)' = With(p, m)
  BY <1>1, <1>3 DEF With
<1>8. \A m : Writable(m)' <=> Writable(m)
  BY <1>1, <1>3 DEF Writable, Unwritable
<1>9. single_part_without_incremental_projection'
        <=> single_part_without_incremental_projection
  BY <1>1 DEF single_part_without_incremental_projection, direct_required_capacity, source_bytes
<1>10. Part' = Part
  BY <1>3 DEF Part, Places
<1> QED
  BY <1>2, <1>3, <1>4, <1>6, <1>7, <1>8, <1>9, <1>10

LEMMA FrozenParts ==
  ASSUME UNCHANGED input, UNCHANGED parts
  PROVE  /\ \A n : Durable(n)' <=> Durable(n)
         /\ \A m : Following(m)' <=> Following(m)
<1>1. Published' = Published
  BY DEF Published
<1> QED
  BY <1>1, Frozen DEF Durable, Following

-----------------------------------------------------------------------------
(* Parts.                                                                  *)

LEMMA NoPartType == NoPart \in Part /\ NoPart.messages = <<>> /\ NoPart.number = 0
  BY DEF NoPart, Part

LEMMA WithType ==
  ASSUME size \in [All -> Sizes], NEW p \in Part, NEW m \in All
  PROVE  /\ With(p, m) \in Part /\ With(p, m).number = p.number
         /\ With(p, m).folders = p.folders \cup {Home(m)}
         /\ With(p, m).messages = Append(p.messages, m)
<1>1. size[m] \in Nat /\ Home(m) \in Places
  BY DirectAssumption DEF Places
<1>2. p.messages \in Seq(All) /\ Append(p.messages, m) \in Seq(All) /\ p.eof + size[m] \in Nat
      /\ p.folders \cup {Home(m)} \in SUBSET Places /\ p.number \in Nat
  BY <1>1 DEF Part
<1> QED
  BY <1>2 DEF With, Part

\* The projected size is a number: a part has finitely many folders.
LEMMA SizeType ==
  ASSUME NEW p \in Part
  PROVE  finalized_file_eof(p) \in Nat /\ private_file_eof(p) \in Nat
<1>1. IsFiniteSet(Places)
  <2>1. Messages \in Nat /\ Folders \in Nat /\ 1 \in Int /\ IsFiniteSet(1..Folders)
        /\ IsFiniteSet(All)
    BY DirectAssumption, FS_Interval DEF All
  <2>2. IsFiniteSet({Home(m) : m \in All})
    <3> DEFINE f == [m \in All |-> Home(m)]
               H == {Home(m) : m \in All}
    <3>1. f \in Surjection(All, H)
      BY DEF Surjection
    <3> HIDE DEF f, H
    <3>2. IsFiniteSet(H)
      BY <2>1, <3>1, FS_Surjection
    <3> QED
      BY <3>2 DEF H
  <2> QED
    BY <2>1, <2>2, FS_Union DEF Places
<1>2. KeptFolders(p) \subseteq Places
  BY DEF KeptFolders, Homes, Part, Places
<1>3. Cardinality(KeptFolders(p)) \in Nat
  BY <1>1, <1>2, FS_Subset, FS_CardinalityType
<1>4. p.eof \in Nat /\ Overhead \in Nat /\ FolderBytes \in Nat
  BY DirectAssumption DEF Part
<1>5. \A a, b \in Nat : a * b \in Nat
  OBVIOUS
<1> QED
  BY <1>3, <1>4, <1>5 DEF finalized_file_eof, private_file_eof

-----------------------------------------------------------------------------
(* One lemma for every step, or for steps that do the same.                *)

LEMMA InitInv == Init => Inv
<1> SUFFICES ASSUME Init PROVE Inv
  OBVIOUS
<1> USE DEF Init
<1>1. Messages \in Nat /\ 0 \in 0..Messages
  BY DirectAssumption
<1>2. TypeOK
  BY <1>1, NoPartType DEF TypeOK, Phases
<1>3. Durable(0)
  BY <1>1 DEF Durable, Published, All
<1>4. Open(0)
  BY <1>1, NoPartType
     DEF Open, Content, Beginning, Increasing, Following, Closing, Checked, All
<1>5. At(0)
  BY <1>3, <1>4 DEF At
<1> QED
  BY <1>1, <1>2, <1>5 DEF Inv

\* The open part is lost, what is published stays.
LEMMA Dropped ==
  ASSUME Inv, Running, UNCHANGED <<input, index, output>>, active' = NoPart,
         phase' \in {"interrupted", "terminal", "failed"}, intent = NoPart \/ phase' = "failed"
  PROVE  Inv'
<1>1. PICK n \in 0..Messages : At(n)
  BY DEF Inv
<1>2. UNCHANGED <<size, seen, index, intent, parts, reports, input>>
  BY DEF input, output
<1>3. TypeOK'
  BY <1>2, Frozen, NoPartType DEF Inv, TypeOK, Phases
<1>4. Durable(n)'
  BY <1>1, <1>2, FrozenParts DEF At
<1>5. At(n)'
  BY <1>1, <1>2, <1>4 DEF At, Running
<1> QED
  BY <1>3, <1>5 DEF Inv

LEMMA DroppingInv ==
  ASSUME Inv,
         \/ LoopInterrupted \/ LoadInterrupted \/ direct_part_space_preflight
         \/ PartExceedsMaximum \/ FinalizeInterrupted \/ WorkerFails
  PROVE  Inv'
<1> USE DEF LoopInterrupted, LoadInterrupted, direct_part_space_preflight, PartExceedsMaximum,
            FinalizeInterrupted, WorkerFails, Outcome, Fail, AtMessage, AtWritable, Closing
<1>1. Running
  BY DEF Running
<1>2. UNCHANGED <<input, index, output>> /\ active' = NoPart
  OBVIOUS
<1>3. phase' \in {"interrupted", "terminal", "failed"}
  OBVIOUS
<1>4. phase = "loop" \/ intent = NoPart
  OBVIOUS
<1>5. intent = NoPart
  BY <1>1, <1>4 DEF Inv, At, Open
<1> HIDE DEF LoopInterrupted, LoadInterrupted, direct_part_space_preflight, PartExceedsMaximum,
             FinalizeInterrupted, WorkerFails, Outcome, Fail, AtMessage, AtWritable, Closing
<1> QED
  BY <1>1, <1>2, <1>3, <1>5, Dropped

\* The messages of the open part follow the published ones.
LEMMA PublishDurable ==
  ASSUME TypeOK, NEW n \in 0..Messages, Durable(n), Open(n), ~Exceeds(active),
         active.messages # <<>>, NEW v, v = index,
         parts' = Append(parts, active), UNCHANGED input
  PROVE  Durable(v)'
<1> DEFINE s == active.messages
<1>1. /\ Messages \in Nat /\ All = 1..Messages /\ n \in Nat /\ v \in Nat
      /\ parts \in Seq(Part) /\ active \in Part /\ s \in Seq(All)
      /\ active # NoPart
  <2>1. /\ Messages \in Nat /\ All = 1..Messages /\ n \in Nat /\ v \in Nat
        /\ parts \in Seq(Part) /\ active \in Part
    BY DirectAssumption DEF TypeOK, All
  <2>2. s \in Seq(All)
    BY <2>1 DEF Part
  <2> QED
    BY <2>1, <2>2, NoPartType
<1>2. /\ Len(parts) \in Nat /\ Len(parts') = Len(parts) + 1
      /\ DOMAIN parts = 1..Len(parts) /\ DOMAIN parts' = 1..(Len(parts) + 1)
      /\ parts'[Len(parts) + 1] = active /\ \A i \in 1..Len(parts) : parts'[i] = parts[i]
      /\ \A i \in 1..Len(parts) : parts[i].messages \in Seq(All)
  <2>1. \A i \in 1..Len(parts) : parts[i] \in Part
    BY <1>1
  <2>2. \A p \in Part : p.messages \in Seq(All)
    BY DEF Part
  <2> HIDE DEF Part
  <2> QED
    BY <1>1, <2>1, <2>2
<1>3. \A m \in All : (\E k \in DOMAIN s : s[k] = m) <=> n < m /\ m <= v /\ Writable(m)
  BY DEF Open, Content
<1>4. n <= v /\ Increasing(s) /\ active.number = Len(parts) + 1 /\ Following(Head(s))
  BY <1>1 DEF Open, Content, Beginning
<1> HIDE DEF s
<1>5. ASSUME NEW m \in All PROVE m \in Published' <=> m <= v /\ Writable(m)
  <2>1. m \in Published' <=> \E i \in DOMAIN parts' : m \in Range(parts'[i].messages)
    BY DEF Published
  <2>2. m \in Published <=> \E i \in DOMAIN parts : m \in Range(parts[i].messages)
    BY DEF Published
  <2>3. m \in Published' <=> m \in Published \/ m \in Range(s)
    BY <1>2, <2>1, <2>2 DEF s
  <2>4. m \in Range(s) <=> n < m /\ m <= v /\ Writable(m)
    BY <1>3 DEF Range
  <2>5. m \in Published <=> m <= n /\ Writable(m)
    BY DEF Durable
  <2> QED
    BY <1>1, <1>4, <2>3, <2>4, <2>5
<1>6. ASSUME NEW i \in DOMAIN parts', NEW j \in DOMAIN parts',
             NEW k \in DOMAIN parts'[i].messages, NEW l \in DOMAIN parts'[j].messages,
             i < j \/ (i = j /\ k < l)
      PROVE  parts'[i].messages[k] < parts'[j].messages[l]
  <2>1. CASE j \in DOMAIN parts
    <3>1. i \in DOMAIN parts /\ parts'[i] = parts[i] /\ parts'[j] = parts[j]
      BY <1>2, <1>6, <2>1
    <3> QED
      BY <1>6, <2>1, <3>1 DEF Durable
  <2>2. CASE j = Len(parts) + 1 /\ i \in DOMAIN parts
    <3>1. parts'[i] = parts[i] /\ parts'[j].messages = s
      BY <1>2, <2>2 DEF s
    <3>2. parts[i].messages[k] \in Published /\ parts[i].messages[k] \in All
      BY <1>2, <2>2, <3>1 DEF Published, Range
    <3>3. parts[i].messages[k] <= n
      BY <3>2 DEF Durable
    <3>4. s[l] \in All /\ n < s[l]
      BY <1>1, <1>3, <3>1
    <3> QED
      BY <1>1, <3>1, <3>2, <3>3, <3>4
  <2>3. CASE j = Len(parts) + 1 /\ i = j
    <3>1. parts'[i].messages = s /\ parts'[j].messages = s /\ k < l
      BY <1>2, <1>6, <2>3 DEF s
    <3> QED
      BY <1>4, <3>1 DEF Increasing
  <2> QED
    BY <1>2, <1>6, <2>1, <2>2, <2>3
<1>7. ASSUME NEW i \in DOMAIN parts'
      PROVE  /\ parts'[i].number = i /\ ~Exceeds(parts'[i]) /\ parts'[i].messages # <<>>
             /\ i > 1 => TooLarge(With(parts'[i - 1], Head(parts'[i].messages)))
  <2>1. CASE i \in DOMAIN parts
    <3>1. parts'[i] = parts[i] /\ (i > 1 => parts'[i - 1] = parts[i - 1])
      BY <1>2, <2>1
    <3> QED
      BY <2>1, <3>1 DEF Durable
  <2>2. CASE i = Len(parts) + 1
    <3>1. parts'[i] = active /\ (i > 1 => parts # <<>> /\ parts'[i - 1] = parts[Len(parts)])
      <4>1. i > 1 => i - 1 \in 1..Len(parts) /\ i - 1 = Len(parts) /\ Len(parts) # 0
        BY <1>2, <2>2
      <4> QED
        BY <1>2, <2>2, <4>1
    <3> QED
      BY <1>4, <2>2, <3>1 DEF Following, s
  <2> QED
    BY <1>2, <2>1, <2>2
<1> QED
  BY <1>5, <1>6, <1>7, Frozen DEF Durable

LEMMA CommitInv == ASSUME Inv, commit_published_part \/ PublishInterrupted PROVE Inv'
<1> USE DEF commit_published_part, PublishInterrupted, Closing, Outcome
<1>1. PICK n \in 0..Messages : At(n)
  BY DEF Inv
<1>2. /\ TypeOK /\ Durable(n) /\ Open(n) /\ reports = parts /\ intent # NoPart
      /\ intent = active /\ ~Exceeds(active) /\ active.messages # <<>>
  BY <1>1 DEF Inv, At, Running, Open
<1>3. /\ parts' = Append(parts, active) /\ reports' = parts' /\ intent' = NoPart
      /\ active' = NoPart /\ index' = index /\ UNCHANGED input
      /\ \/ phase = "rollover" /\ phase' = "loop"
         \/ phase = "last" /\ phase' = "done"
         \/ phase' = "interrupted"
  BY <1>2
<1>4. phase \in {"rollover", "last"}
  OBVIOUS
<1> HIDE DEF commit_published_part, PublishInterrupted, Closing, Outcome
<1>5. PICK v : v = index
  OBVIOUS
<1>6. Messages \in Nat /\ v \in 0..Messages /\ v \in Nat /\ parts \in Seq(Part) /\ active \in Part
  BY <1>2, <1>5, DirectAssumption DEF TypeOK
<1>7. /\ parts' \in Seq(Part) /\ Len(parts') = Len(parts) + 1 /\ parts'[Len(parts')] = active
      /\ parts' # <<>>
  <2> HIDE DEF Part
  <2> QED
    BY <1>3, <1>6
<1>8. TypeOK'
  <2>1. size' = size /\ seen' = seen
    BY <1>3 DEF input
  <2>2. phase' \in Phases
    BY <1>3 DEF Phases
  <2>3. active' \in Part' /\ intent' \in Part' /\ parts' \in Seq(Part')
    BY <1>3, <1>7, Frozen, NoPartType
  <2> QED
    BY <1>2, <1>3, <2>1, <2>2, <2>3 DEF TypeOK
<1>9. Durable(v)'
  BY <1>2, <1>3, <1>5, PublishDurable
<1>10. ASSUME phase' = "loop" PROVE Open(v)'
  <2>1. Waiting /\ TooLarge(With(active, index + 1))
    BY <1>2, <1>3, <1>4, <1>10 DEF Open
  <2>2. Waiting'
    BY <1>3, <2>1, Frozen DEF Waiting
  <2>3. Following(index + 1)'
    BY <1>3, <1>7, <2>1, Frozen DEF Following
  <2>4. Content(v)'
    BY <1>3, <1>5, <1>6, NoPartType, Frozen DEF Content, Increasing, All
  <2>5. Beginning'
    BY <1>3, <1>10, <2>2, <2>3, NoPartType DEF Beginning
  <2>6. Checked'
    BY <1>3, NoPartType DEF Checked
  <2> QED
    BY <1>3, <1>10, <2>4, <2>5, <2>6 DEF Open, Closing
<1>11. phase' = "done" => v = Messages
  BY <1>2, <1>3, <1>5 DEF Open
<1>12. At(v)'
  BY <1>3, <1>9, <1>10, <1>11 DEF At, Running
<1> QED
  BY <1>6, <1>8, <1>12 DEF Inv

\* A message that is not written.
LEMMA PassOverInv == ASSUME Inv, candidate_is_terminal \/ RejectCandidate PROVE Inv'
<1> USE DEF candidate_is_terminal, RejectCandidate, AtMessage, Candidate
<1>1. PICK n \in 0..Messages : At(n)
  BY DEF Inv
<1>2. /\ TypeOK /\ Durable(n) /\ Open(n) /\ reports = parts /\ phase = "loop" /\ index < Messages
      /\ ~Writable(index + 1) /\ index' = index + 1
      /\ UNCHANGED <<input, size, seen, active, intent, parts, reports, phase>>
  BY <1>1 DEF Inv, At, Running, Writable, input, output
<1> HIDE DEF candidate_is_terminal, RejectCandidate, AtMessage, Candidate
<1>3. Messages \in Nat /\ index \in Nat /\ index + 1 \in 0..Messages /\ n \in Nat
      /\ All = 1..Messages
  BY <1>2, DirectAssumption DEF TypeOK, All
<1>4. TypeOK'
  BY <1>2, <1>3, Frozen DEF TypeOK
<1>5. Durable(n)'
  BY <1>2, FrozenParts
<1>6. Content(n)'
  <2>1. ASSUME NEW m \in All
        PROVE  n < m /\ m <= index /\ Writable(m) <=> n < m /\ m <= index + 1 /\ Writable(m)
    BY <1>2, <1>3
  <2>2. Content(n) /\ n <= index + 1
    BY <1>2, <1>3 DEF Open, Content
  <2> QED
    BY <1>2, <2>1, <2>2, Frozen DEF Content
<1>7. Beginning'
  <2>1. active.messages = <<>> => active = NoPart /\ parts = <<>>
    BY <1>2 DEF Open, Beginning, Waiting
  <2>2. Beginning
    BY <1>2 DEF Open
  <2>3. \A m : Following(m)' <=> Following(m)
    BY <1>2, FrozenParts
  <2>4. parts = <<>> => Following(index + 1)'
    BY <1>2 DEF Following
  <2> QED
    BY <1>2, <2>1, <2>2, <2>3, <2>4, Frozen DEF Beginning
<1>8. Checked'
  BY <1>2, Frozen DEF Open, Closing, Checked, private_file_eof, direct_exact_projection_required,
                      finalization_boundary, Larger
<1>9. Open(n)'
  BY <1>2, <1>6, <1>7, <1>8 DEF Open, Closing
<1>10. At(n)'
  BY <1>2, <1>5, <1>9 DEF At
<1> QED
  BY <1>4, <1>10 DEF Inv

LEMMA BeginInv == ASSUME Inv, begin_direct_part PROVE Inv'
<1> USE DEF begin_direct_part, AtWritable, AtMessage, Candidate
<1>1. PICK n \in 0..Messages : At(n)
  BY DEF Inv
<1>2. /\ TypeOK /\ Durable(n) /\ Open(n) /\ reports = parts /\ phase = "loop" /\ Waiting
      /\ active = NoPart /\ intent = NoPart /\ Running
      /\ UNCHANGED <<input, size, seen, index, intent, parts, reports, output>>
  BY <1>1 DEF Inv, At, Running, Waiting, input, output, Open
<1>3. CASE Known(Candidate) \cap odd # {}
  <2>1. phase' = "failed" /\ active' = NoPart
    BY <1>3 DEF Fail
  <2> HIDE DEF begin_direct_part, AtWritable, AtMessage, Candidate
  <2> QED
    BY <1>2, <2>1, Dropped
<1>4. CASE Known(Candidate) \cap odd = {}
  <2>1. /\ phase' = phase
        /\ active' = [number |-> Len(parts) + 1, folders |-> Known(index + 1),
                      messages |-> <<>>, eof |-> 0]
    BY <1>2, <1>4
  <2> HIDE DEF begin_direct_part, AtWritable, AtMessage, Candidate
  <2>2. active'.messages = <<>> /\ active'.folders = Known(index + 1)
        /\ active'.number = Len(parts) + 1
    BY <2>1
  <2>3. active' \in Part
    <3>1. Known(index + 1) \subseteq Places /\ Len(parts) + 1 \in Nat /\ <<>> \in Seq(All)
      BY <1>2 DEF Known, Places, TypeOK
    <3> QED
      BY <2>1, <3>1 DEF Part
  <2>4. TypeOK'
    BY <1>2, <2>1, <2>3, Frozen DEF TypeOK
  <2>5. Durable(n)'
    BY <1>2, FrozenParts
  <2>6. Content(n)'
    BY <1>2, <2>2, NoPartType, Frozen DEF Open, Content, Increasing
  <2>7. Waiting' /\ Following(index + 1)'
    <3>1. Following(index + 1)
      BY <1>2, NoPartType DEF Open, Beginning
    <3> QED
      BY <1>2, <3>1, Frozen, FrozenParts DEF Waiting
  <2>8. Beginning'
    BY <1>2, <2>1, <2>2, <2>7, Frozen DEF Beginning
  <2>9. Checked'
    BY <2>2 DEF Checked
  <2>10. Open(n)'
    BY <1>2, <2>1, <2>6, <2>8, <2>9 DEF Open, Closing
  <2>11. At(n)'
    BY <1>2, <2>1, <2>5, <2>10 DEF At
  <2> QED
    BY <2>4, <2>11 DEF Inv
<1> QED
  BY <1>3, <1>4

LEMMA AppendInv == ASSUME Inv, append_message_direct PROVE Inv'
<1> USE DEF append_message_direct, AtWritable, AtMessage, Candidate
<1>0. PICK m : m = index + 1
  OBVIOUS
<1>1. PICK n \in 0..Messages : At(n)
  BY DEF Inv
<1>2. /\ TypeOK /\ Durable(n) /\ Open(n) /\ reports = parts /\ phase = "loop" /\ index < Messages
      /\ Writable(m) /\ active # NoPart /\ intent = NoPart /\ ~RollsOver(m)
      /\ active' = With(active, m) /\ index' = m
      /\ UNCHANGED <<input, size, seen, intent, parts, reports, phase>>
  BY <1>0, <1>1 DEF Inv, At, Running, input, output, Open
<1> HIDE DEF append_message_direct, AtWritable, AtMessage, Candidate
<1>3. /\ Messages \in Nat /\ All = 1..Messages /\ n \in Nat /\ index \in Nat
      /\ m \in All /\ m \in 0..Messages /\ m \in Nat /\ active \in Part
  BY <1>0, <1>2, DirectAssumption DEF TypeOK, All
<1>4. PICK s, t : s = active.messages /\ t = Append(s, m)
  OBVIOUS
<1>5. /\ active' \in Part /\ active'.number = active.number
      /\ active'.folders = active.folders \cup {Home(m)} /\ active'.messages = t
  BY <1>2, <1>3, <1>4, WithType DEF TypeOK
<1>6. /\ s \in Seq(All) /\ Len(s) \in Nat /\ Len(t) = Len(s) + 1 /\ t # <<>>
      /\ DOMAIN s = 1..Len(s) /\ DOMAIN t = 1..(Len(s) + 1) /\ t[Len(s) + 1] = m
      /\ \A k \in 1..Len(s) : t[k] = s[k] /\ s[k] \in All
  <2>1. s \in Seq(All)
    BY <1>3, <1>4 DEF Part
  <2> QED
    BY <1>3, <1>4, <2>1
<1>7. TypeOK'
  BY <1>2, <1>3, <1>5, Frozen DEF TypeOK
<1>8. Durable(n)'
  BY <1>2, FrozenParts
<1>9. Content(n)'
  <2>1. \A k \in All : (\E i \in DOMAIN s : s[i] = k) <=> n < k /\ k <= index /\ Writable(k)
    BY <1>2, <1>4 DEF Open, Content
  <2>2. ASSUME NEW k \in All
        PROVE  (\E i \in DOMAIN t : t[i] = k) <=> n < k /\ k <= m /\ Writable(k)
    <3>1. (\E i \in DOMAIN t : t[i] = k) <=> (\E i \in DOMAIN s : s[i] = k) \/ k = m
      BY <1>6
    <3>2. n <= index
      BY <1>2 DEF Open, Content
    <3> QED
      BY <1>0, <1>2, <1>3, <2>1, <3>1, <3>2
  <2>3. ASSUME NEW k \in DOMAIN t, NEW l \in DOMAIN t, k < l PROVE t[k] < t[l]
    <3>1. CASE l = Len(s) + 1
      <4>1. k \in DOMAIN s /\ t[k] = s[k] /\ s[k] \in All /\ t[l] = m
        BY <1>6, <2>3, <3>1
      <4>2. s[k] <= index
        BY <2>1, <4>1
      <4> QED
        BY <1>0, <1>3, <4>1, <4>2
    <3>2. CASE l # Len(s) + 1
      <4>1. k \in DOMAIN s /\ l \in DOMAIN s /\ t[k] = s[k] /\ t[l] = s[l]
        BY <1>6, <2>3, <3>2
      <4>2. Increasing(s)
        BY <1>2, <1>4 DEF Open, Content
      <4> QED
        BY <2>3, <4>1, <4>2 DEF Increasing
    <3> QED
      BY <3>1, <3>2
  <2>4. n <= m /\ active.number = Len(parts) + 1
    BY <1>0, <1>2, <1>3 DEF Open, Content
  <2> QED
    BY <1>2, <1>5, <2>2, <2>3, <2>4, Frozen DEF Content, Increasing
<1>10. Beginning'
  <2>1. Beginning /\ (\A k : Following(k)' <=> Following(k))
    BY <1>2, FrozenParts DEF Open
  <2>2. Homes(t) = Homes(s) \cup {Home(m)}
    BY <1>6 DEF Homes
  <2>3. CASE s = <<>>
    <3>1. Head(t) = m /\ Homes(s) = {}
      BY <1>4, <2>3 DEF Homes
    <3>2. Following(Head(t)) /\ Known(Head(t)) \cup Homes(t) \subseteq active.folders \cup {Home(m)}
      BY <1>0, <1>2, <1>4, <2>1, <2>2, <2>3, <3>1 DEF Beginning
    <3> QED
      BY <1>2, <1>5, <1>6, <2>1, <3>2, Frozen DEF Beginning
  <2>4. CASE s # <<>>
    <3>1. Head(t) = Head(s)
      BY <1>4, <1>6, <2>4
    <3>2. Following(Head(t)) /\ Known(Head(t)) \cup Homes(t) \subseteq active.folders \cup {Home(m)}
      BY <1>4, <2>1, <2>2, <2>4, <3>1 DEF Beginning
    <3> QED
      BY <1>2, <1>5, <1>6, <2>1, <3>2, Frozen DEF Beginning
  <2> QED
    BY <2>3, <2>4
<1>11. Checked'
  <2>1. \/ single_part_without_incremental_projection
        \/ s = <<>>
        \/ ~direct_exact_projection_required(private_file_eof(active'))
        \/ ~TooLarge(active')
    BY <1>2, <1>4 DEF RollsOver, TooLarge
  <2>2. s = <<>> => Len(t) = 1
    BY <1>6
  <2> QED
    BY <1>2, <1>5, <2>1, <2>2, Frozen DEF Checked, private_file_eof,
       direct_exact_projection_required, finalization_boundary, Larger
<1>12. Open(n)'
  BY <1>2, <1>9, <1>10, <1>11 DEF Open, Closing
<1>13. At(n)'
  BY <1>2, <1>8, <1>12 DEF At
<1> QED
  BY <1>7, <1>13 DEF Inv

\* Nothing the invariant reads, except where the split is.
LEMMA Stands ==
  ASSUME UNCHANGED <<input, seen, index, active, parts>>
  PROVE  /\ \A n : Content(n)' <=> Content(n)
         /\ Checked' <=> Checked
         /\ Waiting' <=> Waiting
         /\ \A m : Following(m)' <=> Following(m)
         /\ LateFolder' <=> LateFolder
         /\ LateHome' <=> LateHome
<1>1. Checked' <=> Checked
  BY Frozen DEF Checked, private_file_eof, direct_exact_projection_required,
                finalization_boundary, Larger
<1>2. (LateFolder' <=> LateFolder) /\ (LateHome' <=> LateHome)
  <2>1. /\ Homes(active.messages)' = Homes(active.messages)
        /\ Known(Head(active.messages))' = Known(Head(active.messages))
        /\ Home(index + 1)' = Home(index + 1)
    BY Frozen
  <2> QED
    BY <2>1 DEF LateFolder, LateHome, LateAndEmpty
<1> QED
  BY <1>1, <1>2, Frozen, FrozenParts DEF Content, Waiting, Increasing

\* The part that is closed keeps the folder of the message that closes it; only
\* part 1 becomes larger by that, and only if the folder is new to it.
LEMMA ClosePartInv == ASSUME Inv, ClosePart PROVE Inv'
<1> USE DEF ClosePart, AtWritable, AtMessage, Candidate, RollsOver
<1>1. PICK n \in 0..Messages : At(n)
  BY DEF Inv
<1>2. /\ TypeOK /\ Durable(n) /\ Open(n) /\ reports = parts /\ phase = "loop" /\ intent = NoPart
      /\ Waiting /\ active.messages # <<>> /\ TooLarge(With(active, index + 1))
      /\ phase' = "rollover" /\ active # NoPart /\ Checked
      /\ active' = [active EXCEPT !.folders = @ \cup {Home(index + 1)}]
      /\ UNCHANGED <<input, size, seen, index, intent, parts, reports>>
  BY <1>1 DEF Inv, At, Running, input, output, Open, Closing, Waiting, TooLarge
<1> HIDE DEF ClosePart, AtWritable, AtMessage, Candidate, RollsOver
<1>3. PICK h : h = Home(index + 1)
  OBVIOUS
<1>4. active \in Part /\ h \in Places
  <2>1. index + 1 \in All
    BY <1>2, DirectAssumption DEF TypeOK, Waiting, All
  <2> QED
    BY <1>2, <1>3, <2>1 DEF TypeOK, Places
<1>5. /\ active' \in Part /\ active'.number = active.number
      /\ active'.messages = active.messages /\ active'.eof = active.eof
      /\ active'.folders = active.folders \cup {h}
  BY <1>2, <1>3, <1>4 DEF Part
<1>6. TypeOK'
  BY <1>2, <1>5, Frozen DEF TypeOK, Phases
<1>7. Durable(n)'
  BY <1>2, FrozenParts
<1>8. Content(n)' /\ Waiting'
  <2>1. active.number = Len(parts) + 1
    BY <1>2 DEF Open, Content
  <2> QED
    BY <1>2, <1>5, <2>1, Frozen DEF Open, Content, Increasing, Waiting
<1>9. /\ Following(Head(active.messages))
      /\ Known(Head(active.messages)) \cup Homes(active.messages) \subseteq active.folders
  BY <1>2 DEF Open, Beginning
<1>10. Beginning'
  BY <1>2, <1>5, <1>9, Frozen, FrozenParts DEF Beginning
<1>11. With(active', index + 1) = With(active, index + 1)
  BY <1>3, <1>5 DEF With
<1>12. TooLarge(With(active, index + 1))'
  BY <1>2, <1>11, Frozen
<1>13. Checked' \/ (active'.number = 1 /\ LateHome')
  <2>1. ASSUME KeptFolders(active') = KeptFolders(active) PROVE Checked'
    <3>1. TooLarge(active') <=> TooLarge(active)
      BY <1>5, <2>1 DEF TooLarge, finalized_file_eof
    <3> QED
      BY <1>2, <1>5, <3>1, Frozen DEF Checked, private_file_eof,
         direct_exact_projection_required, finalization_boundary, Larger
  <2>2. CASE active.number # 1
    BY <1>5, <2>1, <2>2 DEF KeptFolders
  <2>3. CASE active.number = 1 /\ h \in active.folders
    BY <1>5, <2>1, <2>3 DEF KeptFolders
  <2>4. CASE active.number = 1 /\ h \notin active.folders
    <3>1. h \notin Known(Head(active.messages)) \cup Homes(active.messages)
      BY <1>9, <2>4
    <3> QED
      BY <1>2, <1>3, <1>5, <2>4, <3>1, Frozen DEF LateHome, LateAndEmpty
  <2> QED
    BY <2>2, <2>3, <2>4
<1>14. Open(n)'
  BY <1>2, <1>5, <1>8, <1>10, <1>12, <1>13 DEF Open, Closing
<1>15. At(n)'
  BY <1>2, <1>7, <1>14 DEF At
<1> QED
  BY <1>6, <1>15 DEF Inv

LEMMA IntentInv == ASSUME Inv, record_publication_intent PROVE Inv'
<1> USE DEF record_publication_intent, Closing
<1>1. PICK n \in 0..Messages : At(n)
  BY DEF Inv
<1>2. /\ TypeOK /\ Durable(n) /\ Open(n) /\ reports = parts /\ Running
      /\ phase \in {"rollover", "last"} /\ intent' = active /\ ~Exceeds(active)
      /\ UNCHANGED <<input, size, seen, index, active, parts, reports, phase>>
  BY <1>1 DEF Inv, At, Running, input
<1> HIDE DEF record_publication_intent, Closing
<1>3. TypeOK'
  BY <1>2, Frozen DEF TypeOK
<1>4. Durable(n)'
  BY <1>2, FrozenParts
<1>5. /\ Content(n)' /\ (Checked' <=> Checked) /\ (Waiting' <=> Waiting)
      /\ (LateFolder' <=> LateFolder) /\ (LateHome' <=> LateHome)
  BY <1>2, Stands DEF Open
<1>6. Beginning'
  BY <1>2, Stands, Frozen DEF Open, Beginning
<1>7. (TooLarge(With(active, index + 1))' <=> TooLarge(With(active, index + 1)))
      /\ ~Exceeds(active)'
  BY <1>2, Frozen
<1>8. Open(n)'
  BY <1>2, <1>5, <1>6, <1>7 DEF Open, Closing
<1>9. At(n)'
  BY <1>2, <1>4, <1>8 DEF At
<1> QED
  BY <1>3, <1>9 DEF Inv

LEMMA WorkerFinishesInv == ASSUME Inv, WorkerFinishes PROVE Inv'
<1>1. PICK n \in 0..Messages : At(n)
  BY DEF Inv
<1>2. /\ TypeOK /\ Durable(n) /\ Open(n) /\ reports = parts /\ phase = "loop" /\ intent = NoPart
      /\ index = Messages /\ phase' = "drained" /\ Messages \in Nat
      /\ UNCHANGED <<input, size, seen, index, active, intent, parts, reports>>
  BY <1>1, DirectAssumption DEF WorkerFinishes, Inv, At, Running, input, output, Open
<1>3. TypeOK'
  BY <1>2, Frozen DEF TypeOK, Phases
<1>4. Durable(n)'
  BY <1>2, FrozenParts
<1>5. Content(n)' /\ Checked' /\ ~Waiting
  BY <1>2, Stands DEF Open, Closing, Waiting
<1>6. Beginning'
  BY <1>2, <1>5, Stands, Frozen DEF Open, Beginning
<1>7. Open(n)'
  BY <1>2, <1>5, <1>6 DEF Open, Closing
<1>8. At(n)'
  BY <1>2, <1>4, <1>7 DEF At
<1> QED
  BY <1>3, <1>8 DEF Inv

\* Only folders of part 1 that hold no message of it can make it larger, and
\* they were not known when it was begun.
LEMMA ObserveLastFoldersInv == ASSUME Inv, ObserveLastFolders PROVE Inv'
<1>1. PICK n \in 0..Messages : At(n)
  BY DEF Inv
<1>2. /\ TypeOK /\ Durable(n) /\ Open(n) /\ reports = parts /\ phase = "drained"
      /\ index = Messages /\ intent = NoPart /\ Messages \in Nat /\ All = 1..Messages
      /\ UNCHANGED <<input, size, seen, index, intent, parts, reports>>
  BY <1>1, DirectAssumption
     DEF ObserveLastFolders, Inv, At, Running, input, output, Open, Closing, All
<1>3. CASE active = NoPart
  <2>1. phase' = "done" /\ active' = active
    BY <1>3 DEF ObserveLastFolders
  <2>2. TypeOK'
    BY <1>2, <2>1, Frozen DEF TypeOK, Phases
  <2>3. Durable(Messages)
    <3>1. ASSUME NEW m \in All, n < m PROVE ~Writable(m)
      BY <1>2, <1>3, <3>1, NoPartType DEF Open, Content
    <3>2. \A m \in All : m \in Published <=> m <= Messages /\ Writable(m)
      BY <1>2, <3>1 DEF Durable
    <3> QED
      BY <1>2, <3>2 DEF Durable
  <2>4. At(Messages)'
    BY <1>2, <2>1, <2>3, FrozenParts DEF At, Running
  <2> QED
    BY <1>2, <2>2, <2>4 DEF Inv
<1>4. CASE active # NoPart
  <2>0. PICK more : more = Known(Messages + 1) \ odd
    OBVIOUS
  <2>1. phase' = "last" /\ active' = [active EXCEPT !.folders = @ \cup more]
    BY <1>4, <2>0 DEF ObserveLastFolders
  <2>2. active \in Part /\ more \subseteq 1..Folders /\ more \subseteq Places
    BY <1>2, <2>0 DEF TypeOK, Known, Places
  <2>3. /\ active' \in Part /\ active'.number = active.number
        /\ active'.messages = active.messages /\ active'.eof = active.eof
        /\ active'.folders = active.folders \cup more
    BY <2>1, <2>2 DEF Part
  <2>4. TypeOK'
    BY <1>2, <2>1, <2>3, Frozen DEF TypeOK, Phases
  <2>5. Durable(n)'
    BY <1>2, FrozenParts
  <2>6. active.messages # <<>> /\ active.number = Len(parts) + 1
    BY <1>2, <1>4 DEF Open, Beginning, Content
  <2>7. Content(n)'
    BY <1>2, <2>3, <2>6, Frozen DEF Open, Content, Increasing
  <2>8. Beginning'
    <3>1. /\ Following(Head(active.messages))
          /\ Known(Head(active.messages)) \cup Homes(active.messages) \subseteq active.folders
      BY <1>2, <2>6 DEF Open, Beginning
    <3> QED
      BY <1>2, <2>3, <2>6, <3>1, Frozen, FrozenParts DEF Beginning
  <2>9. ASSUME KeptFolders(active') = KeptFolders(active) PROVE Checked'
    <3>1. TooLarge(active') <=> TooLarge(active)
      BY <2>3, <2>9 DEF TooLarge, finalized_file_eof
    <3>2. Checked
      BY <1>2 DEF Open, Closing
    <3> QED
      BY <1>2, <2>3, <3>1, <3>2, Frozen DEF Checked, private_file_eof,
         direct_exact_projection_required, finalization_boundary, Larger
  <2>10. CASE active.number # 1
    <3>1. KeptFolders(active') = KeptFolders(active)
      BY <2>3, <2>10 DEF KeptFolders
    <3>2. Open(n)'
      BY <1>2, <2>1, <2>3, <2>6, <2>7, <2>8, <2>9, <3>1 DEF Open, Closing
    <3> QED
      BY <1>2, <2>1, <2>4, <2>5, <3>2 DEF At, Inv
  <2>11. CASE active.number = 1
    <3>1. ASSUME ~LateFolder' PROVE active'.folders = active.folders
      <4>1. Known(Head(active.messages)) \cup Homes(active.messages) \subseteq active.folders
        BY <1>2, <2>6 DEF Open, Beginning
      <4>2. ASSUME NEW f \in more, f \notin active.folders PROVE FALSE
        <5>1. f \in active'.folders
              /\ f \notin Known(Head(active.messages)) \cup Homes(active.messages)
          BY <2>3, <4>1, <4>2
        <5> QED
          BY <1>2, <2>3, <3>1, <5>1, Frozen DEF LateFolder, LateAndEmpty
      <4> QED
        BY <2>3, <4>2
    <3>2. ~LateFolder' => Checked'
      BY <2>3, <2>9, <2>11, <3>1 DEF KeptFolders
    <3>3. Open(n)'
      BY <1>2, <2>1, <2>3, <2>6, <2>7, <2>8, <2>11, <3>2 DEF Open, Closing
    <3> QED
      BY <1>2, <2>1, <2>4, <2>5, <3>3 DEF At, Inv
  <2> QED
    BY <2>10, <2>11
<1> QED
  BY <1>3, <1>4

LEMMA QuietInv == ASSUME Inv, Signal \/ UNCHANGED vars PROVE Inv'
<1>1. PICK n \in 0..Messages : At(n)
  BY DEF Inv
<1>2. UNCHANGED <<input, size, seen, index, active, intent, parts, reports, phase>>
  BY DEF Signal, vars, input, output
<1>3. TypeOK'
  BY <1>2, Frozen DEF Inv, TypeOK
<1>4. (Durable(n)' <=> Durable(n)) /\ (Content(n)' <=> Content(n))
  BY <1>2, FrozenParts, Stands
<1>5. Beginning' <=> Beginning
  BY <1>2, Stands, Frozen DEF Beginning
<1>6. (TooLarge(With(active, index + 1))' <=> TooLarge(With(active, index + 1)))
      /\ (Exceeds(active)' <=> Exceeds(active))
  BY <1>2, Frozen
<1>7. Open(n)' <=> Open(n)
  BY <1>2, <1>4, <1>5, <1>6, Stands DEF Open, Closing
<1>8. At(n)'
  BY <1>1, <1>2, <1>4, <1>7 DEF At, Running
<1> QED
  BY <1>3, <1>8 DEF Inv

LEMMA NextInv == Inv /\ [Next]_vars => Inv'
  BY DroppingInv, CommitInv, PassOverInv, BeginInv, AppendInv, ClosePartInv, IntentInv,
     WorkerFinishesInv, ObserveLastFoldersInv, QuietInv DEF Next, Over

-----------------------------------------------------------------------------
(* The theorems.                                                           *)

\* Between any two steps of split_direct_recovered_job: what the parts and the
\* open part hold, and what the open part was checked against.
THEOREM DirectInvariant == Spec => []Inv
  BY InitInv, NextInv, PTL DEF Spec

\* However the reserve is chosen and however often the exact size is skipped,
\* the one-pass split closes a part exactly where the next message did not fit,
\* publishes the writable messages in the worker's order, each once, and all of
\* them when it ends by itself.
THEOREM DirectCuts == Spec => []DirectCutsAsReference
<1>1. ASSUME Inv PROVE DirectCutsAsReference
  <2>1. PICK n \in 0..Messages : At(n)
    BY <1>1 DEF Inv
  <2>2. Durable(n) /\ (phase = "done" => n = Messages)
    BY <2>1 DEF At
  <2>3. Published = {m \in 1..n : Writable(m)}
    <3>1. Published \subseteq All /\ 1..n \subseteq All
      <4>1. parts \in Seq(Part) /\ Messages \in Nat
        BY <1>1, DirectAssumption DEF Inv, TypeOK
      <4>2. \A i \in DOMAIN parts : parts[i] \in Part
        BY <4>1
      <4>3. \A p \in Part : Range(p.messages) \subseteq All
        BY DEF Part, Range
      <4> QED
        BY <4>1, <4>2, <4>3 DEF Published, All
    <3>2. \A m \in All : m \in 1..n <=> m <= n
      BY DirectAssumption DEF All
    <3> QED
      BY <2>2, <3>1, <3>2 DEF Durable
  <2> QED
    BY <2>2, <2>3 DEF DirectCutsAsReference, Durable, TooLarge
<1> QED
  BY <1>1, DirectInvariant, PTL

\* finalize_direct_part refuses a part above the maximum only when the capacity
\* estimate had ruled projections out, the tables of the part outgrew the
\* reserve, or a folder without messages joined part 1 after its last
\* projection: at the end, or ahead of the message that closed the part.
THEOREM DirectFailures == Spec => []DirectFailureExplained
<1>1. ASSUME Inv, Closing, Exceeds(active), ~single_part_without_incremental_projection
      PROVE  \/ finalized_file_eof(active) - private_file_eof(active) > finalization_boundary
             \/ phase = "last" /\ active.number = 1 /\ LateFolder
             \/ phase = "rollover" /\ active.number = 1 /\ LateHome
  <2>1. PICK n \in 0..Messages : Open(n)
    BY <1>1 DEF Inv, At, Running, Closing
  <2>2. /\ active.messages # <<>> /\ Len(active.messages) # 1 /\ TooLarge(active)
        /\ active \in Part
    BY <1>1, <2>1 DEF Open, Exceeds, TooLarge, Inv, TypeOK
  <2>3. CASE Checked
    <3>1. ~direct_exact_projection_required(private_file_eof(active))
      BY <1>1, <2>2, <2>3 DEF Checked
    <3>2. /\ finalized_file_eof(active) \in Nat /\ private_file_eof(active) \in Nat
          /\ finalized_file_eof(active) > maximum_pst_bytes
      BY <2>2, SizeType DEF TooLarge
    <3>3. finalization_boundary \in Nat /\ maximum_pst_bytes \in Nat
      BY DirectAssumption DEF finalization_boundary, Larger
    <3> QED
      BY <3>1, <3>2, <3>3 DEF direct_exact_projection_required, Larger
  <2>4. CASE ~Checked
    BY <1>1, <2>1, <2>4 DEF Open, Closing
  <2> QED
    BY <2>3, <2>4
<1>2. Inv => DirectFailureExplained
  BY <1>1 DEF DirectFailureExplained, LateFolder, LateHome, Candidate
<1> QED
  BY <1>2, DirectInvariant, PTL

\* A direct split that ends, is interrupted or loses its worker reports the
\* parts that the ledger publishes, also when the interruption met a part whose
\* publication had begun.
THEOREM DirectReports == Spec => []DirectReportExact
<1>1. Inv => DirectReportExact
  BY DEF Inv, At, DirectReportExact
<1> QED
  BY <1>1, DirectInvariant, PTL
=============================================================================
