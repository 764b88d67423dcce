-------------------------- MODULE CatalogTraversal --------------------------
(***************************************************************************)
(* The parser worker's walk through a damaged store                        *)
(* (libpff-sys/src/catalog.rs): the folder tree, then the items libpff     *)
(* recovers, then the orphans.  The walk is driven by a list of tasks; a   *)
(* task makes the libpff calls of one step, each of which may fail, and    *)
(* emits the events of that step on the pipe.  The recursion of            *)
(* process_message_inner is the nesting of its tasks; an error leaves the  *)
(* tasks between the call and the handler that contains it.                *)
(***************************************************************************)
EXTENDS Integers, Sequences, FiniteSets, SequencesExt

CONSTANTS
    Orders,       \* the traversal orders to explore
    Folders,      \* the folders of the store
    RootFolder,   \* the root folder
    Kids,         \* folder -> its child folders, in index order
    Normal,       \* folder -> its messages
    Associated,   \* folder -> its associated contents
    Recoverable,  \* the lists of messages libpff may recover
    Orphans,      \* the orphan messages
    Messages,     \* every message, the embedded ones included
    NodeId,       \* message -> its identifier, 0 when it has none
    Attachments,  \* message -> its attachments
    LongBody,     \* the messages whose properties exceed the prefix
    Supported,    \* the messages whose class can be taken in
    Isolated,     \* the sets of units earlier attempts may have isolated
    MaxDepth,     \* MAX_EMBEDDED_DEPTH
    MaxFaults     \* bound: how many libpff calls fail in a behaviour

AttachmentKinds == {"data", "reference", "embedded"}

ASSUME StoreAssumption ==
    /\ Orders \subseteq {"Source", "EmbeddedFirst", "Direct"}
    /\ RootFolder \in Folders
    /\ Kids \in [Folders -> Seq(Folders)]
    /\ Normal \in [Folders -> Seq(Messages)]
    /\ Associated \in [Folders -> Seq(Messages)]
    /\ Recoverable \subseteq Seq(Messages) /\ Orphans \in Seq(Messages)
    /\ NodeId \in [Messages -> Nat]
    /\ LongBody \subseteq Messages /\ Supported \subseteq Messages
    /\ \A m \in Messages : \A i \in 1..Len(Attachments[m]) :
           /\ Attachments[m][i].kind \in AttachmentKinds
           /\ {Attachments[m][i].longData, Attachments[m][i].longProps}
                  \subseteq BOOLEAN
           /\ Attachments[m][i].kind = "embedded" =>
                  Attachments[m][i].child \in Messages
    /\ MaxDepth \in Nat /\ MaxFaults \in Nat

VARIABLES
    order,     \* the traversal order of the sink
    recovered, \* the messages libpff recovers
    skipped,   \* the recovery units isolated by earlier attempts
    todo,      \* the tasks left, the next one first
    folders,   \* the stack of folders to visit
    pending,   \* the stack of messages to process in the open unit
    visited,   \* identifiers of the top-level messages started
    issues,    \* RawCatalog.issues and issues_dropped: was any recorded
    active,    \* active_message_issues
    deferred,  \* the payloads put off to the end of the top-level message
    pipe,      \* the frames written and not read yet
    final,     \* how the traversal ended
    faults,    \* how many calls have failed
    hurt,      \* history: the messages a failed call belongs to
    damage     \* history: what else was lost

traversal == <<order, recovered, skipped, todo, folders, pending, visited, issues, active,
               deferred, pipe, final, faults, hurt, damage>>

given == <<order, recovered, skipped>>

NoNode == -1

FolderUnit(f) == [u |-> "folder", at |-> f, i |-> 0]
ChildUnit(f, i) == [u |-> "child", at |-> f, i |-> i]
NormalUnit(f, i) == [u |-> "normal", at |-> f, i |-> i]
AssociatedUnit(f, i) == [u |-> "associated", at |-> f, i |-> i]
RecoveredUnit(i) == [u |-> "recovered", at |-> RootFolder, i |-> i]
OrphanUnit(i) == [u |-> "orphan", at |-> RootFolder, i |-> i]

UnitFrame(f, unit) == [f |-> f, unit |-> unit]
ItemFrame(f, w, i) == [f |-> f, w |-> w, i |-> i]
EndFrame(f) == [f |-> f]

\* A stream the writer may ask for: the properties of message m (i = 0), the
\* properties of its attachment i or the data of its attachment i.
Stream(m, i, what) == [m |-> m, i |-> i, what |-> what]
StreamFrame(s) == [f |-> "Deferred", s |-> s]

\* MessageWork: a message, its embedded path and, once read, its identifier.
Work(m, path) == [m |-> m, path |-> path, id |-> 0, clean |-> TRUE]

Task(t) == pipe = <<>> /\ todo # <<>> /\ Head(todo).t = t
Rest == Tail(todo)
Emit(frames) == pipe' = frames

\* What the calls of a step may fail at.  A native error is libpff's own; a
\* count, an index or a string over its limit is refused by the wrappers.
FolderFaults == {"identifier", "value", "messages", "associated", "children",
                 "limit"}
MessageFaults == {"identifier", "value", "limit"}
RecipientFaults == {"native", "limit"}
PropertyFaults == {"native", "limit"}
AttachmentFaults(kind) ==
    {"open", "value"} \cup (CASE kind = "data" -> {"size", "data"}
                             [] kind = "embedded" -> {"item"}
                             [] OTHER -> {})
DeferredFaults == IF deferred = <<>> THEN {} ELSE {"native"}

\* The results a libpff call may have while failures remain.
Outcomes(kinds) == {"ok"} \cup (IF faults < MaxFaults THEN kinds ELSE {})
Spend(r) == faults' = IF r = "ok" THEN faults ELSE faults + 1
Hurt(m, r) == hurt' = IF r = "ok" THEN hurt ELSE hurt \cup {m}

\* record_issue: the issue is counted against every active message of its node.
Counted(list, node) ==
    [k \in 1..Len(list) |->
        IF list[k].id = node THEN [list[k] EXCEPT !.n = 1] ELSE list[k]]

Record(r, list, node) ==
    /\ issues' = (issues \/ r # "ok")
    /\ active' = IF r = "ok" THEN list ELSE Counted(list, node)

\* recovery_catalog_skipping returns an error: the worker reports a parser
\* failure or, in writer order, a parser boundary.
Abort ==
    /\ todo' = <<>>
    /\ final' = IF order = "Direct" THEN "boundary" ELSE "error"
    /\ Emit(<<EndFrame(IF order = "Direct" THEN "ParserBoundary"
                                            ELSE "Error")>>)

SkipIsolatedUnit ==
    /\ pipe = <<>> /\ todo # <<>>
    /\ Head(todo).t \in {"root", "folder", "child", "item"}
    /\ Head(todo).unit \in skipped
    /\ issues' = TRUE /\ todo' = Rest
    /\ UNCHANGED <<given, folders, pending, visited, active, deferred, pipe,
                   final, faults, hurt, damage>>

\* The unit of the root folder is opened before the folder is read: when the
\* read fails the walk goes on with the recovered items and an empty catalog.
OpenRoot ==
    /\ Task("root") /\ Head(todo).unit \notin skipped
    /\ \E r \in Outcomes({"native"}) :
        /\ todo' = IF r = "ok"
                     THEN <<[t |-> "visit", f |-> RootFolder],
                            [t |-> "next"]>> \o Rest
                     ELSE Rest
        /\ Emit(<<UnitFrame("UnitStart", FolderUnit(RootFolder))>>)
        /\ Spend(r) /\ issues' = (issues \/ r # "ok")
        /\ damage' = IF r = "ok" THEN damage ELSE damage \cup {"root"}
    /\ UNCHANGED <<given, folders, pending, visited, active, deferred, final,
                   hurt>>

NextFolder ==
    /\ Task("next")
    /\ IF folders = <<>>
         THEN todo' = Rest /\ UNCHANGED folders
         ELSE /\ todo' = <<[t |-> "folder", f |-> Head(folders),
                            unit |-> FolderUnit(Head(folders))]>> \o todo
              /\ folders' = Tail(folders)
    /\ UNCHANGED <<given, pending, visited, issues, active, deferred, pipe,
                   final, faults, hurt, damage>>

OpenFolder ==
    /\ Task("folder") /\ Head(todo).unit \notin skipped
    /\ todo' = <<[t |-> "visit", f |-> Head(todo).f]>> \o Rest
    /\ Emit(<<UnitFrame("UnitStart", Head(todo).unit)>>)
    /\ UNCHANGED <<given, folders, pending, visited, issues, active, deferred,
                   final, faults, hurt, damage>>

ChildTasks(f) ==
    Reverse([i \in 1..Len(Kids[f]) |->
        [t |-> "child", f |-> Kids[f][i], unit |-> ChildUnit(f, i)]])
ItemTasks(items, Unit(_)) ==
    [i \in 1..Len(items) |-> [t |-> "item", m |-> items[i], unit |-> Unit(i)]]

\* A folder: without its identifier it is left; a name, a class, a property
\* or a count that cannot be read is an issue, a string over the limit ends
\* the walk.
VisitFolder ==
    /\ Task("visit")
    /\ LET f == Head(todo).f
           unit == FolderUnit(f)
           NUnit(i) == NormalUnit(f, i)
           AUnit(i) == AssociatedUnit(f, i)
       IN  \E r \in Outcomes(FolderFaults) :
            /\ Spend(r) /\ UNCHANGED <<active, hurt>>
            /\ damage' = IF r \in {"ok", "value"} THEN damage
                                                  ELSE damage \cup {"folder"}
            /\ IF r = "limit"
                 THEN Abort /\ UNCHANGED issues
                 ELSE /\ issues' = (issues \/ r # "ok")
                      /\ Emit((IF r = "identifier" THEN <<>>
                                 ELSE <<EndFrame("Folder")>>)
                              \o <<UnitFrame("UnitEnd", unit)>>)
                      /\ todo' =
                           (IF r \in {"identifier", "children"} THEN <<>>
                              ELSE ChildTasks(f))
                           \o (IF r \in {"identifier", "messages"} THEN <<>>
                                 ELSE ItemTasks(Normal[f], NUnit))
                           \o (IF r \in {"identifier", "associated"} THEN <<>>
                                 ELSE ItemTasks(Associated[f], AUnit))
                           \o Rest
                      /\ UNCHANGED final
    /\ UNCHANGED <<given, folders, pending, visited, deferred>>

\* Mutant: a child folder that cannot be read is passed over in silence.
PassChildFolder ==
    /\ Task("child") /\ Head(todo).unit \notin skipped
    /\ \E r \in Outcomes({"native"}) :
        /\ folders' = IF r = "ok" THEN <<Head(todo).f>> \o folders ELSE folders
        /\ Spend(r)
    /\ Emit(<<UnitFrame("UnitStart", Head(todo).unit),
              UnitFrame("UnitEnd", Head(todo).unit)>>)
    /\ todo' = Rest
    /\ UNCHANGED <<given, pending, visited, issues, active, deferred, final,
                   hurt, damage>>

ReadChildFolder ==
    /\ Task("child") /\ Head(todo).unit \notin skipped
    /\ \E r \in Outcomes({"native"}) :
        /\ folders' = IF r = "ok" THEN <<Head(todo).f>> \o folders ELSE folders
        /\ Spend(r) /\ issues' = (issues \/ r # "ok")
        /\ damage' = IF r = "ok" THEN damage ELSE damage \cup {"folder"}
    /\ Emit(<<UnitFrame("UnitStart", Head(todo).unit),
              UnitFrame("UnitEnd", Head(todo).unit)>>)
    /\ todo' = Rest
    /\ UNCHANGED <<given, pending, visited, active, deferred, final, hurt>>

\* A message of a folder or of a recovery collection is fetched in its unit.
OpenItem ==
    /\ Task("item") /\ Head(todo).unit \notin skipped
    /\ LET unit == Head(todo).unit
           m == Head(todo).m
       IN  \E r \in Outcomes({"native"}) :
            /\ Spend(r) /\ Hurt(m, r) /\ issues' = (issues \/ r # "ok")
            /\ IF r = "ok"
                 THEN /\ pending' = <<Work(m, <<>>)>>
                      /\ todo' = <<[t |-> "pending", unit |-> unit]>> \o Rest
                      /\ Emit(<<UnitFrame("UnitStart", unit)>>)
                 ELSE /\ todo' = Rest /\ UNCHANGED pending
                      /\ Emit(<<UnitFrame("UnitStart", unit),
                                UnitFrame("UnitEnd", unit)>>)
    /\ UNCHANGED <<given, folders, visited, active, deferred, final, damage>>

NextPending ==
    /\ Task("pending")
    /\ IF pending = <<>>
         THEN /\ Emit(<<UnitFrame("UnitEnd", Head(todo).unit)>>)
              /\ todo' = Rest /\ UNCHANGED pending
         ELSE /\ todo' = <<[t |-> "message", w |-> Head(pending)]>>
                         \o (IF order = "Direct" /\ Head(pending).path = <<>>
                               THEN <<[t |-> "boundary"], [t |-> "payload"]>>
                               ELSE <<>>)
                         \o todo
              /\ pending' = Tail(pending) /\ UNCHANGED pipe
    /\ UNCHANGED <<given, folders, visited, issues, active, deferred, final,
                   faults, hurt, damage>>

\* The tasks left once stream_attachments of the message at path has failed,
\* and once process_message has.
AfterAttachments(path) ==
    LET k == CHOOSE j \in 1..Len(todo) :
                 /\ todo[j].t = "props" /\ todo[j].w.path = path
                 /\ \A l \in 1..(j - 1) :
                        ~(todo[l].t = "props" /\ todo[l].w.path = path)
    IN  SubSeq(todo, k, Len(todo))
AfterUnit ==
    LET k == CHOOSE j \in 1..Len(todo) :
                 todo[j].t = "pending" /\ \A l \in 1..(j - 1) : todo[l].t # "pending"
    IN  SubSeq(todo, k, Len(todo))

\* A limit exceeded inside message w leaves process_message_inner.  The
\* handler of an enclosing message's attachments contains it; otherwise it
\* ends the walk.
RaiseLimit(w, list) ==
    IF w.path # <<>> /\ order = "Direct"
      THEN LET parent == Front(w.path)
               after == AfterAttachments(parent)
           IN  /\ todo' = after /\ issues' = TRUE
               /\ active' = Counted(list, Head(after).w.id)
               /\ damage' = damage \cup {"nested limit"}
               /\ hurt' = hurt \cup {w.m, Head(after).w.m}
               /\ UNCHANGED <<pipe, final>>
      ELSE /\ Abort /\ active' = list /\ damage' = damage \cup {"limit"}
           /\ hurt' = hurt \cup {w.m} /\ UNCHANGED issues

\* process_message_inner up to MessageStart.
StartMessage ==
    /\ Task("message")
    /\ \E r \in Outcomes(MessageFaults) :
        LET m == Head(todo).w.m
            id == IF r = "identifier" THEN 0 ELSE NodeId[m]
            w == [Head(todo).w EXCEPT !.id = id, !.clean = r # "identifier"]
            list == Append(active, [id |-> id, n |-> 0])
            seen == w.path = <<>> /\ id # 0 /\ id \in visited
        IN  /\ Spend(r)
            /\ seen => r = "ok"
            /\ IF seen
                 THEN /\ issues' = TRUE /\ todo' = Rest
                      /\ active' = Counted(active, id)
                      /\ UNCHANGED <<pipe, final, visited, hurt, damage>>
                 ELSE IF r = "limit"
                 THEN RaiseLimit(w, list) /\ UNCHANGED visited
                 ELSE /\ Record(r, list, IF r = "value" THEN id ELSE NoNode)
                      /\ Hurt(m, r)
                      /\ visited' = IF w.path = <<>> /\ id # 0
                                      THEN visited \cup {id} ELSE visited
                      /\ Emit(<<ItemFrame("MessageStart", w, 0)>>)
                      /\ todo' = <<[t |-> "recipients", w |-> w],
                                   [t |-> "count", w |-> w],
                                   [t |-> "props", w |-> w],
                                   [t |-> "end", w |-> w]>> \o Rest
                      /\ UNCHANGED <<final, damage>>
    /\ UNCHANGED <<given, folders, pending, deferred>>

StreamRecipients ==
    /\ Task("recipients")
    /\ LET w == Head(todo).w
       IN  \E r \in Outcomes(RecipientFaults) :
            /\ Spend(r)
            /\ IF r = "limit"
                 THEN RaiseLimit(w, active)
                 ELSE /\ Record(r, active, w.id) /\ Hurt(w.m, r)
                      /\ Emit(<<ItemFrame("Recipient", w, 0)>>)
                      /\ todo' = Rest /\ UNCHANGED <<final, damage>>
    /\ UNCHANGED <<given, folders, pending, visited, deferred>>

CountAttachments ==
    /\ Task("count")
    /\ LET w == Head(todo).w
       IN  \E r \in Outcomes({"native"}) :
            /\ Spend(r) /\ Hurt(w.m, r) /\ Record(r, active, w.id)
            /\ todo' = IF r = "ok"
                         THEN [i \in 1..Len(Attachments[w.m]) |->
                                 [t |-> "attachment", w |-> w, i |-> i]] \o Rest
                         ELSE Rest
    /\ UNCHANGED <<given, folders, pending, visited, deferred, pipe, final,
                   damage>>

\* What is put off when a prefix is all that was asked for.
LongProps(w, i) ==
    IF order = "Direct" /\ Attachments[w.m][i].longProps
      THEN <<Stream(w.m, i, "props")>> ELSE <<>>
LongData(w, i) ==
    IF order = "Direct" /\ Attachments[w.m][i].longData
      THEN <<Stream(w.m, i, "data")>> ELSE <<>>

\* An attachment with data, or a reference to one.  A value that cannot be
\* read is an issue; without its size the attachment is left open and the
\* attachments after it are not read.
StreamAttachment ==
    /\ Task("attachment")
    /\ LET w == Head(todo).w
           i == Head(todo).i
           kind == Attachments[w.m][i].kind
           start == <<ItemFrame("AttachmentStart", w, i)>>
           props == <<ItemFrame("AttachmentProperty", w, i)>>
           data == IF kind = "data" THEN <<ItemFrame("AttachmentData", w, i)>>
                                    ELSE <<>>
           end == <<ItemFrame("AttachmentEnd", w, i)>>
           abort == <<ItemFrame("AttachmentAbort", w, i)>>
       IN  /\ kind # "embedded"
           /\ \E r \in Outcomes(AttachmentFaults(kind)) :
               /\ Spend(r) /\ Hurt(w.m, r) /\ Record(r, active, w.id)
               /\ todo' = IF r = "size" THEN AfterAttachments(w.path) ELSE Rest
               /\ Emit(CASE r = "open" -> start \o abort
                         [] r = "size" -> start \o props
                         [] r = "data" -> start \o props \o abort
                         [] OTHER -> start \o props \o data \o end)
               /\ deferred' = deferred
                     \o (IF r = "open" THEN <<>> ELSE LongProps(w, i))
                     \o (IF r \in {"open", "size", "data"} \/ kind # "data"
                           THEN <<>> ELSE LongData(w, i))
    /\ UNCHANGED <<given, folders, pending, visited, final, damage>>

\* An embedded message is queued or, in writer order, processed inside its
\* attachment; its attachment's properties follow it there.
StreamEmbedded ==
    /\ Task("attachment")
    /\ LET w == Head(todo).w
           i == Head(todo).i
           child == Work(Attachments[w.m][i].child, Append(w.path, i))
           start == <<ItemFrame("AttachmentStart", w, i)>>
           props == <<ItemFrame("AttachmentProperty", w, i)>>
           end == <<ItemFrame("AttachmentEnd", w, i)>>
           abort == <<ItemFrame("AttachmentAbort", w, i)>>
       IN  /\ Attachments[w.m][i].kind = "embedded"
           /\ \E r \in Outcomes(AttachmentFaults("embedded")) :
               LET lost == r \in {"open", "item"} \/ Len(child.path) > MaxDepth
                   inside == order = "Direct" /\ ~lost
               IN  /\ Spend(r)
                   /\ IF lost \/ r # "ok"
                        THEN Record("issue", active, w.id) /\ Hurt(w.m, "issue")
                        ELSE UNCHANGED <<issues, active, hurt>>
                   /\ Emit(CASE r = "open" -> start \o abort
                             [] lost /\ r # "open" -> start \o props \o abort
                             [] inside -> start
                             [] OTHER -> start \o props \o end)
                   /\ todo' = IF inside
                                THEN <<[t |-> "message", w |-> child],
                                       [t |-> "embedded", w |-> w, i |-> i]>>
                                     \o Rest
                                ELSE Rest
                   /\ pending' = IF lost \/ inside THEN pending
                                                   ELSE <<child>> \o pending
                   /\ deferred' = IF lost /\ r # "open"
                                    THEN deferred \o LongProps(w, i)
                                    ELSE deferred
    /\ UNCHANGED <<given, folders, visited, final, damage>>

EndEmbedded ==
    /\ Task("embedded")
    /\ LET w == Head(todo).w
           i == Head(todo).i
       IN  /\ Emit(<<ItemFrame("AttachmentProperty", w, i),
                     ItemFrame("AttachmentEnd", w, i)>>)
           /\ deferred' = deferred \o LongProps(w, i)
    /\ todo' = Rest
    /\ UNCHANGED <<given, folders, pending, visited, issues, active, final,
                   faults, hurt, damage>>

StreamMessageProperties ==
    /\ Task("props")
    /\ LET w == Head(todo).w
       IN  \E r \in Outcomes(PropertyFaults) :
            /\ Spend(r)
            /\ IF r = "limit"
                 THEN RaiseLimit(w, active) /\ UNCHANGED deferred
                 ELSE /\ Record(r, active, w.id) /\ Hurt(w.m, r)
                      /\ Emit(<<ItemFrame(IF r = "ok" THEN "MessageProperty"
                                           ELSE "PropertyAbort", w, 0)>>)
                      /\ deferred' =
                            IF r = "ok" /\ order = "Direct" /\ w.m \in LongBody
                              THEN Append(deferred, Stream(w.m, 0, "props"))
                              ELSE deferred
                      /\ todo' = Rest /\ UNCHANGED <<final, damage>>
    /\ UNCHANGED <<given, folders, pending, visited>>

\* MessageIssueState::unchanged, which is not called (and takes no entry off
\* the list) when the identifier could not be read.
Unchanged(w) == Last(active).id = w.id /\ Last(active).n = 0

EndMessage ==
    /\ Task("end")
    /\ LET w == Head(todo).w
       IN  /\ Emit(<<[f |-> "MessageEnd", w |-> w, i |-> 0,
                      complete |-> w.clean /\ Unchanged(w)]>>)
           /\ active' = IF w.clean THEN Front(active) ELSE active
    /\ todo' = Rest
    /\ UNCHANGED <<given, folders, pending, visited, issues, deferred, final,
                   faults, hurt, damage>>

MetadataBoundary ==
    /\ Task("boundary")
    /\ Emit(<<EndFrame("TopLevelMetadataEnd")>>)
    /\ todo' = Rest
    /\ UNCHANGED <<given, folders, pending, visited, issues, active, deferred,
                   final, faults, hurt, damage>>

\* stream_deferred_payloads: a payload that cannot be read ends the message
\* without its TopLevelPayloadEnd.
StreamDeferred ==
    /\ Task("payload")
    /\ \E r \in Outcomes(DeferredFaults) :
        /\ Spend(r) /\ issues' = (issues \/ r # "ok")
        /\ damage' = IF r = "ok" THEN damage ELSE damage \cup {"payload"}
        /\ IF r # "ok"
             THEN todo' = AfterUnit /\ deferred' = <<>> /\ UNCHANGED pipe
             ELSE IF deferred = <<>>
             THEN /\ Emit(<<EndFrame("TopLevelPayloadEnd")>>)
                  /\ todo' = Rest /\ UNCHANGED deferred
             ELSE /\ Emit(<<StreamFrame(Head(deferred))>>)
                  /\ deferred' = Tail(deferred) /\ UNCHANGED todo
    /\ UNCHANGED <<given, folders, pending, visited, active, final, hurt>>

\* libpff recovers items and counts them; a failure of either ends the walk.
Collect ==
    /\ Task("collect")
    /\ \E r \in Outcomes({"native"}) :
        /\ Spend(r)
        /\ damage' = IF r = "ok" THEN damage ELSE damage \cup {"collection"}
        /\ IF r = "ok"
             THEN todo' = Head(todo).items \o Rest /\ UNCHANGED <<pipe, final>>
             ELSE Abort
    /\ UNCHANGED <<given, folders, pending, visited, issues, active, deferred,
                   hurt>>

CompleteTraversal ==
    /\ pipe = <<>> /\ todo = <<>> /\ final = "running"
    /\ final' = "complete"
    /\ Emit(<<[f |-> "Complete", issues |-> issues]>>)
    /\ UNCHANGED <<given, todo, folders, pending, visited, issues, active,
                   deferred, faults, hurt, damage>>

TraversalInit ==
    /\ order \in Orders /\ recovered \in Recoverable /\ skipped \in Isolated
    /\ todo = <<[t |-> "root", unit |-> FolderUnit(RootFolder)],
                [t |-> "collect", items |-> ItemTasks(recovered, RecoveredUnit)],
                [t |-> "collect", items |-> ItemTasks(Orphans, OrphanUnit)]>>
    /\ folders = <<>> /\ pending = <<>> /\ visited = {} /\ issues = FALSE
    /\ active = <<>> /\ deferred = <<>> /\ pipe = <<>> /\ final = "running"
    /\ faults = 0 /\ hurt = {} /\ damage = {}

Traverse ==
    \/ SkipIsolatedUnit \/ OpenRoot \/ NextFolder \/ OpenFolder \/ VisitFolder
    \/ ReadChildFolder \/ OpenItem \/ NextPending \/ StartMessage
    \/ StreamRecipients \/ CountAttachments \/ StreamAttachment
    \/ StreamEmbedded \/ EndEmbedded \/ StreamMessageProperties \/ EndMessage
    \/ MetadataBoundary \/ StreamDeferred \/ Collect \/ CompleteTraversal
=============================================================================
