----------------------- MODULE PartPublicationProofs -----------------------
(***************************************************************************)
(* Publication for every set of items and any number of interruptions,     *)
(* process stops and host stops: the output directory is accounted for,    *)
(* what one uninterrupted run publishes is durable, and the ledger does    *)
(* what PublishedParts promises.                                           *)
(*                                                                         *)
(* The invariant says of the ledger that there is at most one intent, for  *)
(* the next part and for items still offered (LedgerInv); of the process,  *)
(* which part its steps are about and where its files are (ProcessInv);    *)
(* and of the file system, that a final file a host stop can bring back is *)
(* also the one that is seen (FilesInv).                                   *)
(***************************************************************************)
EXTENDS PartPublication, FiniteSetTheorems, TLAPS

Steps == {"idle", "staged", "describing", "described", "intended", "renamed", "synced", "sidecar_renamed",
          "sidecar_synced", "down", "reconcile", "sidecar_writing", "sidecar_ready", "sidecar_moved",
          "sidecar_durable", "clean", "validate", "refused"}

\* The steps between the intent and its commit.
Intended == {"intended", "renamed", "synced", "sidecar_renamed", "sidecar_synced",
             "sidecar_writing", "sidecar_ready", "sidecar_moved", "sidecar_durable"}

\* Where no intent is left.
Settled == {"idle", "staged", "describing", "described", "clean", "validate"}

Tree == [Kinds -> [Indices -> Places]]

TypeOK ==
    /\ status \in [Keys -> {"spooled", "unsupported", "written"}]
    /\ parts \in SUBSET Files /\ intents \in SUBSET Files
    /\ fs \in Tree /\ disk \in Tree
    /\ pc \in Steps /\ attempt \in Nat /\ stops \in Nat

\* A part that may be published next.
Publishable(f) == f \in Files /\ f.index = NextIndex /\ f.keys # {} /\ f.keys \subseteq Spooled

PartsInv ==
    /\ IsFiniteSet(parts)
    /\ \A f \in parts : /\ f.index <= Cardinality(parts) /\ f.keys # {}
                        /\ \A k \in f.keys : status[k] = "written"
    /\ \A f, g \in parts : f # g => f.index # g.index /\ f.keys \cap g.keys = {}

IntentsInv ==
    /\ \A f \in intents : Publishable(f)
    /\ \A f, g \in intents : f = g
    /\ pc \in Settled => intents = {}

LedgerInv == PartsInv /\ IntentsInv

ProcessInv ==
    /\ pc \in {"staged", "describing", "described"} => Publishable(cur)
    /\ pc \in Intended => intents = {cur}
    /\ pc \in {"staged", "describing", "described", "intended"} => fs.pst[cur.index].at # "final"
    /\ pc \in Intended \ {"intended"} => fs.pst[cur.index] = Final(cur)
    /\ pc \in {"describing", "described", "intended", "renamed", "synced", "sidecar_writing",
             "sidecar_ready"}
         => fs.sidecar[cur.index].at # "final"
    /\ pc \in {"sidecar_renamed", "sidecar_synced", "sidecar_moved", "sidecar_durable"}
         => fs.sidecar[cur.index] = Final(cur)

FilesInv ==
    /\ \A i \in Indices : \A places \in {fs.pst, disk.pst} : places[i].at = "final"
          => places[i].file.index = i /\ places[i].file \in parts \cup intents
    /\ \A kind \in Kinds : \A i \in Indices :
          disk[kind][i].at = "final" => fs[kind][i] = disk[kind][i]

\* Without a process stop a final file that is not synced is the one that was
\* just renamed.
DurableInv ==
    stops = 0 =>
        /\ \A i \in Indices : fs.pst[i].at = "final" =>
              disk.pst[i] = fs.pst[i] \/ (pc = "renamed" /\ i = cur.index)
        /\ \A i \in Indices : fs.sidecar[i].at = "final" =>
              disk.sidecar[i] = fs.sidecar[i]
                \/ (pc \in {"sidecar_renamed", "sidecar_moved"} /\ i = cur.index)
        /\ PublishedDurable

Inv == TypeOK /\ LedgerInv /\ ProcessInv /\ FilesInv /\ DurableInv

USE DEF At, Goto, counters, ledger, files, Kinds, Steps, Settled, Intended

-----------------------------------------------------------------------------
(* Facts about the ledger.                                                 *)

\* While an item is offered there is a free part index: the parts have
\* disjoint sets of items, and the offered one is in none of them.
LEMMA RoomForPart ==
  ASSUME TypeOK, PartsInv, NEW k \in Spooled
  PROVE  NextIndex \in Indices /\ Cardinality(parts) \in Nat
<1> DEFINE item == [f \in parts |-> CHOOSE x \in f.keys : TRUE]
           rest == Keys \ {k}
<1>1. IsFiniteSet(rest) /\ Cardinality(rest) = Cardinality(Keys) - 1
  BY FS_RemoveElement, FiniteAssumption DEF Spooled
<1>2. ASSUME NEW f \in parts PROVE item[f] \in f.keys /\ item[f] \in rest
  <2>1. item[f] \in f.keys
    BY DEF PartsInv
  <2>2. f.keys \subseteq Keys
    BY DEF TypeOK, Files
  <2> QED
    BY <2>1, <2>2 DEF PartsInv, Spooled
<1>3. item \in Injection(parts, rest)
  <2>1. item \in [parts -> rest]
    BY <1>2
  <2>2. \A f, g \in parts : f # g => item[f] # item[g]
    BY <1>2 DEF PartsInv
  <2> HIDE DEF item
  <2> QED
    BY <2>1, <2>2 DEF Injection, IsInjective
<1>4. Cardinality(parts) <= Cardinality(rest)
  <2> HIDE DEF item
  <2> QED
    BY <1>1, <1>3, FS_Injection
<1>5. Cardinality(parts) \in Nat /\ Cardinality(rest) \in Nat /\ Cardinality(Keys) \in Nat
  BY <1>1, FS_CardinalityType, FiniteAssumption DEF PartsInv
<1> QED
  BY <1>1, <1>4, <1>5 DEF NextIndex, Indices

\* A part that may be published is not published: its items are not written.
LEMMA PublishableIsNew ==
  ASSUME TypeOK, PartsInv, NEW f, Publishable(f)
  PROVE  /\ f \notin parts
         /\ \A g \in parts : g.index # f.index /\ g.keys \cap f.keys = {}
<1>1. ASSUME NEW g \in parts PROVE g.index # f.index /\ g.keys \cap f.keys = {}
  <2>1. Cardinality(parts) \in Nat
    BY FS_CardinalityType DEF PartsInv
  <2>2. g.index <= Cardinality(parts) /\ g.index \in Int
    BY DEF PartsInv, TypeOK, Files, Indices
  <2>3. g.index # f.index
    BY <2>1, <2>2 DEF Publishable, NextIndex
  <2>4. g.keys \cap f.keys = {}
    BY DEF PartsInv, Publishable, Spooled
  <2> QED
    BY <2>3, <2>4
<1> QED
  BY <1>1

LEMMA InitInv == Init => Inv
<1> SUFFICES ASSUME Init PROVE Inv
  OBVIOUS
<1>1. TypeOK
  BY DEF Init, TypeOK, Tree, Places
<1>2. PartsInv
  BY FS_EmptySet DEF Init, PartsInv
<1>3. IntentsInv /\ ProcessInv
  BY DEF Init, IntentsInv, ProcessInv
<1>4. FilesInv
  BY DEF Init, FilesInv, Nowhere
<1>5. DurableInv
  BY DEF Init, DurableInv, PublishedDurable, Nowhere
<1> QED
  BY <1>1, <1>2, <1>3, <1>4, <1>5 DEF Inv, LedgerInv

-----------------------------------------------------------------------------
(* One lemma for every step.                                               *)

LEMMA RejectInv == ASSUME NEW k \in Keys, Inv, mark_candidate_rejections(k) PROVE Inv'
<1> USE DEF Inv, LedgerInv, mark_candidate_rejections
<1>1. TypeOK'
  BY DEF TypeOK, Tree, Places, ProcessInv, Publishable, Final, Partial, Torn
<1>2. PartsInv'
  BY DEF TypeOK, PartsInv
<1>3. IntentsInv'
  BY DEF TypeOK, IntentsInv, ProcessInv, Publishable, NextIndex, Spooled
<1>4. ProcessInv'
  <2>1. cur \in Files => cur # NoFile
    BY NoFileAssumption DEF Files, Indices
  <2>2. pc = "staged" => k \notin cur.keys
    BY <2>1 DEF ProcessInv, Publishable
  <2>3. pc = "staged" => Publishable(cur)'
    BY <2>2 DEF TypeOK, ProcessInv, Publishable, NextIndex, Spooled
  <2> QED
    BY <2>3 DEF TypeOK, ProcessInv
<1>5. FilesInv'
  BY DEF TypeOK, Tree, ProcessInv, IntentsInv, FilesInv, Publishable, Files, Partial, Torn, Final
<1>6. DurableInv'
  BY DEF TypeOK, Tree, ProcessInv, FilesInv, DurableInv, PublishedDurable, Files, Partial, Torn, Final
<1> QED
  BY ONLY <1>1, <1>2, <1>3, <1>4, <1>5, <1>6 DEF Inv, LedgerInv

LEMMA CreateSidecarInv == ASSUME Inv, create_sidecar_partial PROVE Inv'
<1> USE DEF Inv, LedgerInv, create_sidecar_partial, Put
<1>1. TypeOK'
  BY DEF TypeOK, Tree, Places, ProcessInv, Publishable, Final, Partial, Torn
<1>2. PartsInv'
  BY DEF TypeOK, PartsInv
<1>3. IntentsInv'
  BY DEF TypeOK, IntentsInv, ProcessInv, Publishable, NextIndex, Spooled
<1>4. ProcessInv'
  BY DEF TypeOK, Tree, ProcessInv, IntentsInv, Publishable, NextIndex, Spooled, Files, Partial, Torn, Final
<1>5. FilesInv'
  BY DEF TypeOK, Tree, ProcessInv, FilesInv, Publishable, Files, Partial, Torn, Nowhere
<1>6. DurableInv'
  BY DEF TypeOK, Tree, ProcessInv, FilesInv, DurableInv, PublishedDurable, Files, Partial, Torn, Final
<1> QED
  BY ONLY <1>1, <1>2, <1>3, <1>4, <1>5, <1>6 DEF Inv, LedgerInv

LEMMA SidecarPartialInv == ASSUME Inv, write_sidecar_partial PROVE Inv'
<1> USE DEF Inv, LedgerInv, write_sidecar_partial, Put
<1>1. TypeOK'
  BY DEF TypeOK, Tree, Places, ProcessInv, Publishable, Final, Partial, Torn
<1>2. PartsInv'
  BY DEF TypeOK, PartsInv
<1>3. IntentsInv'
  BY DEF TypeOK, IntentsInv, ProcessInv, Publishable, NextIndex, Spooled
<1>4. ProcessInv'
  BY DEF TypeOK, Tree, ProcessInv, IntentsInv, Publishable, NextIndex, Spooled, Files, Partial, Torn, Final
<1>5. FilesInv'
  BY DEF TypeOK, Tree, ProcessInv, FilesInv, Publishable, Files, Partial, Torn, Nowhere
<1>6. DurableInv'
  BY DEF TypeOK, Tree, ProcessInv, FilesInv, DurableInv, PublishedDurable, Files, Partial, Torn, Final
<1> QED
  BY ONLY <1>1, <1>2, <1>3, <1>4, <1>5, <1>6 DEF Inv, LedgerInv

LEMMA ReconcileWriteInv == ASSUME Inv, reconcile_write_sidecar PROVE Inv'
<1> USE DEF Inv, LedgerInv, reconcile_write_sidecar, Put
<1>1. TypeOK'
  BY DEF TypeOK, Tree, Places, ProcessInv, Publishable, Final, Partial, Torn
<1>2. PartsInv'
  BY DEF TypeOK, PartsInv
<1>3. IntentsInv'
  BY DEF TypeOK, IntentsInv, ProcessInv, Publishable, NextIndex, Spooled
<1>4. ProcessInv'
  BY DEF TypeOK, Tree, ProcessInv, IntentsInv, Publishable, NextIndex, Spooled, Files, Partial, Torn, Final
<1>5. FilesInv'
  BY DEF TypeOK, Tree, ProcessInv, FilesInv, IntentsInv, Publishable, Files, Partial, Torn, Nowhere
<1>6. DurableInv'
  BY DEF TypeOK, Tree, ProcessInv, FilesInv, DurableInv, PublishedDurable, Files, Partial, Torn, Final
<1> QED
  BY ONLY <1>1, <1>2, <1>3, <1>4, <1>5, <1>6 DEF Inv, LedgerInv

LEMMA RecordIntentInv == ASSUME Inv, record_publication_intent PROVE Inv'
<1> USE DEF Inv, LedgerInv, record_publication_intent
<1>1. TypeOK'
  BY DEF TypeOK, Tree, Places, ProcessInv, Publishable, Final, Partial, Torn
<1>2. PartsInv'
  BY DEF TypeOK, PartsInv
<1>3. IntentsInv'
  BY DEF TypeOK, IntentsInv, ProcessInv, Publishable, NextIndex, Spooled
<1>4. ProcessInv'
  BY DEF TypeOK, Tree, ProcessInv, IntentsInv, Publishable, NextIndex, Spooled, Files, Partial, Torn, Final
<1>5. FilesInv'
  BY DEF TypeOK, Tree, ProcessInv, IntentsInv, FilesInv, Publishable, Files, Partial, Torn, Final
<1>6. DurableInv'
  BY DEF TypeOK, Tree, ProcessInv, FilesInv, DurableInv, PublishedDurable, Files, Partial, Torn, Final
<1> QED
  BY ONLY <1>1, <1>2, <1>3, <1>4, <1>5, <1>6 DEF Inv, LedgerInv

LEMMA RenamePartInv == ASSUME Inv, rename_part PROVE Inv'
<1> USE DEF Inv, LedgerInv, rename_part, Put
<1>1. TypeOK'
  BY DEF TypeOK, Tree, Places, ProcessInv, Publishable, Final, Partial, Torn
<1>2. PartsInv'
  BY DEF TypeOK, PartsInv
<1>3. IntentsInv'
  BY DEF TypeOK, IntentsInv, ProcessInv, Publishable, NextIndex, Spooled
<1>4. ProcessInv'
  BY DEF TypeOK, Tree, ProcessInv, IntentsInv, Publishable, NextIndex, Spooled, Files, Partial, Torn, Final
<1>5. FilesInv'
  BY DEF TypeOK, Tree, ProcessInv, IntentsInv, FilesInv, Publishable, Files, Partial, Torn, Final
<1>6. DurableInv'
  BY DEF TypeOK, Tree, ProcessInv, FilesInv, DurableInv, PublishedDurable, Files, Partial, Torn, Final
<1> QED
  BY ONLY <1>1, <1>2, <1>3, <1>4, <1>5, <1>6 DEF Inv, LedgerInv

LEMMA SyncPartsInv == ASSUME Inv, sync_parts PROVE Inv'
<1> USE DEF Inv, LedgerInv, sync_parts, SyncFinal
<1>1. TypeOK'
  BY DEF TypeOK, Tree, Places, ProcessInv, Publishable, Final, Partial, Torn
<1>2. PartsInv'
  BY DEF TypeOK, PartsInv
<1>3. IntentsInv'
  BY DEF TypeOK, IntentsInv, ProcessInv, Publishable, NextIndex, Spooled
<1>4. ProcessInv'
  BY DEF TypeOK, Tree, ProcessInv, IntentsInv, Publishable, NextIndex, Spooled, Files, Partial, Torn, Final
<1>5. FilesInv'
  BY DEF TypeOK, Tree, ProcessInv, IntentsInv, FilesInv, Publishable, Files, Partial, Torn, Final
<1>6. DurableInv'
  BY DEF TypeOK, Tree, ProcessInv, FilesInv, DurableInv, PublishedDurable, Files, Partial, Torn, Final
<1> QED
  BY ONLY <1>1, <1>2, <1>3, <1>4, <1>5, <1>6 DEF Inv, LedgerInv

LEMMA RenameSidecarInv == ASSUME Inv, rename_sidecar PROVE Inv'
<1> USE DEF Inv, LedgerInv, rename_sidecar, Put
<1>1. TypeOK'
  BY DEF TypeOK, Tree, Places, ProcessInv, Publishable, Final, Partial, Torn
<1>2. PartsInv'
  BY DEF TypeOK, PartsInv
<1>3. IntentsInv'
  BY DEF TypeOK, IntentsInv, ProcessInv, Publishable, NextIndex, Spooled
<1>4. ProcessInv'
  BY DEF TypeOK, Tree, ProcessInv, IntentsInv, Publishable, NextIndex, Spooled, Files, Partial, Torn, Final
<1>5. FilesInv'
  BY DEF TypeOK, Tree, ProcessInv, IntentsInv, FilesInv, Publishable, Files, Partial, Torn, Final
<1>6. DurableInv'
  BY DEF TypeOK, Tree, ProcessInv, FilesInv, DurableInv, PublishedDurable, Files, Partial, Torn, Final
<1> QED
  BY ONLY <1>1, <1>2, <1>3, <1>4, <1>5, <1>6 DEF Inv, LedgerInv

LEMMA SyncManifestsInv == ASSUME Inv, sync_manifests PROVE Inv'
<1> USE DEF Inv, LedgerInv, sync_manifests, SyncFinal
<1>1. TypeOK'
  BY DEF TypeOK, Tree, Places, ProcessInv, Publishable, Final, Partial, Torn
<1>2. PartsInv'
  BY DEF TypeOK, PartsInv
<1>3. IntentsInv'
  BY DEF TypeOK, IntentsInv, ProcessInv, Publishable, NextIndex, Spooled
<1>4. ProcessInv'
  BY DEF TypeOK, Tree, ProcessInv, IntentsInv, Publishable, NextIndex, Spooled, Files, Partial, Torn, Final
<1>5. FilesInv'
  BY DEF TypeOK, Tree, ProcessInv, IntentsInv, FilesInv, Publishable, Files, Partial, Torn, Final
<1>6. DurableInv'
  BY DEF TypeOK, Tree, ProcessInv, FilesInv, DurableInv, PublishedDurable, Files, Partial, Torn, Final
<1> QED
  BY ONLY <1>1, <1>2, <1>3, <1>4, <1>5, <1>6 DEF Inv, LedgerInv

LEMMA InterruptInv == ASSUME Inv, Interrupt PROVE Inv'
<1> USE DEF Inv, LedgerInv, Interrupt
<1>1. TypeOK'
  BY DEF TypeOK, Tree, Places, ProcessInv, Publishable, Final, Partial, Torn
<1>2. PartsInv'
  BY DEF TypeOK, PartsInv
<1>3. IntentsInv'
  BY DEF TypeOK, IntentsInv, ProcessInv, Publishable, NextIndex, Spooled
<1>4. ProcessInv'
  BY DEF TypeOK, Tree, ProcessInv, IntentsInv, Publishable, NextIndex, Spooled, Files, Partial, Torn, Final
<1>5. FilesInv'
  BY DEF TypeOK, Tree, ProcessInv, IntentsInv, FilesInv, Publishable, Files, Partial, Torn, Final
<1>6. DurableInv'
  BY DEF TypeOK, Tree, ProcessInv, FilesInv, DurableInv, PublishedDurable, Files, Partial, Torn, Final
<1> QED
  BY ONLY <1>1, <1>2, <1>3, <1>4, <1>5, <1>6 DEF Inv, LedgerInv

LEMMA ProcessStopInv == ASSUME Inv, ProcessStop PROVE Inv'
<1> USE DEF Inv, LedgerInv, ProcessStop
<1>1. TypeOK'
  BY DEF TypeOK, Tree, Places, ProcessInv, Publishable, Final, Partial, Torn
<1>2. PartsInv'
  BY DEF TypeOK, PartsInv
<1>3. IntentsInv'
  BY DEF TypeOK, IntentsInv, ProcessInv, Publishable, NextIndex, Spooled
<1>4. ProcessInv'
  BY DEF TypeOK, Tree, ProcessInv, IntentsInv, Publishable, NextIndex, Spooled, Files, Partial, Torn, Final
<1>5. FilesInv'
  BY DEF TypeOK, Tree, ProcessInv, IntentsInv, FilesInv, Publishable, Files, Partial, Torn, Final
<1>6. DurableInv'
  BY DEF TypeOK, Tree, ProcessInv, FilesInv, DurableInv, PublishedDurable, Files, Partial, Torn, Final
<1> QED
  BY ONLY <1>1, <1>2, <1>3, <1>4, <1>5, <1>6 DEF Inv, LedgerInv

LEMMA HostStopInv == ASSUME Inv, HostStop PROVE Inv'
<1> USE DEF Inv, LedgerInv, HostStop
<1>1. TypeOK'
  BY DEF TypeOK, Tree, Places, ProcessInv, Publishable, Final, Partial, Torn
<1>2. PartsInv'
  BY DEF TypeOK, PartsInv
<1>3. IntentsInv'
  BY DEF TypeOK, IntentsInv, ProcessInv, Publishable, NextIndex, Spooled
<1>4. ProcessInv'
  BY DEF TypeOK, Tree, ProcessInv, IntentsInv, Publishable, NextIndex, Spooled, Files, Partial, Torn, Final
<1>5. FilesInv'
  BY DEF TypeOK, Tree, ProcessInv, IntentsInv, FilesInv, Publishable, Files, Partial, Torn, Final
<1>6. DurableInv'
  BY DEF TypeOK, Tree, ProcessInv, FilesInv, DurableInv, PublishedDurable, Files, Partial, Torn, Final
<1> QED
  BY ONLY <1>1, <1>2, <1>3, <1>4, <1>5, <1>6 DEF Inv, LedgerInv

LEMMA OpenInv == ASSUME Inv, open_expected PROVE Inv'
<1> USE DEF Inv, LedgerInv, open_expected
<1>1. TypeOK'
  BY DEF TypeOK, Tree, Places, ProcessInv, Publishable, Final, Partial, Torn
<1>2. PartsInv'
  BY DEF TypeOK, PartsInv
<1>3. IntentsInv'
  BY DEF TypeOK, IntentsInv, ProcessInv, Publishable, NextIndex, Spooled
<1>4. ProcessInv'
  BY DEF TypeOK, Tree, ProcessInv, IntentsInv, Publishable, NextIndex, Spooled, Files, Partial, Torn, Final
<1>5. FilesInv'
  BY DEF TypeOK, Tree, ProcessInv, IntentsInv, FilesInv, Publishable, Files, Partial, Torn, Final
<1>6. DurableInv'
  BY DEF TypeOK, Tree, ProcessInv, FilesInv, DurableInv, PublishedDurable, Files, Partial, Torn, Final
<1> QED
  BY ONLY <1>1, <1>2, <1>3, <1>4, <1>5, <1>6 DEF Inv, LedgerInv

LEMMA ReconcileRenameInv == ASSUME Inv, reconcile_rename_sidecar PROVE Inv'
<1> USE DEF Inv, LedgerInv, reconcile_rename_sidecar, Put
<1>1. TypeOK'
  BY DEF TypeOK, Tree, Places, ProcessInv, Publishable, Final, Partial, Torn
<1>2. PartsInv'
  BY DEF TypeOK, PartsInv
<1>3. IntentsInv'
  BY DEF TypeOK, IntentsInv, ProcessInv, Publishable, NextIndex, Spooled
<1>4. ProcessInv'
  BY DEF TypeOK, Tree, ProcessInv, IntentsInv, Publishable, NextIndex, Spooled, Files, Partial, Torn, Final
<1>5. FilesInv'
  BY DEF TypeOK, Tree, ProcessInv, IntentsInv, FilesInv, Publishable, Files, Partial, Torn, Final
<1>6. DurableInv'
  BY DEF TypeOK, Tree, ProcessInv, FilesInv, DurableInv, PublishedDurable, Files, Partial, Torn, Final
<1> QED
  BY ONLY <1>1, <1>2, <1>3, <1>4, <1>5, <1>6 DEF Inv, LedgerInv

LEMMA ReconcileSyncInv == ASSUME Inv, reconcile_sync_manifests PROVE Inv'
<1> USE DEF Inv, LedgerInv, reconcile_sync_manifests, SyncFinal
<1>1. TypeOK'
  BY DEF TypeOK, Tree, Places, ProcessInv, Publishable, Final, Partial, Torn
<1>2. PartsInv'
  BY DEF TypeOK, PartsInv
<1>3. IntentsInv'
  BY DEF TypeOK, IntentsInv, ProcessInv, Publishable, NextIndex, Spooled
<1>4. ProcessInv'
  BY DEF TypeOK, Tree, ProcessInv, IntentsInv, Publishable, NextIndex, Spooled, Files, Partial, Torn, Final
<1>5. FilesInv'
  BY DEF TypeOK, Tree, ProcessInv, IntentsInv, FilesInv, Publishable, Files, Partial, Torn, Final
<1>6. DurableInv'
  BY DEF TypeOK, Tree, ProcessInv, FilesInv, DurableInv, PublishedDurable, Files, Partial, Torn, Final
<1> QED
  BY ONLY <1>1, <1>2, <1>3, <1>4, <1>5, <1>6 DEF Inv, LedgerInv

LEMMA RemovePartialsInv == ASSUME Inv, remove_stale_partials PROVE Inv'
<1> USE DEF Inv, LedgerInv, remove_stale_partials, WithoutPartial
<1>1. TypeOK'
  BY DEF TypeOK, Tree, Places, ProcessInv, Publishable, Final, Partial, Torn
<1>2. PartsInv'
  BY DEF TypeOK, PartsInv
<1>3. IntentsInv'
  BY DEF TypeOK, IntentsInv, ProcessInv, Publishable, NextIndex, Spooled
<1>4. ProcessInv'
  BY DEF TypeOK, Tree, ProcessInv, IntentsInv, Publishable, NextIndex, Spooled, Files, Partial, Torn, Final
<1>5. FilesInv'
  BY DEF TypeOK, Tree, FilesInv, Nowhere
<1>6. DurableInv'
  BY DEF TypeOK, Tree, ProcessInv, FilesInv, DurableInv, PublishedDurable, Files, Partial, Torn, Final
<1> QED
  BY ONLY <1>1, <1>2, <1>3, <1>4, <1>5, <1>6 DEF Inv, LedgerInv

LEMMA ValidateInv == ASSUME Inv, validate_part_store PROVE Inv'
<1> USE DEF Inv, LedgerInv, validate_part_store
<1>1. TypeOK'
  BY DEF TypeOK, Tree, Places, ProcessInv, Publishable, Final, Partial, Torn
<1>2. PartsInv'
  BY DEF TypeOK, PartsInv
<1>3. IntentsInv'
  BY DEF TypeOK, IntentsInv, ProcessInv, Publishable, NextIndex, Spooled
<1>4. ProcessInv'
  BY DEF TypeOK, Tree, ProcessInv, IntentsInv, Publishable, NextIndex, Spooled, Files, Partial, Torn, Final
<1>5. FilesInv'
  BY DEF TypeOK, Tree, ProcessInv, IntentsInv, FilesInv, Publishable, Files, Partial, Torn, Final
<1>6. DurableInv'
  BY DEF TypeOK, Tree, ProcessInv, FilesInv, DurableInv, PublishedDurable, Files, Partial, Torn, Final
<1> QED
  BY ONLY <1>1, <1>2, <1>3, <1>4, <1>5, <1>6 DEF Inv, LedgerInv

LEMMA StageInv == ASSUME NEW keys \in SUBSET Keys, Inv, StagePart(keys) PROVE Inv'
<1> DEFINE file == [index |-> NextIndex, keys |-> keys, attempt |-> attempt]
<1> USE DEF Inv, LedgerInv
<1>1. NextIndex \in Indices
  BY RoomForPart DEF StagePart
<1>2. file \in Files /\ Publishable(file)
  BY <1>1 DEF TypeOK, Files, Publishable, StagePart
<1>3. CASE pc' = "refused" /\ UNCHANGED <<fs, cur, attempt>>
  <2> USE <1>3 DEF StagePart
  <2>1. TypeOK' /\ PartsInv' /\ IntentsInv' /\ ProcessInv'
    BY DEF TypeOK, PartsInv, IntentsInv, ProcessInv
  <2>2. FilesInv' /\ DurableInv'
    BY DEF FilesInv, DurableInv, PublishedDurable
  <2> QED
    BY ONLY <2>1, <2>2 DEF Inv, LedgerInv
<1>4. CASE /\ fs.pst[NextIndex].at # "final" /\ fs.sidecar[NextIndex].at # "final"
           /\ Put("pst", NextIndex, Partial(file))
           /\ cur' = file /\ attempt' = attempt + 1 /\ pc' = "staged"
  <2>1. file.index = NextIndex
    OBVIOUS
  <2> HIDE DEF file
  <2> USE <1>4 DEF StagePart, Put
  <2>2. TypeOK'
    BY <1>1, <1>2 DEF TypeOK, Tree, Places, Partial, Torn
  <2>3. PartsInv' /\ IntentsInv'
    BY DEF PartsInv, IntentsInv
  <2>4. ProcessInv'
    BY <1>1, <1>2, <2>1 DEF TypeOK, Tree, ProcessInv, Publishable, NextIndex, Spooled, Partial
  <2>5. FilesInv'
    BY <1>1 DEF TypeOK, Tree, FilesInv, Partial
  <2>6. DurableInv'
    <3>1. \A f \in parts : f.index # NextIndex
      BY <1>2, <2>1, PublishableIsNew
    <3> QED
      BY <1>1, <3>1 DEF TypeOK, Tree, Files, DurableInv, PublishedDurable, Partial
  <2> QED
    BY ONLY <2>2, <2>3, <2>4, <2>5, <2>6 DEF Inv, LedgerInv
<1> QED
  BY <1>3, <1>4 DEF StagePart

\* The transaction that the two ways of publishing share.
LEMMA CommitInv ==
  ASSUME Inv, pc \in {"sidecar_synced", "sidecar_durable"}, CommitPart(cur),
         pc' \in {"idle", "reconcile"}, cur' = NoFile, UNCHANGED <<files, opening, attempt, counters>>
  PROVE  Inv'
<1> USE DEF Inv, LedgerInv, CommitPart
<1>1. intents = {cur} /\ Publishable(cur) /\ cur \in Files
  BY DEF IntentsInv, ProcessInv, Publishable
<1>2. cur \notin parts /\ \A g \in parts : g.index # cur.index /\ g.keys \cap cur.keys = {}
  BY <1>1, PublishableIsNew
<1>3. /\ IsFiniteSet(parts') /\ Cardinality(parts') = Cardinality(parts) + 1
      /\ Cardinality(parts) \in Nat
  BY <1>2, FS_AddElement, FS_CardinalityType DEF PartsInv
<1>4. TypeOK'
  BY <1>1 DEF TypeOK
<1>5. PartsInv'
  <2>1. ASSUME NEW f \in parts'
        PROVE  /\ f.index <= Cardinality(parts') /\ f.keys # {}
               /\ \A k \in f.keys : status'[k] = "written"
    <3>1. f.keys \subseteq Keys /\ f.index \in Int
      BY <1>4 DEF TypeOK, Files, Indices
    <3>2. CASE f = cur
      BY <1>1, <1>3, <3>1, <3>2 DEF Publishable, NextIndex
    <3>3. CASE f \in parts
      BY <1>3, <3>1, <3>3 DEF PartsInv
    <3> QED
      BY <3>2, <3>3
  <2>2. \A f, g \in parts' : f # g => f.index # g.index /\ f.keys \cap g.keys = {}
    BY <1>2 DEF PartsInv
  <2> QED
    BY ONLY <1>3, <2>1, <2>2 DEF PartsInv
<1>6. intents' = {}
  BY <1>1
<1>7. IntentsInv' /\ ProcessInv'
  BY <1>6 DEF IntentsInv, ProcessInv
<1>8. FilesInv'
  <2>1. parts' \cup intents' = parts \cup intents
    BY <1>1, <1>6
  <2> QED
    BY <2>1 DEF FilesInv
<1>9. DurableInv'
  <2>1. SUFFICES ASSUME stops = 0 PROVE DurableInv'
    BY DEF DurableInv
  <2>2. /\ fs.pst[cur.index] = Final(cur) /\ disk.pst[cur.index] = Final(cur)
        /\ fs.sidecar[cur.index] = Final(cur) /\ disk.sidecar[cur.index] = Final(cur)
    BY <1>1, <2>1 DEF ProcessInv, DurableInv, Files, Final
  <2> QED
    BY <2>1, <2>2 DEF DurableInv, PublishedDurable
<1> QED
  BY ONLY <1>4, <1>5, <1>7, <1>8, <1>9 DEF Inv, LedgerInv

\* The transaction finds the intent and the items as it expects them.
LEMMA CommitIsPossible ==
  ASSUME Inv, pc \in Intended
  PROVE  Committable(cur)
  BY DEF Inv, LedgerInv, IntentsInv, ProcessInv, Publishable, Committable

\* reconcile_publications, for every intent it may find.
LEMMA ReconcileInv == ASSUME Inv, reconcile_publications PROVE Inv'
<1> USE DEF Inv, LedgerInv
<1>1. CASE pc' \in {"clean", "down", "refused"} /\ UNCHANGED <<intents, fs, cur>>
           /\ (pc' = "clean" => intents = {})
  <2> USE <1>1 DEF reconcile_publications
  <2>1. TypeOK' /\ PartsInv' /\ IntentsInv' /\ ProcessInv'
    BY DEF TypeOK, PartsInv, IntentsInv, ProcessInv, Publishable, NextIndex, Spooled
  <2>2. FilesInv' /\ DurableInv'
    BY DEF FilesInv, DurableInv, PublishedDurable
  <2> QED
    BY ONLY <2>1, <2>2 DEF Inv, LedgerInv
<1>2. ASSUME NEW f \in intents, withdraw_intent(f) PROVE Inv'
  <2> USE <1>2 DEF reconcile_publications, withdraw_intent, WithdrawnIntents
  <2>1. TypeOK' /\ PartsInv' /\ IntentsInv' /\ ProcessInv'
    BY DEF TypeOK, PartsInv, IntentsInv, ProcessInv, Publishable, NextIndex, Spooled
  <2>2. FilesInv'
    <3>1. f.index \in Indices
      BY DEF TypeOK, Files
    <3>2. fs.pst[f.index].at # "final" /\ disk.pst[f.index].at # "final"
      BY <3>1 DEF FilesInv
    <3>3. ASSUME NEW i \in Indices, NEW places \in {fs.pst, disk.pst}, places[i].at = "final"
          PROVE  places[i].file # f
      BY <3>2, <3>3 DEF FilesInv
    <3> QED
      BY <3>3 DEF FilesInv
  <2>3. DurableInv'
    BY DEF DurableInv, PublishedDurable
  <2> QED
    BY ONLY <2>1, <2>2, <2>3 DEF Inv, LedgerInv
<1>3. ASSUME NEW f \in intents, ~Contradictory(f), resume_intent(f) PROVE Inv'
  <2>1. f \in Files /\ f.index \in Indices /\ Publishable(f) /\ intents = {f}
    BY DEF TypeOK, Files, IntentsInv
  <2>2. fs.pst[f.index] = Final(f)
    <3>1. fs.pst[f.index].at = "final" /\ fs.pst[f.index].file = f
      BY <1>3 DEF resume_intent, Contradictory
    <3>2. fs.pst[f.index] \in Places
      BY <2>1 DEF TypeOK, Tree
    <3> QED
      BY <3>1, <3>2 DEF Places, Nowhere, Final
  <2>3. fs.sidecar[f.index] = Final(f) \/ fs.sidecar[f.index].at # "final"
    <3>1. fs.sidecar[f.index].file \in {f, NoFile}
      BY <1>3 DEF resume_intent, Contradictory
    <3>2. fs.sidecar[f.index] \in Places
      BY <2>1 DEF TypeOK, Tree
    <3>3. NoFile \notin Files
      BY NoFileAssumption DEF Files, Indices
    <3> QED
      BY <3>1, <3>2, <3>3 DEF Places, Nowhere, Final
  <2> USE <1>3 DEF reconcile_publications, resume_intent, Put
  <2>4. TypeOK'
    BY <2>1 DEF TypeOK, Tree, Places, Partial, Torn
  <2>5. PartsInv' /\ IntentsInv'
    BY DEF PartsInv, IntentsInv, Publishable, NextIndex, Spooled
  <2>6. ProcessInv'
    BY <2>1, <2>2, <2>3 DEF TypeOK, Tree, ProcessInv, Partial, Torn
  <2>7. FilesInv'
    <3>1. CASE fs' = fs
      BY <3>1 DEF FilesInv
    <3>2. CASE fs.sidecar[f.index] = Nowhere
      <4>1. disk.sidecar[f.index].at # "final"
        BY <2>1, <3>2 DEF FilesInv, Nowhere
      <4> QED
        BY <2>1, <3>2, <4>1 DEF TypeOK, Tree, FilesInv, Torn, Nowhere
    <3> QED
      BY <3>1, <3>2
  <2>8. DurableInv'
    <3>1. \A g \in parts : g.index # f.index
      BY <2>1, PublishableIsNew
    <3> QED
      BY <2>1, <2>2, <2>3, <3>1
      DEF TypeOK, Tree, Files, DurableInv, PublishedDurable, Partial, Torn, Final
  <2> QED
    BY ONLY <2>4, <2>5, <2>6, <2>7, <2>8 DEF Inv, LedgerInv
<1> QED
  BY <1>1, <1>2, <1>3 DEF reconcile_publications, AfterReconcile

LEMMA StutterInv == ASSUME Inv, UNCHANGED vars PROVE Inv'
<1>1. TypeOK' /\ LedgerInv' /\ ProcessInv'
  BY DEF vars, Inv, TypeOK, LedgerInv, PartsInv, IntentsInv, ProcessInv, Publishable, NextIndex,
         Spooled
<1>2. FilesInv' /\ DurableInv'
  BY DEF vars, Inv, FilesInv, DurableInv, PublishedDurable
<1> QED
  BY <1>1, <1>2 DEF Inv

LEMMA NextInv == Inv /\ [Next]_vars => Inv'
<1> SUFFICES ASSUME Inv, [Next]_vars PROVE Inv'
  OBVIOUS
<1>1. CASE Publishing
  BY <1>1, StageInv, CreateSidecarInv, SidecarPartialInv, RecordIntentInv, RenamePartInv, SyncPartsInv,
     RenameSidecarInv, SyncManifestsInv, CommitInv, CommitIsPossible
  DEF Publishing, commit_published_part_transaction
<1>2. CASE Opening
  BY <1>2, OpenInv, ReconcileInv, ReconcileWriteInv, ReconcileRenameInv, ReconcileSyncInv, CommitInv,
     CommitIsPossible, RemovePartialsInv, ValidateInv
  DEF Opening, reconcile_commit
<1> QED
  BY <1>1, <1>2, RejectInv, InterruptInv, ProcessStopInv, HostStopInv, StutterInv
  DEF Next, Finished

\* The ledger, the step under way, the files and what is durable agree in every
\* reachable state, also between a stop and the reconciliation after it.
THEOREM PublicationInvariant == Spec => []Inv
  BY InitInv, NextInv, PTL DEF Spec

(***************************************************************************)
(* Every PST in the output directory, and every one a host stop can bring  *)
(* back there, is a published part or the intended one, and no item is in  *)
(* two of them, whatever is interrupted.                                   *)
(***************************************************************************)
THEOREM OutputAlwaysAccountedFor == Spec => []OutputAccountedFor
<1>1. Inv => OutputAccountedFor
  <2> SUFFICES ASSUME Inv PROVE OutputAccountedFor
    OBVIOUS
  <2> USE DEF Inv, LedgerInv
  <2>1. \A f \in intents : \A g \in parts : g.keys \cap f.keys = {}
    BY PublishableIsNew DEF IntentsInv
  <2>2. \A f, g \in parts \cup intents : f # g => f.keys \cap g.keys = {}
    BY <2>1 DEF PartsInv, IntentsInv
  <2>3. ASSUME NEW i \in Indices, fs.pst[i].at = "final"
        PROVE  fs.pst[i].file.index = i /\ fs.pst[i].file \in parts \cup intents
    BY <2>3 DEF FilesInv
  <2>4. pc = "idle" => intents = {}
    BY DEF IntentsInv
  <2> QED
    BY <2>2, <2>3, <2>4 DEF OutputAccountedFor, FilesInv, PartsInv
<1> QED
  BY PublicationInvariant, <1>1, PTL

(***************************************************************************)
(* As long as no process was stopped, a host stop takes no published part  *)
(* and no sidecar of one away.                                             *)
(***************************************************************************)
THEOREM DurableInOneRun == Spec => []PublishedDurableInOneRun
<1>1. Inv => PublishedDurableInOneRun
  BY DEF Inv, DurableInv, PublishedDurableInOneRun
<1> QED
  BY PublicationInvariant, <1>1, PTL

-----------------------------------------------------------------------------
(* The refinement of PublishedParts.                                       *)

published == {f.keys : f \in parts}

\* A commit publishes a new, disjoint set of items.
LEMMA CommitPublishes ==
  ASSUME Inv, pc \in Intended, CommitPart(cur)
  PROVE  Ledger!Publish
<1>1. intents = {cur} /\ Publishable(cur)
  BY DEF Inv, LedgerInv, IntentsInv, ProcessInv
<1>2. cur.keys \in (SUBSET Keys) \ {{}}
  BY <1>1 DEF Publishable, Files
<1>3. \A g \in parts : g.keys \cap cur.keys = {}
  BY <1>1, PublishableIsNew DEF Inv, LedgerInv
<1>4. published' = published \cup {cur.keys}
  BY DEF CommitPart, published
<1> QED
  BY <1>2, <1>3, <1>4 DEF Ledger!Publish, published

(***************************************************************************)
(* The ledger only ever adds parts, each with at least one item and none   *)
(* with an item of another.                                                *)
(***************************************************************************)
THEOREM LedgerRefines == Spec => LedgerPublishesOnce
<1>1. Init => Ledger!Init
  BY DEF Init, Ledger!Init
<1>2. ASSUME Inv, [Next]_vars PROVE [Ledger!Publish]_published
  <2>1. CASE commit_published_part_transaction
    BY <1>2, <2>1, CommitPublishes DEF commit_published_part_transaction, published
  <2>2. CASE reconcile_commit
    BY <1>2, <2>2, CommitPublishes DEF reconcile_commit, published
  <2>3. CASE UNCHANGED parts
    BY <2>3 DEF published
  <2> QED
    BY <1>2, <2>1, <2>2, <2>3
    DEF Next, Publishing, Opening, Finished, vars, StagePart, create_sidecar_partial, write_sidecar_partial,
        record_publication_intent, rename_part, sync_parts, rename_sidecar, sync_manifests,
        open_expected, reconcile_publications, reconcile_write_sidecar, reconcile_rename_sidecar,
        reconcile_sync_manifests, remove_stale_partials, validate_part_store,
        mark_candidate_rejections, Interrupt, ProcessStop, HostStop
<1>3. [Ledger!Publish]_published <=> [Ledger!Publish]_({f.keys : f \in parts})
  BY DEF published
<1> QED
  BY PublicationInvariant, <1>1, <1>2, <1>3, PTL DEF Spec, LedgerPublishesOnce, Ledger!Spec
=============================================================================
