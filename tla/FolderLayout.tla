---------------------------- MODULE FolderLayout ----------------------------
(***************************************************************************)
(* Where mail goes: the folder list read back from the job and the folder  *)
(* of each message (pstforge-core/src/canonical.rs), computed by separate  *)
(* code, and the layout that the split gives the writer.                   *)
(*                                                                         *)
(* An address is the sequence of child indexes from the root folder.  A    *)
(* name is a pair: a text and the identifier appended to a generated text. *)
(***************************************************************************)
EXTENDS Integers, Sequences, FiniteSets

CONSTANTS None,             \* an absent name, class or identifier
          MaxFolderDepth    \* the deepest folder that the catalog visits

NidIpmSubtree   == \h8022
NidDeletedItems == \h8062
NidSearchRoot   == \h8042

Root == <<>>
ParentOf(address) == SubSeq(address, 1, Len(address) - 1)
IsChildOf(address, other) == address # Root /\ ParentOf(address) = other
Ancestors(address) == {SubSeq(address, 1, k) : k \in 0..Len(address)}

FolderName(f) ==
  IF f.name \in {None, ""} THEN <<"Recovered Folder", f.id>> ELSE <<f.name, 0>>

\* Folder rows are a set: addresses are unique, identifiers need not be.
At(folders, address) == {f \in folders : f.address = address}

\* Addresses of one depth in the order of their indexes.
Before(a, b) ==
  \E k \in DOMAIN a : a[k] < b[k] /\ \A j \in 1..(k - 1) : a[j] = b[j]
First(addresses) ==
  IF addresses = {} THEN None
  ELSE CHOOSE a \in addresses : \A b \in addresses \ {a} : Before(a, b)

(***************************************************************************)
(* load_canonical_folders.                                                 *)
(***************************************************************************)
IpmAddresses(folders) ==
  {f.address : f \in {g \in folders : g.id = NidIpmSubtree /\ IsChildOf(g.address, Root)}}

DeletedItemsAddress(folders) ==
  First({f.address : f \in {g \in folders :
           g.id = NidDeletedItems /\ \E a \in IpmAddresses(folders) : IsChildOf(g.address, a)}})

\* Where the walk up from a folder stops: an IPM subtree, or else the root.
StopAbove(folders, f) ==
  LET stops == Ancestors(f.address) \cap ({Root} \cup IpmAddresses(folders))
  IN CHOOSE a \in stops : \A b \in stops : Len(b) <= Len(a)

\* InvalidFolderHierarchy: the walk up is too long or meets an unknown folder.
FoldersLoad(folders) ==
  \A f \in folders :
    LET below == {a \in Ancestors(f.address) : Len(a) > Len(StopAbove(folders, f))}
    IN Cardinality(below) <= MaxFolderDepth /\ \A a \in below : At(folders, a) # {}

\* The names from below the stop down to the folder.
ListedPath(folders, f) ==
  LET top == StopAbove(folders, f)
  IN [location |-> IF top = Root THEN "StoreRoot" ELSE "IpmSubtree",
      path |-> [k \in 1..(Len(f.address) - Len(top)) |->
                  FolderName(CHOOSE g \in folders :
                               g.address = SubSeq(f.address, 1, Len(top) + k))]]

Listed(folders, f) ==
  /\ f.address \notin IpmAddresses(folders)
  /\ ListedPath(folders, f).path # <<>>
  /\ ListedPath(folders, f).location = "StoreRoot" =>
       f.id % 32 = 2 /\ f.id # NidSearchRoot

FolderKey(at) == <<at.location, at.path>>

\* Folders with one path have one depth; Deleted Items stays, or else the first.
load_canonical_folders(folders) ==
  LET listed  == {f \in folders : Listed(folders, f)}
      key(f)  == FolderKey(ListedPath(folders, f))
      role(f) == IF f.address = DeletedItemsAddress(folders) THEN "DeletedItems" ELSE "Ordinary"
      winner(k) == LET same == {f \in listed : key(f) = k}
                   IN IF \E f \in same : role(f) = "DeletedItems"
                      THEN CHOOSE f \in same : role(f) = "DeletedItems"
                      ELSE CHOOSE f \in same : \A g \in same \ {f} : Before(f.address, g.address)
  IN [k \in {key(f) : f \in listed} |->
        [class |-> winner(k).class, role |-> role(winner(k))]]

(***************************************************************************)
(* The folder of a message.  unit is the address of the folder it was      *)
(* found in, None for recovered and orphan items: the catalog gives those  *)
(* no folder identifier either.                                            *)
(***************************************************************************)
\* Mutant: the name of the IPM subtree becomes part of the path.
VisibleUnlessRoot(address, id) == address # Root

is_visible_mail_folder(address, id) ==
  address # Root /\ ~(id = NidIpmSubtree /\ IsChildOf(address, Root))

Unfiled(provenance) ==
  CASE provenance = "normal"    -> <<"Unfiled Mail", 0>>
    [] provenance = "recovered" -> <<"Recovered Mail", 0>>
    [] provenance = "orphan"    -> <<"Orphan Mail", 0>>
    [] OTHER                    -> <<"Fragment Mail", 0>>

nonempty_folder_path(path, provenance) ==
  IF path = <<>> THEN <<Unfiled(provenance)>> ELSE path

\* The components from the root down, the invisible ones left out.
AddressPath(folders, address) ==
  LET component(a) ==
        CASE At(folders, a) # {} ->
               LET f == CHOOSE g \in At(folders, a) : TRUE
               IN IF is_visible_mail_folder(a, f.id) THEN <<FolderName(f)>> ELSE <<>>
          [] a # Root /\ At(folders, a) = {} -> <<<<"Recovered Folder", 0>>>>
          [] OTHER -> <<>>
      down[k \in 0..Len(address)] ==
        (IF k = 0 THEN <<>> ELSE down[k - 1]) \o component(SubSeq(address, 1, k))
  IN down[Len(address)]

\* The walk up counts a component against the bound before it looks at the root.
PathTooDeep(folders, address) == Len(AddressPath(folders, address)) >= MaxFolderDepth

candidate_folder_path(folders, m) ==
  IF m.unit = None THEN <<Unfiled(m.provenance)>>
  ELSE nonempty_folder_path(AddressPath(folders, m.unit), m.provenance)

candidate_folder_location(folders, m) ==
  IF \/ m.unit \in {None, Root}
     \/ \E a \in Ancestors(m.unit) \ {Root} :
          \E f \in At(folders, a) : f.id = NidIpmSubtree
  THEN "IpmSubtree" ELSE "StoreRoot"

\* Both sides are None for mail without a folder in a store without Deleted Items.
candidate_folder_role(folders, m) ==
  IF m.unit = DeletedItemsAddress(folders)
  THEN "DeletedItems" ELSE "Ordinary"

MessageFolder(folders, m) ==
  <<candidate_folder_location(folders, m), candidate_folder_path(folders, m)>>

(***************************************************************************)
(* The writer's view of a layout, a function from folder keys.             *)
(***************************************************************************)
LongName == "too long"     \* a name that validate_unicode refuses

FolderAccepted(key, folder) ==
  /\ key[2] # <<>>
  /\ \A k \in DOMAIN key[2] : key[2][k][1] # LongName
  /\ folder.role = "DeletedItems" => key[1] = "IpmSubtree" /\ Len(key[2]) = 1

plan_folders(layout) ==
  /\ \A key \in DOMAIN layout : FolderAccepted(key, layout[key])
  /\ Cardinality({key \in DOMAIN layout : layout[key].role = "DeletedItems"}) <= 1

Only(layout, keys) == [key \in keys |-> layout[key]]

Earlier(x, y) == IF x.associated = y.associated THEN x.key < y.key ELSE y.associated

\* Source folders first, then the folders that only messages name, each tried alone.
LayoutOf(listed, messages) ==
  LET kept == {key \in DOMAIN listed : FolderAccepted(key, listed[key])}
      named == {m \in messages : m.folder \notin kept /\ FolderAccepted(m.folder, m)}
      recovered(key) == LET here == {x \in named : x.folder = key}
                            m == CHOOSE x \in here : \A y \in here \ {x} : Earlier(x, y)
                        IN [class |-> m.container, role |-> m.role]
  IN [key \in kept \cup {m.folder : m \in named} |->
        IF key \in kept THEN listed[key] ELSE recovered(key)]

StartsWith(path, prefix) ==
  Len(prefix) <= Len(path) /\ SubSeq(path, 1, Len(prefix)) = prefix

source_folders_for_mail(layout, folder) ==
  Only(layout, {key \in DOMAIN layout : key[1] = folder[1] /\ StartsWith(folder[2], key[2])})
=============================================================================
