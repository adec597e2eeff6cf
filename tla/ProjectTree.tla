----------------------------- MODULE ProjectTree -----------------------------
(***************************************************************************)
(* A project directory as the automatic file sync of harmony-mcp sees it   *)
(* (crates/harmony-mcp/src/file_sync.rs): which paths exist, as a file or a*)
(* folder, the bytes of a file, and the signature (modification time and   *)
(* size) by which a scan tells one version of a file from another.         *)
(*                                                                         *)
(* Pure operators only: the scan, the comparison of two scans and the      *)
(* effect of a file operation on the tree.                                 *)
(***************************************************************************)
EXTENDS Naturals

CONSTANTS
  NumPaths,    \* how many relative paths the project may use
  Ancestors,   \* for every path, the folders it lies in
  Contents,    \* the bytes a file may hold
  Oversized    \* those longer than max_sync_file_bytes

(* Paths are numbered in the order of the BTreeMap that holds them. A      *)
(* folder is a proper prefix of what lies in it, so it is numbered first.  *)
Paths == 1 .. NumPaths

ASSUME TreeAssumption ==
  /\ NumPaths \in Nat
  /\ Ancestors \in [Paths -> SUBSET Paths]
  /\ \A p \in Paths : \A a \in Ancestors[p] :
       /\ a < p
       /\ Ancestors[a] \subseteq Ancestors[p]
  /\ Oversized \subseteq Contents
  /\ "" \notin Contents

Below(p) == {q \in Paths : p \in Ancestors[q]}

-----------------------------------------------------------------------------
(* A signature is only ever compared for equality, so a handful of stamps  *)
(* is enough to tell apart the versions that are still remembered.         *)
Stamps == 1 .. 5

Kinds == {"Absent", "File", "Directory"}

NoContent == ""

Node == [kind : Kinds, content : Contents \cup {NoContent}, stamp : Stamps \cup {0}]

Absent == [kind |-> "Absent", content |-> NoContent, stamp |-> 0]
Folder == [kind |-> "Directory", content |-> NoContent, stamp |-> 0]
FileOf(content, stamp) == [kind |-> "File", content |-> content, stamp |-> stamp]

(* LocalEntryState. The code also keeps a folder's modification time; no   *)
(* comparison depends on it, so a folder has stamp 0 here.                 *)
Entry == [kind : Kinds, stamp : Stamps \cup {0}]
NoEntry == [kind |-> "Absent", stamp |-> 0]
EntryOf(node) == [kind |-> node.kind, stamp |-> node.stamp]

(* A tree in which whatever exists lies in folders that exist.             *)
IsTree(tree) ==
  \A p \in Paths : tree[p].kind # "Absent" =>
    \A a \in Ancestors[p] : tree[a].kind = "Directory"

EmptyTree == [p \in Paths |-> Absent]
NoEntries == [p \in Paths |-> NoEntry]

(* What a reader of the project sees: signatures are left out.             *)
View(tree) == [p \in Paths |-> <<tree[p].kind, tree[p].content>>]

-----------------------------------------------------------------------------
(* collect_project_entries: every path that exists, with its signature.    *)
ScanOf(tree) == [p \in Paths |-> EntryOf(tree[p])]

(* build_local_events, before contents are read: what changed between the  *)
(* entries kept from the last cycle and the scan of this one. A path whose *)
(* kind changed is deleted under its old kind and created under its new.   *)
LocalChanges(old, new, origin) ==
  LET Change(p, what, kind) ==
        [path |-> p, change |-> what, entry |-> kind,
         content |-> NoContent, origin |-> origin]
      gone    == {p \in Paths : old[p].kind # "Absent" /\ new[p].kind # old[p].kind}
      arrived == {p \in Paths : new[p].kind # "Absent" /\ new[p].kind # old[p].kind}
      edited  == {p \in Paths : /\ old[p].kind = "File" /\ new[p].kind = "File"
                                /\ old[p].stamp # new[p].stamp}
  IN    {Change(p, "Deleted", old[p].kind) : p \in gone}
   \cup {Change(p, "Created", new[p].kind) : p \in arrived}
   \cup {Change(p, "Updated", "File") : p \in edited}

(* Variant: the creations first. *)
CreationsFirst(c, d) ==
  IF (c.change = "Deleted") = (d.change = "Deleted") THEN c.path < d.path
                                                     ELSE d.change = "Deleted"

(* The order of the list that function returns: by path, and the deletion  *)
(* of a path before its creation.                                          *)
Before(c, d) ==
  \/ c.path < d.path
  \/ c.path = d.path /\ c.change = "Deleted"

-----------------------------------------------------------------------------
(* File operations. fs::create_dir_all stops at a file standing where a    *)
(* folder is needed; fs::write cannot replace a folder.                    *)
CanHold(tree, p) == \A a \in Ancestors[p] : tree[a].kind # "File"

CanMakeFolder(tree, p) == CanHold(tree, p) /\ tree[p].kind # "File"
CanWriteFile(tree, p)  == CanHold(tree, p) /\ tree[p].kind # "Directory"

WithFolders(tree, ps) ==
  [q \in Paths |-> IF q \in ps /\ tree[q].kind = "Absent" THEN Folder ELSE tree[q]]

WithFile(tree, p, content, stamp) ==
  [WithFolders(tree, Ancestors[p]) EXCEPT ![p] = FileOf(content, stamp)]

Without(f, ps, nothing) == [q \in Paths |-> IF q \in ps THEN nothing ELSE f[q]]

(* Variant: only the folder itself goes. *)
AfterShallowDeletion(tree, p, kind) ==
  IF tree[p].kind # kind THEN tree ELSE Without(tree, {p}, Absent)

(* What a remote deletion removes: a file alone, a folder with all it      *)
(* holds; the wrong kind at that path is left alone (the error is dropped).*)
AfterDeletion(tree, p, kind) ==
  IF tree[p].kind # kind THEN tree
  ELSE Without(tree, {p} \cup (IF kind = "Directory" THEN Below(p) ELSE {}), Absent)
=============================================================================
