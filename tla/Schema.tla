-------------------------------- MODULE Schema --------------------------------
(***************************************************************************)
(* The migrations of the memory store (crates/harmony-memory/src/schema.rs)*)
(* as the statements each one's script consists of. A statement makes one  *)
(* object, a table, an index or a column, of a table. CREATE ... IF NOT    *)
(* EXISTS passes over an object that is there; ALTER TABLE ADD COLUMN can  *)
(* be executed once only: SQLite refuses a duplicate column.               *)
(***************************************************************************)
EXTENDS Sequences

CreateTable(t) == [object |-> t, table |-> t, once |-> FALSE]
CreateIndex(i, t) == [object |-> i, table |-> t, once |-> FALSE]
AddColumn(t, c) == [object |-> c, table |-> t, once |-> TRUE]

V001_INIT ==
  << CreateTable("agents"),
     CreateTable("provenance_tags"),
     CreateIndex("idx_prov_file", "provenance_tags"),
     CreateIndex("idx_prov_actor", "provenance_tags"),
     CreateIndex("idx_prov_ts", "provenance_tags") >>

V002_SHADOW_DIFFS ==
  << CreateTable("shadow_diffs"),
     CreateIndex("idx_shadow_agent", "shadow_diffs"),
     CreateIndex("idx_shadow_file", "shadow_diffs"),
     CreateIndex("idx_shadow_status", "shadow_diffs") >>

V003_MEMORY_RECORDS ==
  << CreateTable("memory_records"),
     CreateIndex("idx_mem_namespace", "memory_records") >>

V004_OVERLAP_EVENTS ==
  << CreateTable("overlap_events"),
     CreateIndex("idx_overlap_status", "overlap_events"),
     CreateIndex("idx_overlap_file", "overlap_events") >>

V005_TASKS == << CreateTable("tasks") >>

V006_MACHINE_IDENTITY ==
  << AddColumn("provenance_tags", "provenance_tags.machine_name"),
     AddColumn("provenance_tags", "provenance_tags.machine_ip"),
     AddColumn("agents", "agents.machine_name"),
     AddColumn("agents", "agents.machine_ip"),
     CreateIndex("idx_prov_machine", "provenance_tags"),
     CreateIndex("idx_agents_machine", "agents") >>

V007_FILE_SYNC_EVENTS ==
  << CreateTable("file_sync_events"),
     CreateIndex("idx_sync_seq", "file_sync_events"),
     CreateIndex("idx_sync_path", "file_sync_events"),
     CreateIndex("idx_sync_detected_at", "file_sync_events") >>

MIGRATIONS ==
  << V001_INIT, V002_SHADOW_DIFFS, V003_MEMORY_RECORDS, V004_OVERLAP_EVENTS,
     V005_TASKS, V006_MACHINE_IDENTITY, V007_FILE_SYNC_EVENTS >>

=============================================================================
