--------------------------- MODULE SnapshotSchema ---------------------------
(***************************************************************************)
(* The database schema as three hand-written lists of internal/store see   *)
(* it: the migrations that build it (store.go, migration_v3.go to          *)
(* migration_v14.go), the columns a backup of a version must have          *)
(* (verifySnapshotSchema) and the statements that turn today's schema back  *)
(* into that of a version (downgradeSnapshotSchemaReference).               *)
(*                                                                         *)
(* A schema is a set of pairs <<table, part>>: the columns the table was    *)
(* created with are part "created", a group of columns, a named index or a  *)
(* constraint added later is a part of its own.                             *)
(***************************************************************************)
EXTENDS Integers

Current == 14   \* schemaVersion

Tables(names) == {<<t, "created">> : t \in names}

-----------------------------------------------------------------------------
(* The migrations. *)

Base == Tables({"schema_migrations", "events", "traffic_hourly", "auth_hourly", "auth_cardinality_hourly",
                "traffic_cardinality_hourly", "interface_hourly", "collector_health_hourly",
                "notification_outbox", "report_runs", "component_status"})

MigrateV2(s) == s \cup {<<"collector_health_hourly", "ipc">>}

MigrateV3(s) ==
    s \cup Tables({"notification_cooldowns", "notification_counters", "report_snapshots", "coverage_intervals",
                   "coverage_gaps", "collector_checkpoints", "journal_seen"})
      \cup {<<"notification_outbox", "quarantine">>, <<"coverage_intervals", "period_idx">>,
            <<"coverage_intervals", "open_idx">>, <<"journal_seen", "received_idx">>}

MigrateV4(s) ==
    s \cup Tables({"event_notifications", "notification_silences", "interface_detail_hourly"})
      \cup {<<"events", "incident_idx">>, <<"events", "source_time_idx">>, <<"event_notifications", "message_idx">>,
            <<"event_notifications", "one_per_event">>, <<"notification_outbox", "merging">>,
            <<"notification_outbox", "incident_idx">>}

MigrateV5(s) == s \cup {<<"report_snapshots", "billing_json">>}
MigrateV6(s) == s \cup Tables({"monitor_state", "retention_meta", "retention_ledger", "retention_totals"})
MigrateV7(s) == s \cup Tables({"journal_recovery"})
MigrateV8(s) == s \cup Tables({"notification_targets"}) \cup {<<"notification_outbox", "channel">>}
MigrateV9(s) == s \cup {<<"report_snapshots", "document_json">>}
MigrateV10(s) == s \cup Tables({"sensor_watermarks", "sensor_commit_state"})

\* The table is rebuilt: one decision per event and channel, with a check on
\* the channel's name that two later migrations widen.
Channels(s, names) ==
    {p \in s : p[1] # "event_notifications"}
      \cup Tables({"event_notifications"})
      \cup {<<"event_notifications", "message_idx">>, <<"event_notifications", "channel">>, <<"event_notifications", names>>}

MigrateV11(s) == Channels(s, "telegram, webhook")
MigrateV12(s) == s \cup {<<"notification_outbox", "presentation">>}

MigrateV13(s) == Channels(s \cup {<<"notification_targets", "activated_at">>}, "native")

MigrateV14(s) ==
    Channels(s, "official")
      \cup Tables({"notification_dispatch", "official_channel_policy", "official_budget_usage"})
      \cup {<<"notification_dispatch", "poll_idx">>}

\* migrate: every step above the version the database has.
Step(s, v) ==
    CASE v = 1 -> s \cup Base [] v = 2 -> MigrateV2(s) [] v = 3 -> MigrateV3(s) [] v = 4 -> MigrateV4(s)
      [] v = 5 -> MigrateV5(s) [] v = 6 -> MigrateV6(s) [] v = 7 -> MigrateV7(s) [] v = 8 -> MigrateV8(s)
      [] v = 9 -> MigrateV9(s) [] v = 10 -> MigrateV10(s) [] v = 11 -> MigrateV11(s)
      [] v = 12 -> MigrateV12(s) [] v = 13 -> MigrateV13(s) [] v = 14 -> MigrateV14(s)

\* What the release of each version left behind.
SchemaOf[v \in 0..Current] == IF v = 0 THEN {} ELSE Step(SchemaOf[v - 1], v)

-----------------------------------------------------------------------------
(* verifySnapshotSchema's table of columns, by version. *)

ListedFrom ==
    [v \in 1..Current |->
       CASE v = 1 -> Base
         [] v = 2 -> {<<"collector_health_hourly", "ipc">>}
         [] v = 3 -> Tables({"notification_cooldowns", "notification_counters", "report_snapshots",
                             "coverage_intervals", "coverage_gaps", "collector_checkpoints", "journal_seen"})
                       \cup {<<"notification_outbox", "quarantine">>}
         [] v = 4 -> Tables({"event_notifications", "notification_silences", "interface_detail_hourly"})
                       \cup {<<"notification_outbox", "merging">>}
         [] v = 5 -> {<<"report_snapshots", "billing_json">>}
         [] v = 6 -> Tables({"monitor_state", "retention_meta", "retention_ledger", "retention_totals"})
         [] v = 7 -> Tables({"journal_recovery"})
         [] v = 8 -> Tables({"notification_targets"}) \cup {<<"notification_outbox", "channel">>}
         [] v = 9 -> {<<"report_snapshots", "document_json">>}
         [] v = 10 -> Tables({"sensor_watermarks", "sensor_commit_state"})
         [] v = 11 -> {<<"event_notifications", "channel">>}
         [] v = 12 -> {<<"notification_outbox", "presentation">>}
         [] v = 13 -> {<<"notification_targets", "activated_at">>}
         [] v = 14 -> Tables({"notification_dispatch", "official_channel_policy", "official_budget_usage"})]

Listed(v) == UNION {ListedFrom[w] : w \in 1..v}

\* Parts that are not columns: indexes and constraints.
Unlisted ==
    {"period_idx", "open_idx", "received_idx", "incident_idx", "source_time_idx", "message_idx", "poll_idx",
     "one_per_event", "telegram, webhook", "native", "official"}

Columns(s) == {p \in s : p[2] \notin Unlisted}

-----------------------------------------------------------------------------
(* downgradeSnapshotSchemaReference: the statements under "version < v". *)

Without(s, tables, parts) == {p \in s : p[1] \notin tables /\ p \notin parts}

Undo(s, v) ==
    CASE v = 14 -> Channels(Without(s, {"notification_dispatch", "official_budget_usage", "official_channel_policy"}, {}), "native")
      [] v = 13 -> Channels(Without(s, {}, {<<"notification_targets", "activated_at">>}), "telegram, webhook")
      [] v = 12 -> Without(s, {}, {<<"notification_outbox", "presentation">>})
      [] v = 11 -> Without(s, {"event_notifications"}, {})
                     \cup {<<"event_notifications", "created">>, <<"event_notifications", "message_idx">>,
                           <<"event_notifications", "one_per_event">>}
      [] v = 10 -> Without(s, {"sensor_watermarks", "sensor_commit_state"}, {})
      [] v = 9 -> Without(s, {}, {<<"report_snapshots", "document_json">>})
      [] v = 8 -> Without(s, {"notification_targets"}, {<<"notification_outbox", "channel">>})
      [] v = 7 -> Without(s, {"journal_recovery"}, {})
      [] v = 6 -> Without(s, {"monitor_state", "retention_meta", "retention_ledger", "retention_totals"}, {})
      [] v = 5 -> Without(s, {}, {<<"report_snapshots", "billing_json">>})
      [] v = 4 -> Without(s, {"event_notifications", "notification_silences", "interface_detail_hourly"},
                          {<<"events", "incident_idx">>, <<"events", "source_time_idx">>,
                           <<"notification_outbox", "incident_idx">>, <<"notification_outbox", "merging">>})
      [] v = 3 -> Without(s, {"notification_cooldowns", "notification_counters", "report_snapshots", "coverage_intervals",
                              "coverage_gaps", "collector_checkpoints", "journal_seen"},
                          {<<"notification_outbox", "quarantine">>})
      [] v = 2 -> Without(s, {}, {<<"collector_health_hourly", "ipc">>})

\* The newest step is undone first.
ReferenceAt[v \in 1..Current] == IF v = Current THEN SchemaOf[Current] ELSE Undo(ReferenceAt[v + 1], v + 1)

\* readSnapshotTable: everything known of one table.
Table(s, t) == {p \in s : p[1] = t}

\* compareSnapshotTable: the listed columns, and otherwise the reference.
SameTable(s, v, t) == Columns(Table(s, t)) = Table(Listed(v), t) /\ Table(s, t) = Table(ReferenceAt[v], t)

\* A schema that claims to be of version v has exactly the listed tables.
Conforms(s, v) ==
    LET known == {p[1] : p \in Listed(v)} IN
    {p[1] : p \in s} \subseteq known /\ \A t \in known : SameTable(s, v, t)
=============================================================================
