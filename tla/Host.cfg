SPECIFICATION Spec
CONSTANTS a1 = a1  a2 = a2  a3 = a3
 Jobs = {"j1", "j2"}
 Names = {"live", "backup", "new"}
 MaxBegun = 2
 Releases = {1, 14, 15}
 MaxTroubles = 1
INVARIANTS AuthSound DownloadSound PagesExact ValuesExact
PROPERTIES MonitorSound BackupSound
CHECK_DEADLOCK FALSE
