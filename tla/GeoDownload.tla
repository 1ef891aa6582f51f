----------------------------- MODULE GeoDownload -----------------------------
(***************************************************************************)
(* assets.DownloadGeo and what the manager copies of its result: the City   *)
(* and the ASN archive are streamed into a private directory under /tmp, a  *)
(* child process without privileges validates each database, and the        *)
(* manager copies the files into a new generation by their digests.         *)
(*                                                                         *)
(* The caller's context may end at any moment, every system call may fail,  *)
(* and a process with the same privileges may rewrite a staged file; a      *)
(* rewrite changes the modification time the checks compare.  A failed      *)
(* attempt is explained to the daemon by a diagnostic only: a stage and a   *)
(* reason.                                                                  *)
(***************************************************************************)
EXTENDS Integers, Sequences, FiniteSets

CONSTANTS MaxMembers,  \* archive members before the reader gives up
          MaxTampers

VARIABLES ctx,       \* "live", "cancelled" or "timeout"
          pc, edition,
          dir,       \* the staging directory exists
          file,      \* content of the staged database of each edition, 0 if none
          members, found, notices, \* what the archive contained so far
          stream,    \* assetStream.failure
          child,     \* the validator process
          before,    \* the parent's first Stat
          digest,    \* the bundle's digests
          failure,   \* diagnostic of the attempt
          installed, \* the databases of the new generation
          cause, valid, tampers \* what really happened

downloadVars == <<ctx, pc, edition, dir, file, members, found, notices, stream, child, before, digest,
                  failure, installed, cause, valid, tampers>>

Editions == 1..2   \* GeoLite2-City, GeoLite2-ASN
D(stage, reason) == [stage |-> stage, reason |-> reason]
NoDiagnostic == D("none", "none")
NoChild == [run |-> "none", mapped |-> 0, answer |-> "none", digest |-> 0]

\* The notices an archive must bring along with its database.
Required == {"license", "copyright"}

\* Contents: the edition's own number as downloaded, another after a rewrite.
Rewritten(content) == content + 2

DownloadInit ==
    /\ ctx = "live" /\ pc = "start" /\ edition = 1 /\ dir = FALSE /\ file = [e \in Editions |-> 0]
    /\ members = 0 /\ found = FALSE /\ notices = {} /\ stream = "none" /\ child = NoChild /\ before = 0
    /\ digest = [e \in Editions |-> 0] /\ failure = NoDiagnostic /\ installed = [e \in Editions |-> 0]
    /\ cause = {} /\ valid = {} /\ tampers = 0

-----------------------------------------------------------------------------
(* Classification of errors. *)

\* What an error may be known to be, in the order classifyAssetRequestError
\* asks, with the reason it reports.
Precedence ==
    <<"cancelled", "timeout", "redirect_rejected", "dns_lookup_failed", "tls_failed",
      "network_unreachable", "connection_refused">>

Known == {Precedence[i] : i \in DOMAIN Precedence}

\* An error is the set of the classes it belongs to; a lookup can also time out.
TransportErrors == {{k} : k \in Known} \cup {{}, {"timeout", "dns_lookup_failed"}}

ClassifyAssetRequestError(err) ==
    IF err = {} THEN "failed"
    ELSE Precedence[CHOOSE i \in DOMAIN Precedence :
                      Precedence[i] \in err /\ \A j \in 1..(i - 1) : Precedence[j] \notin err]

\* An error on its way to DownloadGeo: typed with its diagnostic, or plain.
Plain == NoDiagnostic

\* Mutant: a failure of the body is taken for what the archive reader made of it.
DiagnosticFlattened(err) ==
    IF err # Plain THEN err
    ELSE IF ctx # "live" THEN D("download", ctx)
    ELSE D("archive", "invalid")

\* DownloadGeo's error branch: a failure of the body comes first, because gzip
\* and tar turn it into an archive error; an untyped error of an ended context
\* is a cancellation.
DiagnosticOf(err) ==
    IF stream' # "none" THEN D("download", stream')
    ELSE IF err # Plain THEN err
    ELSE IF ctx # "live" THEN D("download", ctx)
    ELSE D("archive", "invalid")

\* GeoDiagnostic.Validate.
ValidDiagnostic(d) ==
    \/ d.stage = "download" /\ d.reason \in Known \cup {"failed", "http_status", "response_read_failed", "response_too_large"}
    \/ d.stage = "staging" /\ d.reason \in {"failed", "temporary_directory_unavailable", "temporary_directory_unsafe",
                                           "storage_full", "permission_denied"}
    \/ d = D("archive", "invalid") \/ d = D("credentials", "invalid") \/ d = D("activation", "failed")
    \/ d.stage = "validation" /\ d.reason \in
         {"validation_rejected", "resource_budget", "validator_privilege_drop_failed", "validator_setup_failed",
          "validator_failed", "validator_response_invalid", "source_changed", "timeout", "cancelled"}

-----------------------------------------------------------------------------
Archive == <<members, found, notices>>
Ghosts == <<valid, tampers>>

\* A step fails: "because" is what happened, "err" what the function returns.
Stop(because, d) == cause' = because /\ failure' = d /\ pc' = "close"
Fails(because, err) == Stop(because, DiagnosticOf(err)) /\ UNCHANGED <<edition, digest, installed>>

\* Credentials, the parent directory, MkdirTemp, OpenRoot, Lstat.
StagingFailures ==
    {D("credentials", "invalid"), D("staging", "temporary_directory_unavailable"), D("staging", "temporary_directory_unsafe")}
      \cup {D("staging", r) : r \in {"failed", "storage_full", "permission_denied"}}

Prepare ==
    /\ pc = "start"
    /\ \/ /\ pc' = "request" /\ dir' = TRUE /\ UNCHANGED <<cause, failure>>
       \/ \E d \in StagingFailures : Stop({d}, d) /\ dir' = FALSE
    /\ UNCHANGED <<ctx, edition, file, Archive, stream, child, before, digest, installed, Ghosts>>

\* requestStream, up to the response's header.
Request ==
    /\ pc = "request"
    /\ members' = 0 /\ found' = FALSE /\ notices' = {} /\ UNCHANGED stream
    /\ \/ /\ ctx = "live" /\ pc' = "read" /\ UNCHANGED <<cause, failure, edition, digest, installed>>
       \/ \E err \in IF ctx = "live" THEN TransportErrors ELSE {{ctx}} :
             /\ Fails({D("download", r) : r \in err \cup (IF err = {} THEN {"failed", "tls_failed"} ELSE {})},
                      D("download", ClassifyAssetRequestError(err)))
       \/ \E r \in {"http_status", "response_too_large"} : Fails({D("download", r)}, D("download", r))
    /\ UNCHANGED <<ctx, dir, file, child, before, Ghosts>>

\* Reading the body fails under gzip and tar (assetStream.Read).
BodyFails ==
    /\ pc = "read"
    /\ \E r \in (IF ctx = "live" THEN {ClassifyAssetRequestError(e) : e \in TransportErrors \ {{}}} ELSE {ctx})
                  \cup {"response_read_failed", "response_too_large"} :
          stream' = r /\ Fails({D("download", r)}, Plain)
    /\ UNCHANGED <<ctx, dir, file, Archive, child, before, Ghosts>>

\* One member of the archive.  The context is asked before the member and while
\* the database is copied, not while a notice is.
Member ==
    /\ pc = "read" /\ UNCHANGED stream
    /\ \/ /\ ctx # "live" /\ Fails({D("download", ctx)}, Plain)
          /\ UNCHANGED <<file, Archive>>
       \/ /\ ctx = "live" /\ members < MaxMembers /\ members' = members + 1
          /\ \/ /\ ~ found /\ found' = TRUE /\ file' = [file EXCEPT ![edition] = edition]
                /\ UNCHANGED notices
             \/ /\ \E n \in Required \ notices : notices' = notices \cup {n}
                /\ UNCHANGED <<found, file>>
          /\ UNCHANGED <<pc, edition, cause, failure, digest, installed>>
       \/ /\ ctx = "live" /\ Fails({D("archive", "invalid")}, Plain)
          /\ UNCHANGED <<file, Archive>>
       \/ /\ ctx = "live"
          /\ \E r \in {"failed", "storage_full", "permission_denied"} : Fails({D("staging", r)}, D("staging", r))
          /\ file' \in {file, [file EXCEPT ![edition] = edition]}
          /\ UNCHANGED Archive
    /\ UNCHANGED <<ctx, dir, child, before, Ghosts>>

\* The staged database cannot be opened again; the error is a plain one.
Unopened == D("staging", "database_unavailable")

\* The trailer, which may be damaged, the notices, the staged database opened
\* again, and the parent's side of the child's start.
EndOfArchive ==
    /\ pc = "read" /\ UNCHANGED stream
    /\ \/ /\ found /\ Required \subseteq notices
          /\ \/ /\ pc' = "validate" /\ before' = file[edition]
                /\ child' = [NoChild EXCEPT !.run = "started"]
                /\ UNCHANGED <<edition, cause, failure, digest, installed>>
             \/ /\ \/ Fails({Unopened}, Plain)
                   \/ \E r \in {"validation_rejected", "validator_setup_failed"} :
                         Fails({D("validation", r)}, D("validation", r))
                /\ UNCHANGED <<child, before>>
       \/ /\ Fails({D("archive", "invalid")}, Plain)
          /\ UNCHANGED <<child, before>>
    /\ UNCHANGED <<ctx, dir, file, Archive, Ghosts>>

-----------------------------------------------------------------------------
(* The child: ValidatorCommand. *)

Parent == <<ctx, pc, edition, dir, Archive, stream, before, digest, failure, installed, cause>>
Exit(answer) == child' = [child EXCEPT !.run = "failed", !.answer = answer]

\* Resource limits and privileges, then verifyMMDB on the mapped file.
ChildVerifies ==
    /\ child.run = "started"
    /\ \/ \E reason \in {"validator_setup_failed", "validator_privilege_drop_failed",
                         "validation_rejected", "resource_budget", "none"} : Exit(reason) /\ UNCHANGED valid
       \/ child' = [child EXCEPT !.run = "verified", !.mapped = file[edition]] /\ valid' = valid \cup {file[edition]}
    /\ UNCHANGED <<Parent, file, tampers>>

\* The second fstat.
ChildChecks ==
    /\ child.run = "verified"
    /\ IF file[edition] = child.mapped THEN child' = [child EXCEPT !.run = "checked"] ELSE Exit("none")
    /\ UNCHANGED <<Parent, file, valid, tampers>>

\* The digest of what is mapped now.
ChildAnswers ==
    /\ child.run = "checked"
    /\ \/ child' = [child EXCEPT !.run = "done", !.answer = "digest", !.digest = file[edition]]
       \/ child' = [child EXCEPT !.run = "done", !.answer = "garbled"]
       \/ Exit("none")
    /\ UNCHANGED <<Parent, file, valid, tampers>>

\* The time limit, or the caller's context, kills the child's process group.
ChildKilled ==
    /\ child.run \in {"started", "verified", "checked"}
    /\ \/ ctx = "live" /\ child' = [child EXCEPT !.run = "timeout"]
       \/ ctx # "live" /\ child' = [child EXCEPT !.run = ctx]
    /\ UNCHANGED <<Parent, file, valid, tampers>>

\* The parent's second Stat.
Changed == file[edition] # before

\* verifyMMDBFile after cmd.Run; when the context ends between its check and
\* geoValidationFailure's, the verdict on the database becomes a plain error.
Judge ==
    /\ pc = "validate" /\ UNCHANGED stream
    /\ \/ /\ child.run \in {"cancelled", "timeout"}
          /\ Fails({D("validation", child.run)}, D("validation", child.run))
       \/ /\ child.run = "failed" /\ ctx # "live"
          /\ \/ Fails({D("validation", ctx)}, D("validation", ctx))
             \/ child.answer \in {"validation_rejected", "resource_budget"} /\ Fails({D("validation", ctx)}, Plain)
       \/ /\ child.run = "failed" /\ ctx = "live" /\ child.answer # "none"
          /\ Fails({D("validation", child.answer)}, D("validation", child.answer))
       \/ /\ child.run = "failed" /\ ctx = "live" /\ child.answer = "none"
          /\ Fails({D("validation", "validator_failed")}, D("validation", "validator_failed"))
       \/ /\ child.run = "done" /\ Changed
          /\ Fails({D("validation", "source_changed")}, D("validation", "source_changed"))
       \/ /\ child.run = "done" /\ ~ Changed /\ child.answer = "garbled"
          /\ Fails({D("validation", "validator_response_invalid")}, D("validation", "validator_response_invalid"))
       \/ /\ child.run = "done" /\ ~ Changed /\ child.answer = "digest"
          /\ digest' = [digest EXCEPT ![edition] = child.digest]
          /\ IF edition = 1 THEN edition' = 2 /\ pc' = "request" ELSE edition' = 1 /\ pc' = "copy"
          /\ UNCHANGED <<cause, failure, installed>>
    /\ child' = NoChild
    /\ UNCHANGED <<ctx, dir, file, Archive, before, Ghosts>>

\* copyGeoFile: what was read must have the bundle's digest and must not have
\* changed meanwhile; otherwise nothing is published.
CopyGeoFile ==
    /\ pc = "copy" /\ UNCHANGED stream
    /\ \/ /\ ctx = "live" /\ file[edition] = digest[edition]
          /\ installed' = [installed EXCEPT ![edition] = file[edition]]
          /\ IF edition = 1 THEN edition' = 2 /\ UNCHANGED pc ELSE pc' = "close" /\ UNCHANGED edition
          /\ UNCHANGED <<cause, failure, digest>>
       \/ Stop({D("activation", "failed")}, D("activation", "failed"))
          /\ UNCHANGED <<edition, digest, installed>>
    /\ UNCHANGED <<ctx, dir, file, Archive, child, before, Ghosts>>

\* GeoBundle.Close, or the removal of the directory when opening it failed.
Close ==
    /\ pc = "close" /\ pc' = "ended"
    /\ dir' = FALSE /\ file' = [e \in Editions |-> 0]
    /\ UNCHANGED <<ctx, edition, Archive, stream, child, before, digest, failure, installed, cause, Ghosts>>

-----------------------------------------------------------------------------
ContextEnds ==
    /\ ctx = "live" /\ ctx' \in {"cancelled", "timeout"}
    /\ UNCHANGED <<pc, edition, dir, file, Archive, stream, child, before, digest, failure, installed, cause, Ghosts>>

Tamper ==
    /\ tampers < MaxTampers /\ tampers' = tampers + 1
    /\ \E e \in Editions : file[e] # 0 /\ file' = [file EXCEPT ![e] = Rewritten(@)]
    /\ UNCHANGED <<Parent, child, valid>>

DownloadNext ==
    \/ Prepare \/ Request \/ BodyFails \/ Member \/ EndOfArchive
    \/ ChildVerifies \/ ChildChecks \/ ChildAnswers \/ ChildKilled
    \/ Judge \/ CopyGeoFile \/ Close \/ ContextEnds \/ Tamper

DownloadSpec == DownloadInit /\ [][DownloadNext]_downloadVars

-----------------------------------------------------------------------------
\* The diagnostic of a failed attempt is one the daemon accepts, and it names
\* what happened: a cancellation is not reported as a damaged archive nor a
\* full disk as a bad download, wherever in the layers of readers, writers and
\* processes it surfaced.  There is one exception: a staged database that
\* cannot be opened again is a failure of this host, and extractGeoStream's
\* plain error makes DownloadGeo report it as an invalid archive.
FailureTraced ==
    failure # NoDiagnostic =>
      /\ ValidDiagnostic(failure)
      /\ \/ failure \in cause
         \/ ctx # "live" /\ failure = D("download", ctx)
         \/ cause = {Unopened} /\ failure = D("archive", "invalid")

\* Every database of the new generation is a content the child has accepted,
\* though staged files are rewritten between its validation, its digest, the
\* parent's checks and the copy.
InstalledIsValidated == \A e \in Editions : installed[e] # 0 => installed[e] \in valid
=============================================================================
