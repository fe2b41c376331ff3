----------------------------- MODULE EvidencePack ----------------------------
(* The life of an evidence pack: build_evidence_pack exports a ticket that    *)
(* may still be written, and swaps the result with the pack that was there    *)
(* (src/icode/evidence.py); attach_anchor_records and sign_pack add the two   *)
(* files outside the manifest (pack_anchor.py, pack_signing.py); verify_pack  *)
(* judges a pack (pack_verify.py and its copy in tools/).                     *)
(* A hash is its content.  The source's chain is the number of its events that *)
(* change the metadata, the artifact contents they record, and whether they   *)
(* carry metadata_hash_after (a historic chain does not); the metadata is the *)
(* number of the event it was last written with.                              *)
EXTENDS Naturals, FiniteSets

CONSTANTS Exporters,    \* processes that export to one destination
          MaxChanges,   \* bound: changes of the ticket and of a published pack
          MaxBreaks     \* bound: system calls that fail and processes that die

ASSUME PackAssumption == MaxChanges \in Nat /\ MaxBreaks \in Nat

VARIABLES source,    \* the source's directory
          exporter,  \* the exporters' locals
          dest,      \* the pack at the destination
          staged, previous,    \* exporter |-> the packs in its transaction
          signer, anchorer,    \* the locals of sign_pack and of attach_anchor_records
          had,       \* history: the destination has held a pack
          changes, breaks

packVars == <<source, exporter, dest, staged, previous, signer, anchorer, had, changes, breaks>>

NoFiles == [meta |-> 0, events |-> 0, recs |-> {}, bodies |-> {}, hashed |-> FALSE]
\* `added`: files that are not the export's
NoPack == [exists |-> FALSE, files |-> NoFiles, added |-> {}, manifest |-> NoFiles,
           anchors |-> NoFiles, sig |-> [made |-> FALSE, man |-> NoFiles, anch |-> NoFiles]]
NoExport == [pc |-> "idle", meta |-> 0, recs |-> {}, todo |-> {}, ok |-> FALSE, preserve |-> FALSE, raised |-> FALSE]

PackInit ==
    /\ \E hashed \in BOOLEAN :
         source = [events |-> 1, meta |-> 1, recs |-> {0}, body |-> 0, hashed |-> hashed]
    /\ exporter = [e \in Exporters |-> NoExport]
    /\ dest = NoPack
    /\ staged = [e \in Exporters |-> NoPack] /\ previous = [e \in Exporters |-> NoPack]
    /\ signer = [pc |-> "idle", man |-> NoFiles, anch |-> NoFiles]
    /\ anchorer = [pc |-> "idle", target |-> NoFiles]
    /\ had = FALSE
    /\ changes = 0 /\ breaks = 0

Fault == breaks < MaxBreaks /\ breaks' = breaks + 1
Spared == breaks' = breaks
Change == changes < MaxChanges /\ changes' = changes + 1

-----------------------------------------------------------------------------
(* The source's writers: an event is in the chain before its metadata is     *)
(* written; an artifact may be recorded again, or edited and not recorded.   *)
(* A historic chain may go on with events that carry the metadata's hash.    *)

AppendEvent ==
    /\ source.events = source.meta /\ Change
    /\ \E recs \in {source.recs, source.recs \cup {source.body}}, hashed \in {source.hashed, TRUE} :
         source' = [source EXCEPT !.events = @ + 1, !.recs = recs, !.hashed = hashed]
    /\ UNCHANGED <<exporter, dest, staged, previous, signer, anchorer, had, breaks>>

WriteMetadata ==
    /\ source.meta < source.events
    /\ source' = [source EXCEPT !.meta = source.events]
    /\ UNCHANGED <<exporter, dest, staged, previous, signer, anchorer, had, changes, breaks>>

EditArtifact ==
    /\ Change /\ source' = [source EXCEPT !.body = 1 - @]
    /\ UNCHANGED <<exporter, dest, staged, previous, signer, anchorer, had, breaks>>

\* someone changes, adds or removes a file of the published pack; what is added
\* has any name, or is called manifest.json in a directory of the pack
AddedNames == {"file", "nested manifest.json"}
EditPack ==
    /\ dest.exists /\ Change
    /\ \/ dest' = [dest EXCEPT !.files.bodies = {<<r[1], 2>> : r \in @}]
       \/ dest' = [dest EXCEPT !.files.bodies = {}]
       \/ \E x \in AddedNames : dest' = [dest EXCEPT !.added = @ \cup {x}]
       \/ dest' = [dest EXCEPT !.files.meta = 0]
       \/ dest' = [dest EXCEPT !.anchors = NoFiles]
    /\ dest' # dest
    /\ UNCHANGED <<source, exporter, staged, previous, signer, anchorer, had, breaks>>

-----------------------------------------------------------------------------
(* verify_pack.                                                              *)

\* every file is the manifest's, and the manifest's digest is theirs; a file of
\* the manifest's name is let through wherever it lies
Unlisted(p) == p.added \ {"nested manifest.json"}
FilesMatch(p) == p.manifest = p.files /\ Unlisted(p) = {}

\* _verify_event_chain against the metadata's hash, which a historic chain has
\* not; what the mirrors compare besides is in EventReplay
ChainMatches(p) == p.files.hashed => p.files.meta = p.files.events

\* _verify_artifact_binding: bodies are pairs <<recorded hash, content>>
BodiesBound(p) ==
    /\ \A b \in p.files.bodies : b[1] = b[2] /\ b[1] \in p.files.recs
    /\ p.files.recs \subseteq {b[2] : b \in p.files.bodies}

Anchored(p) == p.anchors # NoFiles
AnchorsValid(p) == Anchored(p) => p.anchors = p.manifest

\* _signature_problems: anchors that are there are in the signed message
SignatureValid(p) ==
    /\ p.sig.man = p.manifest
    /\ IF p.sig.anch # NoFiles THEN Anchored(p) /\ p.sig.anch = p.anchors ELSE ~Anchored(p)

\* with the anchors of an unsigned pack checked on their own
VerifyPack(p, requireSignature) ==
    /\ p.exists /\ FilesMatch(p) /\ ChainMatches(p) /\ BodiesBound(p)
    /\ IF p.sig.made THEN SignatureValid(p) ELSE ~requireSignature /\ AnchorsValid(p)

-----------------------------------------------------------------------------
(* build_evidence_pack.                                                      *)

Fails(e) == exporter' = [exporter EXCEPT ![e] = [NoExport EXCEPT !.pc = "cleanup", !.raised = TRUE]]
ExportAt(e, pc) == exporter[e].pc = pc
Goto(e, pc) == exporter' = [exporter EXCEPT ![e].pc = pc]
Outside == UNCHANGED <<source, signer, anchorer, changes>>

BeginExport(e) ==
    /\ ExportAt(e, "idle")
    /\ exporter' = [exporter EXCEPT ![e] = [NoExport EXCEPT !.pc = "meta"]]
    /\ Spared /\ UNCHANGED <<dest, staged, previous, had>> /\ Outside

\* the metadata's bytes are read once and written to the pack later
ReadMetadata(e) ==
    /\ ExportAt(e, "meta")
    /\ \/ Spared /\ exporter' = [exporter EXCEPT ![e].pc = "events", ![e].meta = source.meta]
       \/ Fault /\ Fails(e)
    /\ UNCHANGED <<dest, staged, previous, had>> /\ Outside

\* _read_events replays the chain against that metadata
ReadEvents(e) ==
    /\ ExportAt(e, "events") /\ Spared
    /\ IF source.hashed => source.events = exporter[e].meta
       THEN exporter' = [exporter EXCEPT ![e].pc = "copy", ![e].recs = source.recs, ![e].todo = source.recs]
       ELSE Fails(e)
    /\ UNCHANGED <<dest, staged, previous, had>> /\ Outside

\* the chain is copied from the file again, the metadata from memory
CopyTicket(e) ==
    /\ ExportAt(e, "copy")
    /\ \/ /\ Spared /\ Goto(e, "bodies")
          /\ staged' = [staged EXCEPT ![e] =
                          [NoPack EXCEPT !.exists = TRUE,
                                         !.files = [meta |-> exporter[e].meta, events |-> source.events,
                                                    recs |-> source.recs, bodies |-> {},
                                                    hashed |-> source.hashed]]]
       \/ Fault /\ Fails(e) /\ UNCHANGED staged
    /\ UNCHANGED <<dest, previous, had>> /\ Outside

\* _snapshot_artifacts: one body for each record read before, as it is now
SnapshotBody(e) ==
    /\ ExportAt(e, "bodies") /\ exporter[e].todo # {}
    /\ \/ /\ Spared
          /\ \E r \in exporter[e].todo :
               /\ exporter' = [exporter EXCEPT ![e].todo = @ \ {r}]
               /\ staged' = [staged EXCEPT ![e].files.bodies = @ \cup {<<r, source.body>>}]
       \/ Fault /\ Fails(e) /\ UNCHANGED staged
    /\ UNCHANGED <<dest, previous, had>> /\ Outside

\* artifacts.json, contracts.json, verifications.json, verify.py, then the
\* manifest over all of them
WriteManifest(e) ==
    /\ ExportAt(e, "bodies") /\ exporter[e].todo = {}
    /\ \/ Spared /\ Goto(e, "check") /\ staged' = [staged EXCEPT ![e].manifest = staged[e].files]
       \/ Fault /\ Fails(e) /\ UNCHANGED staged
    /\ UNCHANGED <<dest, previous, had>> /\ Outside

SelfCheckBug(e) ==
    /\ ExportAt(e, "check") /\ Spared
    /\ exporter' = [exporter EXCEPT ![e].pc = "exists", ![e].ok = FilesMatch(staged[e])]
    /\ UNCHANGED <<dest, staged, previous, had>> /\ Outside
\* what does not verify is not published
SelfCheck(e) ==
    /\ ExportAt(e, "check") /\ Spared
    /\ LET ok == VerifyPack(staged[e], FALSE)
       IN  exporter' = [exporter EXCEPT ![e].pc = IF ok THEN "exists" ELSE "cleanup", ![e].ok = ok]
    /\ UNCHANGED <<dest, staged, previous, had>> /\ Outside

\* the old generation may move from here on: keep it unless told otherwise
SeeOld(e) ==
    /\ ExportAt(e, "exists") /\ Spared
    /\ exporter' = [exporter EXCEPT ![e].pc = IF dest.exists THEN "aside" ELSE "publish",
                                    ![e].preserve = dest.exists]
    /\ UNCHANGED <<dest, staged, previous, had>> /\ Outside

\* dest.rename(previous); another exporter may have taken it
MoveAside(e) ==
    /\ ExportAt(e, "aside")
    /\ \/ /\ dest.exists /\ Spared
          /\ previous' = [previous EXCEPT ![e] = dest] /\ dest' = NoPack
          /\ Goto(e, "publish")
       \/ /\ (~dest.exists /\ Spared) \/ Fault
          /\ exporter' = [exporter EXCEPT ![e].pc = "cleanup", ![e].raised = TRUE]
          /\ UNCHANGED <<dest, previous>>
    /\ UNCHANGED <<staged, had>> /\ Outside

\* staged.rename(dest), which a pack put there meanwhile refuses
Publish(e) ==
    /\ ExportAt(e, "publish")
    /\ \/ /\ ~dest.exists /\ Spared
          /\ dest' = staged[e] /\ staged' = [staged EXCEPT ![e] = NoPack]
          /\ exporter' = [exporter EXCEPT ![e].pc = "cleanup", ![e].preserve = FALSE]
          /\ had' = TRUE
       \/ /\ (dest.exists /\ Spared) \/ Fault
          /\ Goto(e, "restore")
          /\ UNCHANGED <<dest, staged, had>>
    /\ UNCHANGED previous /\ Outside

RestoreBug(e) ==
    /\ ExportAt(e, "restore")
    /\ \/ /\ previous[e].exists /\ ~dest.exists /\ Spared
          /\ dest' = previous[e] /\ previous' = [previous EXCEPT ![e] = NoPack]
       \/ (~previous[e].exists \/ dest.exists) /\ Spared /\ UNCHANGED <<dest, previous>>
       \/ Fault /\ UNCHANGED <<dest, previous>>
    /\ exporter' = [exporter EXCEPT ![e].pc = "cleanup", ![e].raised = TRUE, ![e].preserve = FALSE]
    /\ UNCHANGED <<staged, had>> /\ Outside
\* previous.rename(dest), if there is one; when that fails too it stays where it is
Restore(e) ==
    /\ ExportAt(e, "restore")
    /\ \/ /\ previous[e].exists /\ ~dest.exists /\ Spared
          /\ dest' = previous[e] /\ previous' = [previous EXCEPT ![e] = NoPack]
          /\ exporter' = [exporter EXCEPT ![e].pc = "cleanup", ![e].raised = TRUE, ![e].preserve = FALSE]
       \/ /\ (previous[e].exists /\ dest.exists /\ Spared) \/ (previous[e].exists /\ Fault)
          /\ exporter' = [exporter EXCEPT ![e].pc = "cleanup", ![e].raised = TRUE, ![e].preserve = TRUE]
          /\ UNCHANGED <<dest, previous>>
       \/ /\ ~previous[e].exists /\ Spared
          /\ exporter' = [exporter EXCEPT ![e].pc = "cleanup", ![e].raised = TRUE]
          /\ UNCHANGED <<dest, previous>>
    /\ UNCHANGED <<staged, had>> /\ Outside

\* the transaction's directory, unless it holds the only old generation
Cleanup(e) ==
    /\ ExportAt(e, "cleanup")
    /\ \/ /\ ~(exporter[e].preserve /\ previous[e].exists) /\ Spared
          /\ staged' = [staged EXCEPT ![e] = NoPack]
          /\ previous' = [previous EXCEPT ![e] = NoPack]
          /\ exporter' = [exporter EXCEPT ![e] = NoExport]
       \/ /\ (exporter[e].preserve /\ previous[e].exists /\ Spared) \/ Fault
          /\ Goto(e, "left") /\ UNCHANGED <<staged, previous>>
    /\ UNCHANGED <<dest, had>> /\ Outside

\* the process dies; its transaction's directory stays
Dies(e) ==
    /\ exporter[e].pc \notin {"idle", "left"} /\ Fault
    /\ Goto(e, "left")
    /\ UNCHANGED <<dest, staged, previous, had>> /\ Outside

-----------------------------------------------------------------------------
(* pack_anchor.attach_anchor_records and pack_signing.sign_pack, by path.    *)

AnchorRead ==
    /\ anchorer.pc = "idle" /\ dest.exists /\ ~Anchored(dest)
    /\ anchorer' = [pc |-> "write", target |-> dest.manifest]
    /\ UNCHANGED <<source, exporter, dest, staged, previous, signer, had, changes, breaks>>

AnchorWrite ==
    /\ anchorer.pc = "write"
    /\ dest' = IF dest.exists THEN [dest EXCEPT !.anchors = anchorer.target] ELSE dest
    /\ anchorer' = [anchorer EXCEPT !.pc = "done"]
    /\ UNCHANGED <<source, exporter, staged, previous, signer, had, changes, breaks>>

SignReadManifest ==
    /\ signer.pc = "idle" /\ dest.exists
    /\ signer' = [signer EXCEPT !.pc = "anchors", !.man = dest.manifest]
    /\ UNCHANGED <<source, exporter, dest, staged, previous, anchorer, had, changes, breaks>>

SignReadAnchors ==
    /\ signer.pc = "anchors"
    /\ signer' = [signer EXCEPT !.pc = "write", !.anch = dest.anchors]
    /\ UNCHANGED <<source, exporter, dest, staged, previous, anchorer, had, changes, breaks>>

SignWrite ==
    /\ signer.pc = "write"
    /\ dest' = IF dest.exists
               THEN [dest EXCEPT !.sig = [made |-> TRUE, man |-> signer.man, anch |-> signer.anch]]
               ELSE dest
    /\ signer' = [signer EXCEPT !.pc = "done"]
    /\ UNCHANGED <<source, exporter, staged, previous, anchorer, had, changes, breaks>>

Export(e) == BeginExport(e) \/ ReadMetadata(e) \/ ReadEvents(e) \/ CopyTicket(e) \/ SnapshotBody(e)
             \/ WriteManifest(e) \/ SelfCheck(e) \/ SeeOld(e) \/ MoveAside(e) \/ Publish(e)
             \/ Restore(e) \/ Cleanup(e) \/ Dies(e)

TicketWrites == AppendEvent \/ WriteMetadata \/ EditArtifact
Attaches == AnchorRead \/ AnchorWrite \/ SignReadManifest \/ SignReadAnchors \/ SignWrite

PackNext == (\E e \in Exporters : Export(e)) \/ TicketWrites \/ EditPack \/ Attaches

PackSpec == PackInit /\ [][PackNext]_packVars

-----------------------------------------------------------------------------
(* Properties.                                                               *)

\* A pack whose contents are those its manifest was made of (nobody edited it)
\* is about one moment of the ticket: its chain and each recorded artifact go
\* together, and the metadata with them unless no event carries its hash, though
\* the export reads the chain twice and the bodies last, while the ticket is
\* written (evidence.py:1206).
PublishedWhole ==
    dest.exists /\ dest.files = dest.manifest =>
        /\ dest.files.hashed => dest.files.meta = dest.files.events
        /\ \A r \in dest.files.recs : <<r, r>> \in dest.files.bodies

\* Once the destination has held a pack, a whole generation of it is on disk,
\* at the destination or aside in a transaction, whatever renames fail, when a
\* process dies, and with two exporters at once (evidence.py:1062).
GenerationKept ==
    had => dest.exists \/ \E e \in Exporters : previous[e].exists \/ (staged[e].exists /\ exporter[e].ok)

\* A pack that is accepted with its signature is, files and anchors, the one
\* the signer read: a file or anchor that was changed or removed since, a file
\* that was added, unless it is called manifest.json (pack_verify.py:2410), and
\* a signature that landed in a later generation, are found.
SignedIsWhatIsThere ==
    VerifyPack(dest, TRUE) =>
        /\ signer.man = dest.files /\ signer.anch = dest.anchors
        /\ dest.added \subseteq {"nested manifest.json"}

\* A pack is about one moment of its ticket, and one that is accepted with its
\* signature is the one that was signed (evidence.py, pack_signing.py).
PackSound == PublishedWhole /\ SignedIsWhatIsThere
=============================================================================
