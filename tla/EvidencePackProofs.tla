------------------------- MODULE EvidencePackProofs -------------------------
(***************************************************************************)
(* Evidence packs, for any exporters, changes and faults; and the replay   *)
(* of a pack's event chain, for any chain and any metadata of the shapes   *)
(* that the checks before the replay let through.                          *)
(*                                                                         *)
(* PackSound follows from a fact about manifests: the manifest of          *)
(* whatever may become the destination was made of files that went         *)
(* together, because it passed the self-check; what anybody does to the    *)
(* files afterwards does not touch it.  GenerationKept follows from a      *)
(* transaction's right to its old generation: one that is not about to be  *)
(* removed.  A signature on any pack is the one this signer made.          *)
(*                                                                         *)
(* ReplayFaithful follows from what the mirrors are: after any number of   *)
(* events each holds a function of the chain consumed so far (Described),  *)
(* and no problem was found exactly when the chain so far is sound         *)
(* (SoundSoFar).  The lemmas say what one event more does to the whole     *)
(* chain (Grown...), then to each mirror.                                  *)
(***************************************************************************)
EXTENDS EvidencePack, EventReplay, FiniteSetTheorems, TLAPS

Contents == {0, 1}
Files == [meta : Nat, events : Nat, recs : SUBSET Contents, bodies : SUBSET (Contents \X {0, 1, 2}),
          hashed : BOOLEAN]
Signatures == [made : BOOLEAN, man : Files, anch : Files]
Packs == [exists : BOOLEAN, files : Files, added : SUBSET AddedNames, manifest : Files, anchors : Files, sig : Signatures]
Points == {"idle", "meta", "events", "copy", "bodies", "check", "exists", "aside", "publish",
           "restore", "cleanup", "left"}
Locals == [pc : Points, meta : Nat, recs : SUBSET Contents, todo : SUBSET Contents,
           ok : BOOLEAN, preserve : BOOLEAN, raised : BOOLEAN]

Shape ==
  /\ source \in [events : Nat, meta : Nat, recs : SUBSET Contents, body : Contents, hashed : BOOLEAN]
  /\ exporter \in [Exporters -> Locals]
  /\ dest \in Packs
  /\ staged \in [Exporters -> Packs] /\ previous \in [Exporters -> Packs]
  /\ signer \in [pc : {"idle", "anchors", "write", "done"}, man : Files, anch : Files]
  /\ anchorer \in [pc : {"idle", "write", "done"}, target : Files]

\* The files the manifest was made of were of one moment.
Whole(p) ==
  /\ p.manifest.hashed => p.manifest.meta = p.manifest.events
  /\ \A c \in p.manifest.recs : <<c, c>> \in p.manifest.bodies

\* A signature is the one of the signer, who is done.
Signed(p) ==
  p.sig.made => signer.pc = "done" /\ p.sig.man = signer.man /\ p.sig.anch = signer.anch

Passed == {"exists", "aside", "publish", "restore"}

\* An exporter and the two packs in its transaction.
Orderly(e) ==
  /\ exporter[e].pc \in Passed => staged[e].exists /\ Whole(staged[e])
  /\ previous[e].exists =>
       /\ Whole(previous[e])
       /\ exporter[e].pc \in {"publish", "restore", "cleanup", "left"}
  /\ Signed(staged[e]) /\ Signed(previous[e])

\* The old generation in a transaction is not about to be removed with it.
Safe(e) == previous[e].exists /\ (exporter[e].pc = "cleanup" => exporter[e].preserve)

Kept == had => dest.exists \/ \E e \in Exporters : Safe(e)

Inv ==
  /\ Shape /\ Kept
  /\ \A e \in Exporters : Orderly(e)
  /\ dest.exists => Whole(dest)
  /\ Signed(dest)

LEMMA NothingMade == NoFiles \in Files /\ NoPack \in Packs /\ NoExport \in Locals
BY DEF NoFiles, NoPack, NoExport, Files, Packs, Signatures, Locals, Points, Contents

LEMMA NoPackEmpty == ~NoPack.exists /\ Signed(NoPack)
BY DEF NoPack, Signed

LEMMA InitInv == PackInit => Inv
<1>. SUFFICES ASSUME PackInit PROVE Inv
  OBVIOUS
<1>1. Shape
  BY NothingMade DEF PackInit, Shape, Contents
<1>2. \A e \in Exporters : exporter[e].pc = "idle" /\ ~previous[e].exists
  BY NoPackEmpty DEF PackInit, NoExport
<1>3. \A e \in Exporters : Orderly(e)
  BY <1>2, NoPackEmpty DEF PackInit, Orderly, Passed
<1>4. ~dest.exists /\ Signed(dest)
  BY NoPackEmpty DEF PackInit
<1>. QED
  BY <1>1, <1>3, <1>4 DEF PackInit, Inv, Kept

\* What a step of one exporter must leave behind.
LEMMA ExportInv ==
  ASSUME Inv, Outside, NEW e \in Exporters, NEW x \in Locals, NEW s \in Packs, NEW old \in Packs,
         exporter' = [exporter EXCEPT ![e] = x],
         staged' = [staged EXCEPT ![e] = s], previous' = [previous EXCEPT ![e] = old],
         dest' \in Packs, Signed(s), Signed(old), Signed(dest'),
         dest'.exists => Whole(dest'),
         x.pc \in Passed => s.exists /\ Whole(s),
         old.exists => Whole(old) /\ x.pc \in {"publish", "restore", "cleanup", "left"},
         Kept'
  PROVE  Inv'
<1>1. Shape'
  BY DEF Inv, Shape, Outside
<1>2. signer' = signer
  BY DEF Outside
<1>3. /\ exporter'[e] = x /\ staged'[e] = s /\ previous'[e] = old
      /\ \A f \in Exporters : f # e =>
           exporter'[f] = exporter[f] /\ staged'[f] = staged[f] /\ previous'[f] = previous[f]
  BY DEF Inv, Shape
<1>4. \A f \in Exporters : Orderly(f)'
  <2>1. ASSUME NEW f \in Exporters, f # e PROVE Orderly(f)'
    BY <1>2, <1>3, <2>1 DEF Inv, Orderly, Whole, Signed
  <2>2. Orderly(e)'
    BY <1>2, <1>3 DEF Orderly, Whole, Signed
  <2>. QED
    BY <2>1, <2>2
<1>5. (dest.exists => Whole(dest))' /\ Signed(dest)'
  BY <1>2 DEF Whole, Signed
<1>. QED
  BY <1>1, <1>4, <1>5 DEF Inv

\* A generation that is kept stays, as long as the exporter does not come to
\* the end of its transaction.
LEMMA KeptStays ==
  ASSUME Inv, NEW e \in Exporters, NEW x \in Locals,
         exporter' = [exporter EXCEPT ![e] = x], x.pc # "cleanup" \/ x.preserve,
         UNCHANGED <<dest, previous, had>>
  PROVE  Kept'
<1>1. ASSUME NEW f \in Exporters, Safe(f) PROVE Safe(f)'
  BY <1>1 DEF Safe, Inv, Shape
<1>. QED
  BY <1>1 DEF Inv, Kept

\* Before the old generation is set aside there is nothing to lose.
LEMMA KeptUnused ==
  ASSUME Inv, NEW e \in Exporters, NEW x \in Locals, exporter' = [exporter EXCEPT ![e] = x],
         ~previous[e].exists, UNCHANGED <<dest, previous, had>>
  PROVE  Kept'
<1>1. ASSUME NEW f \in Exporters, Safe(f) PROVE Safe(f)'
  BY <1>1 DEF Safe, Inv, Shape
<1>. QED
  BY <1>1 DEF Inv, Kept

\* A step before anything is set aside: only the exporter and what it stages.
LEMMA EarlyInv ==
  ASSUME Inv, Outside, NEW e \in Exporters, NEW x \in Locals, NEW s \in Packs,
         exporter[e].pc \notin {"publish", "restore", "cleanup", "left"},
         exporter' = [exporter EXCEPT ![e] = x], staged' = [staged EXCEPT ![e] = s],
         UNCHANGED <<dest, previous, had>>,
         Signed(s), x.pc \in Passed => s.exists /\ Whole(s)
  PROVE  Inv'
<1>1. /\ ~previous[e].exists /\ previous[e] \in Packs /\ Signed(previous[e])
      /\ previous' = [previous EXCEPT ![e] = previous[e]]
  BY DEF Inv, Orderly, Shape
<1>2. Kept'
  BY <1>1, KeptUnused
<1>3. dest' \in Packs /\ Signed(dest') /\ (dest'.exists => Whole(dest'))
  BY DEF Inv, Shape
<1>. QED
  BY <1>1, <1>2, <1>3, ExportInv

LEMMA FailsInv ==
  ASSUME Inv, Outside, NEW e \in Exporters, Fails(e), UNCHANGED <<dest, staged, previous, had>>,
         exporter[e].pc \notin {"publish", "restore", "cleanup", "left"}
  PROVE  Inv'
<1>1. PICK x : x = [NoExport EXCEPT !.pc = "cleanup", !.raised = TRUE]
  OBVIOUS
<1>2. x \in Locals /\ x.pc = "cleanup"
  BY <1>1 DEF NoExport, Locals, Points, Contents
<1>3. /\ staged[e] \in Packs /\ Signed(staged[e])
      /\ staged' = [staged EXCEPT ![e] = staged[e]]
  BY DEF Inv, Orderly, Shape
<1>4. exporter' = [exporter EXCEPT ![e] = x]
  BY <1>1 DEF Fails
<1>. QED
  BY <1>2, <1>3, <1>4, EarlyInv DEF Passed

\* The exporter goes on, and neither packs nor destination change.
LEMMA GoesOn ==
  ASSUME Inv, Outside, NEW e \in Exporters, NEW x \in Locals,
         exporter' = [exporter EXCEPT ![e] = x], UNCHANGED <<dest, staged, previous, had>>,
         exporter[e].pc \notin {"publish", "restore", "cleanup", "left"},
         x.pc \in Passed => staged[e].exists /\ Whole(staged[e])
  PROVE  Inv'
<1>1. /\ staged[e] \in Packs /\ Signed(staged[e])
      /\ staged' = [staged EXCEPT ![e] = staged[e]]
  BY DEF Inv, Orderly, Shape
<1>. QED
  BY <1>1, EarlyInv
-----------------------------------------------------------------------------
(* The steps of an export.                                                 *)

LEMMA LocalsOf ==
  ASSUME Inv, NEW e \in Exporters
  PROVE  /\ exporter[e] \in Locals /\ staged[e] \in Packs /\ previous[e] \in Packs /\ dest \in Packs
         /\ Orderly(e)
BY DEF Inv, Shape

LEMMA ReadInv ==
  ASSUME Inv, NEW e \in Exporters, BeginExport(e) \/ ReadMetadata(e) \/ ReadEvents(e)
  PROVE  Inv'
<1>1. /\ Outside /\ UNCHANGED <<dest, staged, previous, had>>
      /\ exporter[e].pc \notin {"publish", "restore", "cleanup", "left"}
  BY DEF BeginExport, ReadMetadata, ReadEvents, ExportAt
<1>2. CASE Fails(e)
  BY <1>1, <1>2, FailsInv
<1>3. CASE ~Fails(e)
  <2>1. \/ exporter' = [exporter EXCEPT ![e] = [NoExport EXCEPT !.pc = "meta"]]
        \/ exporter' = [exporter EXCEPT ![e].pc = "events", ![e].meta = source.meta]
        \/ exporter' = [exporter EXCEPT ![e].pc = "copy", ![e].recs = source.recs, ![e].todo = source.recs]
    BY <1>3 DEF BeginExport, ReadMetadata, ReadEvents
  <2>2. [NoExport EXCEPT !.pc = "meta"] \in Locals /\ [NoExport EXCEPT !.pc = "meta"].pc = "meta"
    BY DEF NoExport, Locals, Points, Contents
  <2>3. exporter[e] \in Locals /\ source.meta \in Nat /\ source.recs \in SUBSET Contents
    BY LocalsOf DEF Inv, Shape
  <2>4. CASE exporter' = [exporter EXCEPT ![e] = [NoExport EXCEPT !.pc = "meta"]]
    BY <1>1, <2>2, <2>4, GoesOn DEF Passed
  <2>5. CASE exporter' = [exporter EXCEPT ![e].pc = "events", ![e].meta = source.meta]
    <3>1. PICK x : x = [exporter[e] EXCEPT !.pc = "events", !.meta = source.meta]
      OBVIOUS
    <3>2. x \in Locals /\ x.pc = "events" /\ exporter' = [exporter EXCEPT ![e] = x]
      BY <2>3, <2>5, <3>1 DEF Locals, Points
    <3>. QED
      BY <1>1, <3>2, GoesOn DEF Passed
  <2>6. CASE exporter' = [exporter EXCEPT ![e].pc = "copy", ![e].recs = source.recs, ![e].todo = source.recs]
    <3>1. PICK x : x = [exporter[e] EXCEPT !.pc = "copy", !.recs = source.recs, !.todo = source.recs]
      OBVIOUS
    <3>2. x \in Locals /\ x.pc = "copy" /\ exporter' = [exporter EXCEPT ![e] = x]
      BY <2>3, <2>6, <3>1 DEF Locals, Points
    <3>. QED
      BY <1>1, <3>2, GoesOn DEF Passed
  <2>. QED
    BY <2>1, <2>4, <2>5, <2>6
<1>. QED
  BY <1>2, <1>3

LEMMA CopyTicketInv == ASSUME Inv, NEW e \in Exporters, CopyTicket(e) PROVE Inv'
<1>1. /\ Outside /\ UNCHANGED <<dest, previous, had>> /\ exporter[e].pc = "copy"
  BY DEF CopyTicket, ExportAt
<1>2. CASE Fails(e) /\ UNCHANGED staged
  BY <1>1, <1>2, FailsInv
<1>3. CASE Goto(e, "bodies") /\ ~(Fails(e) /\ UNCHANGED staged)
  <2>1. PICK s : s = [NoPack EXCEPT !.exists = TRUE,
                                    !.files = [meta |-> exporter[e].meta, events |-> source.events,
                                               recs |-> source.recs, bodies |-> {},
                                               hashed |-> source.hashed]]
    OBVIOUS
  <2>2. staged' = [staged EXCEPT ![e] = s]
    BY <1>3, <2>1 DEF CopyTicket
  <2>3. exporter[e].meta \in Nat /\ source.events \in Nat /\ source.recs \in SUBSET Contents /\ source.hashed \in BOOLEAN
    BY LocalsOf DEF Inv, Shape, Locals
  <2>4. s \in Packs /\ ~s.sig.made
    <3>1. s.files \in Files
      <4>1. s.files = [meta |-> exporter[e].meta, events |-> source.events, recs |-> source.recs,
                       bodies |-> {}, hashed |-> source.hashed]
        BY <2>1 DEF NoPack
      <4>. QED
        BY <2>3, <4>1 DEF Files
    <3>2. /\ s.exists /\ s.added = {} /\ s.manifest = NoFiles /\ s.anchors = NoFiles
          /\ s.sig = [made |-> FALSE, man |-> NoFiles, anch |-> NoFiles]
          /\ s = [exists |-> s.exists, files |-> s.files, added |-> s.added, manifest |-> s.manifest,
                  anchors |-> s.anchors, sig |-> s.sig]
      BY <2>1 DEF NoPack
    <3>3. s.sig \in Signatures /\ ~s.sig.made
      BY <3>2, NothingMade DEF Signatures
    <3>. QED
      BY <3>1, <3>2, <3>3, NothingMade DEF Packs
  <2>5. PICK x : x = [exporter[e] EXCEPT !.pc = "bodies"]
    OBVIOUS
  <2>6. x \in Locals /\ x.pc = "bodies" /\ exporter' = [exporter EXCEPT ![e] = x]
    BY <1>3, <2>5, LocalsOf DEF Locals, Points, Goto
  <2>. QED
    BY <1>1, <2>2, <2>4, <2>6, EarlyInv DEF Signed, Passed
<1>. QED
  BY <1>2, <1>3 DEF CopyTicket

LEMMA SnapshotBodyInv == ASSUME Inv, NEW e \in Exporters, SnapshotBody(e) PROVE Inv'
<1>1. /\ Outside /\ UNCHANGED <<dest, previous, had>> /\ exporter[e].pc = "bodies"
  BY DEF SnapshotBody, ExportAt
<1>2. CASE Fails(e) /\ UNCHANGED staged
  BY <1>1, <1>2, FailsInv
<1>3. ASSUME NEW c \in exporter[e].todo,
             exporter' = [exporter EXCEPT ![e].todo = @ \ {c}],
             staged' = [staged EXCEPT ![e].files.bodies = @ \cup {<<c, source.body>>}]
      PROVE  Inv'
  <2>1. exporter[e] \in Locals /\ staged[e] \in Packs /\ source.body \in Contents /\ Signed(staged[e])
    BY LocalsOf DEF Inv, Shape, Orderly
  <2>2. PICK s : s = [staged[e] EXCEPT !.files.bodies = @ \cup {<<c, source.body>>}]
    OBVIOUS
  <2>3. <<c, source.body>> \in Contents \X {0, 1, 2}
    BY <2>1 DEF Locals, Contents
  <2>4. s \in Packs /\ s.sig = staged[e].sig
    BY <2>1, <2>2, <2>3 DEF Packs, Files
  <2>5. staged' = [staged EXCEPT ![e] = s]
    BY <1>3, <2>2
  <2>6. PICK x : x = [exporter[e] EXCEPT !.todo = @ \ {c}]
    OBVIOUS
  <2>7. x \in Locals /\ x.pc = "bodies" /\ exporter' = [exporter EXCEPT ![e] = x]
    BY <1>1, <1>3, <2>1, <2>6 DEF Locals, Points
  <2>. QED
    BY <1>1, <2>1, <2>4, <2>5, <2>7, EarlyInv DEF Signed, Passed
<1>. QED
  BY <1>2, <1>3 DEF SnapshotBody

LEMMA WriteManifestInv == ASSUME Inv, NEW e \in Exporters, WriteManifest(e) PROVE Inv'
<1>1. /\ Outside /\ UNCHANGED <<dest, previous, had>> /\ exporter[e].pc = "bodies"
  BY DEF WriteManifest, ExportAt
<1>2. CASE Fails(e) /\ UNCHANGED staged
  BY <1>1, <1>2, FailsInv
<1>3. CASE Goto(e, "check") /\ staged' = [staged EXCEPT ![e].manifest = staged[e].files]
  <2>1. exporter[e] \in Locals /\ staged[e] \in Packs /\ Signed(staged[e])
    BY LocalsOf DEF Orderly
  <2>2. PICK s : s = [staged[e] EXCEPT !.manifest = staged[e].files]
    OBVIOUS
  <2>3. s \in Packs /\ s.sig = staged[e].sig
    BY <2>1, <2>2 DEF Packs
  <2>4. staged' = [staged EXCEPT ![e] = s]
    BY <1>3, <2>2
  <2>5. PICK x : x = [exporter[e] EXCEPT !.pc = "check"]
    OBVIOUS
  <2>6. x \in Locals /\ x.pc = "check" /\ exporter' = [exporter EXCEPT ![e] = x]
    BY <1>3, <2>1, <2>5 DEF Locals, Points, Goto
  <2>. QED
    BY <1>1, <2>1, <2>3, <2>4, <2>6, EarlyInv DEF Signed, Passed
<1>. QED
  BY <1>2, <1>3 DEF WriteManifest

\* A pack that verifies has a manifest that was made of one moment's files.
LEMMA VerifiedWhole ==
  ASSUME NEW p \in Packs, FilesMatch(p), ChainMatches(p), BodiesBound(p)
  PROVE  Whole(p)
<1>1. ASSUME NEW c \in p.files.recs PROVE <<c, c>> \in p.files.bodies
  <2>1. PICK b \in p.files.bodies : b[2] = c
    BY <1>1 DEF BodiesBound
  <2>2. b[1] = c /\ b = <<b[1], b[2]>>
    BY <2>1 DEF BodiesBound, Packs, Files
  <2>. QED
    BY <2>1, <2>2
<1>. QED
  BY <1>1 DEF FilesMatch, ChainMatches, Whole

LEMMA SelfCheckInv == ASSUME Inv, NEW e \in Exporters, SelfCheck(e) PROVE Inv'
<1>1. /\ Outside /\ UNCHANGED <<dest, staged, previous, had>> /\ exporter[e].pc = "check"
  BY DEF SelfCheck, ExportAt
<1>2. exporter[e] \in Locals /\ staged[e] \in Packs
  BY LocalsOf
<1>3. PICK ok \in BOOLEAN : /\ ok <=> VerifyPack(staged[e], FALSE)
                           /\ exporter' = [exporter EXCEPT ![e].pc = IF ok THEN "exists" ELSE "cleanup", ![e].ok = ok]
  BY DEF SelfCheck, VerifyPack
<1>4. PICK x : x = [exporter[e] EXCEPT !.pc = IF ok THEN "exists" ELSE "cleanup", !.ok = ok]
  OBVIOUS
<1>5. /\ x \in Locals /\ x.pc = (IF ok THEN "exists" ELSE "cleanup")
      /\ exporter' = [exporter EXCEPT ![e] = x]
  BY <1>2, <1>3, <1>4 DEF Locals, Points
<1>6. x.pc \in Passed => staged[e].exists /\ Whole(staged[e])
  BY <1>2, <1>3, <1>5, VerifiedWhole DEF VerifyPack, Passed
<1>. QED
  BY <1>1, <1>5, <1>6, GoesOn

LEMMA SeeOldInv == ASSUME Inv, NEW e \in Exporters, SeeOld(e) PROVE Inv'
<1>1. /\ Outside /\ UNCHANGED <<dest, staged, previous, had>> /\ exporter[e].pc = "exists"
      /\ exporter' = [exporter EXCEPT ![e].pc = IF dest.exists THEN "aside" ELSE "publish",
                                      ![e].preserve = dest.exists]
  BY DEF SeeOld, ExportAt
<1>2. exporter[e] \in Locals /\ Orderly(e) /\ dest.exists \in BOOLEAN
  BY LocalsOf DEF Packs
<1>3. PICK x : x = [exporter[e] EXCEPT !.pc = IF dest.exists THEN "aside" ELSE "publish",
                                       !.preserve = dest.exists]
  OBVIOUS
<1>4. x \in Locals /\ exporter' = [exporter EXCEPT ![e] = x]
  BY <1>1, <1>2, <1>3 DEF Locals, Points
<1>. QED
  BY <1>1, <1>2, <1>4, GoesOn DEF Orderly, Passed

LEMMA MoveAsideInv == ASSUME Inv, NEW e \in Exporters, MoveAside(e) PROVE Inv'
<1>1. /\ Outside /\ UNCHANGED <<staged, had>> /\ exporter[e].pc = "aside"
  BY DEF MoveAside, ExportAt
<1>2. /\ exporter[e] \in Locals /\ staged[e] \in Packs /\ dest \in Packs /\ Orderly(e)
      /\ staged' = [staged EXCEPT ![e] = staged[e]]
  BY <1>1, LocalsOf DEF Inv, Shape
<1>3. CASE /\ dest.exists /\ previous' = [previous EXCEPT ![e] = dest] /\ dest' = NoPack
           /\ Goto(e, "publish")
  <2>1. PICK x : x = [exporter[e] EXCEPT !.pc = "publish"]
    OBVIOUS
  <2>2. x \in Locals /\ x.pc = "publish" /\ exporter' = [exporter EXCEPT ![e] = x]
    BY <1>2, <1>3, <2>1 DEF Locals, Points, Goto
  <2>3. Safe(e)'
    BY <1>3, <2>2 DEF Safe, Inv, Shape
  <2>4. Kept'
    BY <2>3 DEF Kept
  <2>5. Whole(dest) /\ Signed(dest) /\ staged[e].exists /\ Whole(staged[e]) /\ Signed(staged[e])
    BY <1>1, <1>2, <1>3 DEF Inv, Orderly, Passed
  <2>. QED
    BY <1>1, <1>2, <1>3, <2>2, <2>4, <2>5, NothingMade, NoPackEmpty, ExportInv
<1>4. CASE /\ exporter' = [exporter EXCEPT ![e].pc = "cleanup", ![e].raised = TRUE]
           /\ UNCHANGED <<dest, previous>>
  <2>1. PICK x : x = [exporter[e] EXCEPT !.pc = "cleanup", !.raised = TRUE]
    OBVIOUS
  <2>2. x \in Locals /\ x.pc = "cleanup" /\ exporter' = [exporter EXCEPT ![e] = x]
    BY <1>2, <1>4, <2>1 DEF Locals, Points
  <2>. QED
    BY <1>1, <1>4, <2>2, GoesOn DEF Passed
<1>. QED
  BY <1>3, <1>4 DEF MoveAside

LEMMA PublishInv == ASSUME Inv, NEW e \in Exporters, Publish(e) PROVE Inv'
<1>1. /\ Outside /\ UNCHANGED previous /\ exporter[e].pc = "publish"
  BY DEF Publish, ExportAt
<1>2. /\ exporter[e] \in Locals /\ staged[e] \in Packs /\ previous[e] \in Packs /\ dest \in Packs
      /\ Orderly(e) /\ Signed(dest)
      /\ previous' = [previous EXCEPT ![e] = previous[e]]
  BY <1>1, LocalsOf DEF Inv, Shape
<1>3. /\ staged[e].exists /\ Whole(staged[e]) /\ Signed(staged[e]) /\ Signed(previous[e])
      /\ previous[e].exists => Whole(previous[e])
  BY <1>1, <1>2 DEF Orderly, Passed
<1>4. CASE /\ dest' = staged[e] /\ staged' = [staged EXCEPT ![e] = NoPack]
           /\ exporter' = [exporter EXCEPT ![e].pc = "cleanup", ![e].preserve = FALSE]
  <2>1. PICK x : x = [exporter[e] EXCEPT !.pc = "cleanup", !.preserve = FALSE]
    OBVIOUS
  <2>2. x \in Locals /\ x.pc = "cleanup" /\ exporter' = [exporter EXCEPT ![e] = x]
    BY <1>2, <1>4, <2>1 DEF Locals, Points
  <2>3. Kept'
    BY <1>3, <1>4 DEF Kept
  <2>. QED
    BY <1>1, <1>2, <1>3, <1>4, <2>2, <2>3, NothingMade, NoPackEmpty, ExportInv DEF Passed
<1>5. CASE Goto(e, "restore") /\ UNCHANGED <<dest, staged, had>>
  <2>1. PICK x : x = [exporter[e] EXCEPT !.pc = "restore"]
    OBVIOUS
  <2>2. x \in Locals /\ x.pc = "restore" /\ exporter' = [exporter EXCEPT ![e] = x]
    BY <1>2, <1>5, <2>1 DEF Locals, Points, Goto
  <2>3. Kept'
    BY <1>1, <1>5, <2>2, KeptStays
  <2>4. staged' = [staged EXCEPT ![e] = staged[e]] /\ (dest'.exists => Whole(dest'))
    BY <1>5 DEF Inv, Shape
  <2>. QED
    BY <1>1, <1>2, <1>3, <1>5, <2>2, <2>3, <2>4, ExportInv
<1>. QED
  BY <1>4, <1>5 DEF Publish

\* The end of a transaction, whatever became of it.
LEMMA RestoreInv == ASSUME Inv, NEW e \in Exporters, Restore(e) PROVE Inv'
<1>1. /\ Outside /\ UNCHANGED <<staged, had>> /\ exporter[e].pc = "restore"
  BY DEF Restore, ExportAt
<1>2. /\ exporter[e] \in Locals /\ staged[e] \in Packs /\ previous[e] \in Packs /\ dest \in Packs
      /\ Orderly(e) /\ Signed(dest) /\ (dest.exists => Whole(dest))
      /\ staged' = [staged EXCEPT ![e] = staged[e]]
  BY <1>1, LocalsOf DEF Inv, Shape
<1>3. /\ Signed(staged[e]) /\ Signed(previous[e])
      /\ previous[e].exists => Whole(previous[e])
  BY <1>1, <1>2 DEF Orderly
<1>4. CASE /\ previous[e].exists /\ dest' = previous[e] /\ previous' = [previous EXCEPT ![e] = NoPack]
           /\ exporter' = [exporter EXCEPT ![e].pc = "cleanup", ![e].raised = TRUE, ![e].preserve = FALSE]
  <2>1. PICK x : x = [exporter[e] EXCEPT !.pc = "cleanup", !.raised = TRUE, !.preserve = FALSE]
    OBVIOUS
  <2>2. x \in Locals /\ x.pc = "cleanup" /\ exporter' = [exporter EXCEPT ![e] = x]
    BY <1>2, <1>4, <2>1 DEF Locals, Points
  <2>3. Kept'
    BY <1>4 DEF Kept
  <2>. QED
    BY <1>1, <1>2, <1>3, <1>4, <2>2, <2>3, NothingMade, NoPackEmpty, ExportInv DEF Passed
<1>5. CASE UNCHANGED <<dest, previous>> /\ ~previous[e].exists
           /\ exporter' = [exporter EXCEPT ![e].pc = "cleanup", ![e].raised = TRUE]
  <2>1. PICK x : x = [exporter[e] EXCEPT !.pc = "cleanup", !.raised = TRUE]
    OBVIOUS
  <2>2. x \in Locals /\ x.pc = "cleanup" /\ exporter' = [exporter EXCEPT ![e] = x]
    BY <1>2, <1>5, <2>1 DEF Locals, Points
  <2>3. Kept'
    BY <1>1, <1>5, <2>2, KeptUnused
  <2>4. previous' = [previous EXCEPT ![e] = previous[e]]
    BY <1>5 DEF Inv, Shape
  <2>. QED
    BY <1>1, <1>2, <1>3, <1>5, <2>2, <2>3, <2>4, ExportInv DEF Passed
<1>6. CASE UNCHANGED <<dest, previous>>
           /\ exporter' = [exporter EXCEPT ![e].pc = "cleanup", ![e].raised = TRUE, ![e].preserve = TRUE]
  <2>1. PICK x : x = [exporter[e] EXCEPT !.pc = "cleanup", !.raised = TRUE, !.preserve = TRUE]
    OBVIOUS
  <2>2. x \in Locals /\ x.pc = "cleanup" /\ x.preserve /\ exporter' = [exporter EXCEPT ![e] = x]
    BY <1>2, <1>6, <2>1 DEF Locals, Points
  <2>3. Kept'
    BY <1>1, <1>6, <2>2, KeptStays
  <2>4. previous' = [previous EXCEPT ![e] = previous[e]]
    BY <1>6 DEF Inv, Shape
  <2>. QED
    BY <1>1, <1>2, <1>3, <1>6, <2>2, <2>3, <2>4, ExportInv DEF Passed
<1>. QED
  BY <1>4, <1>5, <1>6 DEF Restore

\* What is removed with a transaction is not what keeps a generation.
LEMMA CleanupInv == ASSUME Inv, NEW e \in Exporters, Cleanup(e) PROVE Inv'
<1>1. /\ Outside /\ UNCHANGED <<dest, had>> /\ exporter[e].pc = "cleanup"
  BY DEF Cleanup, ExportAt
<1>2. /\ exporter[e] \in Locals /\ staged[e] \in Packs /\ previous[e] \in Packs /\ dest \in Packs
      /\ Orderly(e) /\ Signed(dest) /\ (dest.exists => Whole(dest))
  BY LocalsOf DEF Inv
<1>3. CASE /\ ~(exporter[e].preserve /\ previous[e].exists)
           /\ staged' = [staged EXCEPT ![e] = NoPack] /\ previous' = [previous EXCEPT ![e] = NoPack]
           /\ exporter' = [exporter EXCEPT ![e] = NoExport]
  <2>1. ~Safe(e)
    BY <1>1, <1>3 DEF Safe
  <2>2. ASSUME NEW f \in Exporters, Safe(f) PROVE Safe(f)'
    BY <1>3, <2>1, <2>2 DEF Safe, Inv, Shape
  <2>3. Kept'
    BY <1>1, <2>2 DEF Inv, Kept
  <2>4. NoExport.pc = "idle"
    BY DEF NoExport
  <2>. QED
    BY <1>1, <1>2, <1>3, <2>3, <2>4, NothingMade, NoPackEmpty, ExportInv DEF Passed
<1>4. CASE Goto(e, "left") /\ UNCHANGED <<staged, previous>>
  <2>1. PICK x : x = [exporter[e] EXCEPT !.pc = "left"]
    OBVIOUS
  <2>2. x \in Locals /\ x.pc = "left" /\ exporter' = [exporter EXCEPT ![e] = x]
    BY <1>2, <1>4, <2>1 DEF Locals, Points, Goto
  <2>3. Kept'
    BY <1>1, <1>4, <2>2, KeptStays
  <2>4. /\ staged' = [staged EXCEPT ![e] = staged[e]] /\ previous' = [previous EXCEPT ![e] = previous[e]]
        /\ Signed(staged[e]) /\ Signed(previous[e]) /\ (previous[e].exists => Whole(previous[e]))
    BY <1>2, <1>4 DEF Inv, Shape, Orderly
  <2>. QED
    BY <1>1, <1>2, <1>4, <2>2, <2>3, <2>4, ExportInv DEF Passed
<1>. QED
  BY <1>3, <1>4 DEF Cleanup

LEMMA DiesInv == ASSUME Inv, NEW e \in Exporters, Dies(e) PROVE Inv'
<1>1. Outside /\ UNCHANGED <<dest, staged, previous, had>> /\ Goto(e, "left")
  BY DEF Dies
<1>2. /\ exporter[e] \in Locals /\ staged[e] \in Packs /\ previous[e] \in Packs /\ dest \in Packs
      /\ Orderly(e) /\ Signed(dest) /\ (dest.exists => Whole(dest))
  BY LocalsOf DEF Inv
<1>3. PICK x : x = [exporter[e] EXCEPT !.pc = "left"]
  OBVIOUS
<1>4. x \in Locals /\ x.pc = "left" /\ exporter' = [exporter EXCEPT ![e] = x]
  BY <1>1, <1>2, <1>3 DEF Locals, Points, Goto
<1>5. Kept'
  BY <1>1, <1>4, KeptStays
<1>6. /\ staged' = [staged EXCEPT ![e] = staged[e]] /\ previous' = [previous EXCEPT ![e] = previous[e]]
      /\ Signed(staged[e]) /\ Signed(previous[e]) /\ (previous[e].exists => Whole(previous[e]))
  BY <1>1, <1>2 DEF Inv, Shape, Orderly
<1>. QED
  BY <1>1, <1>2, <1>4, <1>5, <1>6, ExportInv DEF Passed

-----------------------------------------------------------------------------
(* The ticket's writers, who edits the pack, and who attaches to it.       *)

\* A step that moves no exporter and may change the published pack.
LEMMA PackStays ==
  ASSUME Inv, Shape', UNCHANGED <<exporter, staged, previous, had>>,
         dest'.exists = dest.exists, dest'.manifest = dest.manifest,
         (\A p \in Packs : Signed(p) => Signed(p)'), Signed(dest)'
  PROVE  Inv'
<1>1. Kept'
  BY DEF Inv, Kept, Safe
<1>2. \A e \in Exporters : Orderly(e)'
  BY DEF Inv, Shape, Orderly, Whole
<1>3. (dest.exists => Whole(dest))'
  BY DEF Inv, Whole
<1>. QED
  BY <1>1, <1>2, <1>3 DEF Inv

LEMMA SignerStays == ASSUME UNCHANGED signer PROVE \A p \in Packs : Signed(p) => Signed(p)'
BY DEF Signed

LEMMA TicketInv == ASSUME Inv, TicketWrites PROVE Inv'
<1>1. UNCHANGED <<exporter, dest, staged, previous, signer, anchorer, had>>
  BY DEF TicketWrites, AppendEvent, WriteMetadata, EditArtifact
<1>2. source' \in [events : Nat, meta : Nat, recs : SUBSET Contents, body : Contents, hashed : BOOLEAN]
  <2>1. source \in [events : Nat, meta : Nat, recs : SUBSET Contents, body : Contents, hashed : BOOLEAN]
    BY DEF Inv, Shape
  <2>2. CASE AppendEvent
    <3>1. PICK recs \in {source.recs, source.recs \cup {source.body}}, hashed \in {source.hashed, TRUE} :
            source' = [source EXCEPT !.events = @ + 1, !.recs = recs, !.hashed = hashed]
      BY <2>2 DEF AppendEvent
    <3>2. recs \in SUBSET Contents /\ source.events + 1 \in Nat
      BY <2>1
    <3>3. hashed \in BOOLEAN
      BY <2>1
    <3>. QED
      BY <2>1, <3>1, <3>2, <3>3
  <2>3. CASE WriteMetadata
    BY <2>1, <2>3 DEF WriteMetadata
  <2>4. CASE EditArtifact
    BY <2>1, <2>4 DEF EditArtifact, Contents
  <2>. QED
    BY <2>2, <2>3, <2>4 DEF TicketWrites
<1>3. Shape' /\ Signed(dest)'
  BY <1>1, <1>2 DEF Inv, Shape, Signed
<1>. QED
  BY <1>1, <1>3, SignerStays, PackStays

LEMMA EditPackInv == ASSUME Inv, EditPack PROVE Inv'
<1>1. UNCHANGED <<source, exporter, staged, previous, signer, anchorer, had>> /\ dest \in Packs
  BY DEF EditPack, Inv, Shape
<1>2. /\ dest' \in Packs /\ dest'.exists = dest.exists /\ dest'.manifest = dest.manifest
      /\ dest'.sig = dest.sig
  <2>1. CASE dest' = [dest EXCEPT !.files.bodies = {<<b[1], 2>> : b \in @}]
    <3>1. {<<b[1], 2>> : b \in dest.files.bodies} \subseteq Contents \X {0, 1, 2}
      BY <1>1 DEF Packs, Files
    <3>. QED
      BY <1>1, <2>1, <3>1 DEF Packs, Files
  <2>2. CASE dest' = [dest EXCEPT !.files.meta = 0] \/ dest' = [dest EXCEPT !.files.bodies = {}]
    BY <1>1, <2>2 DEF Packs, Files
  <2>4. ASSUME NEW x \in AddedNames, dest' = [dest EXCEPT !.added = @ \cup {x}]
        PROVE  /\ dest' \in Packs /\ dest'.exists = dest.exists /\ dest'.manifest = dest.manifest
               /\ dest'.sig = dest.sig
    BY <1>1, <2>4 DEF Packs
  <2>3. CASE dest' = [dest EXCEPT !.anchors = NoFiles]
    BY <1>1, <2>3, NothingMade DEF Packs
  <2>. QED
    BY <2>1, <2>2, <2>3, <2>4 DEF EditPack
<1>3. Shape' /\ Signed(dest)'
  BY <1>1, <1>2 DEF Inv, Shape, Signed
<1>. QED
  BY <1>1, <1>2, <1>3, SignerStays, PackStays

LEMMA AnchorInv == ASSUME Inv, AnchorRead \/ AnchorWrite PROVE Inv'
<1>1. UNCHANGED <<source, exporter, staged, previous, signer, had>> /\ dest \in Packs
      /\ anchorer \in [pc : {"idle", "write", "done"}, target : Files]
  BY DEF AnchorRead, AnchorWrite, Inv, Shape
<1>2. /\ dest' \in Packs /\ dest'.exists = dest.exists /\ dest'.manifest = dest.manifest
      /\ dest'.sig = dest.sig
      /\ anchorer' \in [pc : {"idle", "write", "done"}, target : Files]
  <2>1. CASE AnchorRead
    BY <1>1, <2>1 DEF AnchorRead, Packs
  <2>2. CASE AnchorWrite
    BY <1>1, <2>2 DEF AnchorWrite, Packs
  <2>. QED
    BY <2>1, <2>2
<1>3. Shape' /\ Signed(dest)'
  BY <1>1, <1>2 DEF Inv, Shape, Signed
<1>. QED
  BY <1>1, <1>2, <1>3, SignerStays, PackStays

\* While the signer reads, no pack has a signature.
LEMMA SignReadInv == ASSUME Inv, SignReadManifest \/ SignReadAnchors PROVE Inv'
<1>1. UNCHANGED <<source, exporter, dest, staged, previous, anchorer, had>> /\ dest \in Packs
      /\ signer \in [pc : {"idle", "anchors", "write", "done"}, man : Files, anch : Files]
      /\ signer.pc # "done"
  BY DEF SignReadManifest, SignReadAnchors, Inv, Shape
<1>2. signer' \in [pc : {"idle", "anchors", "write", "done"}, man : Files, anch : Files]
  <2>1. CASE SignReadManifest
    BY <1>1, <2>1 DEF SignReadManifest, Packs
  <2>2. CASE SignReadAnchors
    BY <1>1, <2>2 DEF SignReadAnchors, Packs
  <2>. QED
    BY <2>1, <2>2
<1>3. \A p \in Packs : Signed(p) => Signed(p)'
  BY <1>1 DEF Signed
<1>4. Shape' /\ Signed(dest)'
  BY <1>1, <1>2 DEF Inv, Shape, Signed
<1>. QED
  BY <1>1, <1>3, <1>4, PackStays

LEMMA SignWriteInv == ASSUME Inv, SignWrite PROVE Inv'
<1>1. UNCHANGED <<source, exporter, staged, previous, anchorer, had>> /\ dest \in Packs
      /\ signer \in [pc : {"idle", "anchors", "write", "done"}, man : Files, anch : Files]
      /\ signer.pc = "write" /\ signer' = [signer EXCEPT !.pc = "done"]
  BY DEF SignWrite, Inv, Shape
<1>2. /\ signer' \in [pc : {"idle", "anchors", "write", "done"}, man : Files, anch : Files]
      /\ signer'.pc = "done" /\ signer'.man = signer.man /\ signer'.anch = signer.anch
  BY <1>1
<1>3. /\ dest' \in Packs /\ dest'.exists = dest.exists /\ dest'.manifest = dest.manifest
      /\ dest'.sig = dest.sig \/ (dest'.sig.man = signer.man /\ dest'.sig.anch = signer.anch)
  <2>1. CASE dest' = dest
    BY <1>1, <2>1
  <2>2. CASE dest' = [dest EXCEPT !.sig = [made |-> TRUE, man |-> signer.man, anch |-> signer.anch]]
    BY <1>1, <2>2 DEF Packs, Signatures
  <2>. QED
    BY <2>1, <2>2 DEF SignWrite
<1>4. \A p \in Packs : Signed(p) => Signed(p)'
  BY <1>1 DEF Signed
<1>5. Shape'
  BY <1>1, <1>2, <1>3 DEF Inv, Shape
<1>6. Signed(dest)'
  BY <1>1, <1>2, <1>3 DEF Inv, Signed
<1>. QED
  BY <1>1, <1>3, <1>4, <1>5, <1>6, PackStays

LEMMA NextInv == Inv /\ [PackNext]_packVars => Inv'
<1>. SUFFICES ASSUME Inv, [PackNext]_packVars PROVE Inv'
  OBVIOUS
<1>1. CASE UNCHANGED packVars
  <2>1. Shape' /\ Signed(dest)'
    BY <1>1 DEF packVars, Inv, Shape, Signed
  <2>. QED
    BY <1>1, <2>1, SignerStays, PackStays DEF packVars
<1>2. ASSUME NEW e \in Exporters, Export(e) PROVE Inv'
  BY <1>2, ReadInv, CopyTicketInv, SnapshotBodyInv, WriteManifestInv, SelfCheckInv, SeeOldInv,
     MoveAsideInv, PublishInv, RestoreInv, CleanupInv, DiesInv DEF Export
<1>3. CASE Attaches
  BY <1>3, AnchorInv, SignReadInv, SignWriteInv DEF Attaches
<1>. QED
  BY <1>1, <1>2, <1>3, TicketInv, EditPackInv DEF PackNext

\* A published pack nobody edited is about one moment of its ticket, and a pack
\* that is accepted with its signature has the files and anchors that were signed
\* and none that was added, but under the name the verifier exempts, for any
\* exporters, writers, edits and faults (build_evidence_pack, sign_pack).
THEOREM PacksSound == PackSpec => []PackSound
<1>1. Inv => PublishedWhole
  BY DEF Inv, Whole, PublishedWhole
<1>2. Inv => SignedIsWhatIsThere
  <2>. SUFFICES ASSUME Inv, VerifyPack(dest, TRUE)
                PROVE  /\ signer.man = dest.files /\ signer.anch = dest.anchors
                       /\ dest.added \subseteq {"nested manifest.json"}
    BY DEF SignedIsWhatIsThere
  <2>1. /\ dest.sig.made /\ dest.sig.man = dest.manifest /\ dest.manifest = dest.files
        /\ dest.sig.anch = dest.anchors /\ dest.added \subseteq {"nested manifest.json"}
    BY DEF VerifyPack, SignatureValid, FilesMatch, Unlisted, Anchored
  <2>. QED
    BY <2>1 DEF Inv, Signed
<1>. QED
  BY InitInv, NextInv, <1>1, <1>2, PTL DEF PackSpec, PackSound

\* Once the destination has held a pack a whole generation stays on disk,
\* whatever fails and whoever dies in a swap (build_evidence_pack).
THEOREM GenerationsKept == PackSpec => []GenerationKept
<1>1. Inv => GenerationKept
  BY DEF Inv, Kept, Safe, GenerationKept
<1>. QED
  BY InitInv, NextInv, <1>1, PTL DEF PackSpec

-----------------------------------------------------------------------------
(* The replay of an event chain.                                           *)


Verdicts == {"none", "accepted", "refused"}
Entries == [step : STRING, finished : BOOLEAN]

\* One event more.
Grows(e, n) ==
  /\ mode \in Modes /\ mode' = mode /\ meta \in Metadata[mode] /\ meta' = meta
  /\ log \in Seq(Alphabet[mode]) /\ e \in Alphabet[mode]
  /\ log' = Append(log, e) /\ n = Len(log) + 1

EndOf == Len(log) + 1

(* What one event more changes of the chain. *)
LEMMA GrownLog ==
  ASSUME NEW e, NEW n, Grows(e, n)
  PROVE  /\ n \in Nat \ {0} /\ EndOf = n /\ EndOf' = n + 1
         /\ Len(log) \in Nat /\ DOMAIN log = 1..Len(log) /\ DOMAIN log' = 1..n
         /\ \A i \in DOMAIN log : i \in Nat /\ i < n /\ log'[i] = log[i] /\ i \in DOMAIN log'
         /\ log'[n] = e /\ n \in DOMAIN log' /\ n \notin DOMAIN log
         /\ \A i \in DOMAIN log' : i = n \/ i \in DOMAIN log
         /\ log' \in Seq(Alphabet[mode])
  BY DEF Grows, EndOf

LEMMA EventShape ==
  ASSUME mode \in Modes, NEW e \in Alphabet[mode]
  PROVE  /\ e.t \in TypesOf[mode] /\ e.id \in STRING /\ e.s \in STRING /\ e.r \in STRING
         /\ e.k \in BOOLEAN /\ e.v \in BOOLEAN /\ e.id # "none"
         /\ e.t = "ticket_created" => e.s \in DOMAIN InitialState
         /\ e.t = "close_phase" => e.r \in {"closing", "closed"}
         /\ e.t = "metadata_updated" => e.r # "none"
  BY ReplayAssumption DEF WellFormedEvent

LEMMA GrownIdx ==
  ASSUME NEW e, NEW n, Grows(e, n), NEW types
  PROVE  Idx(types)' = Idx(types) \cup (IF e.t \in types THEN {n} ELSE {})
<1>1. \A i \in DOMAIN log : i \in Idx(types)' <=> i \in Idx(types)
  BY GrownLog DEF Idx
<1>2. n \in Idx(types)' <=> e.t \in types
  BY GrownLog DEF Idx
<1>3. Idx(types)' \subseteq DOMAIN log' /\ Idx(types) \subseteq DOMAIN log
  BY DEF Idx
<1> QED BY <1>1, <1>2, <1>3, GrownLog

Looks(e) == e.v \/ mode \notin {"execution", "noModel"}

LEMMA GrownOf ==
  ASSUME NEW e, NEW n, Grows(e, n), NEW t
  PROVE  Of(t)' = Of(t) \cup (IF e.t = t /\ Looks(e) THEN {n} ELSE {})
<1>1. \A i \in DOMAIN log : i \in Of(t)' <=> i \in Of(t)
  BY GrownLog DEF Idx, Of, Seen, Grows
<1>2. n \in Of(t)' <=> e.t = t /\ Looks(e)
  BY GrownLog DEF Idx, Of, Seen, Looks, Grows
<1>3. Of(t)' \subseteq DOMAIN log' /\ Of(t) \subseteq DOMAIN log
  BY DEF Idx, Of
<1> QED BY <1>1, <1>2, <1>3, GrownLog

LEMMA GrownEarlier ==
  ASSUME NEW e, NEW n, Grows(e, n), NEW t
  PROVE  /\ \A i \in DOMAIN log : Earlier(i, t)' = Earlier(i, t)
         /\ Earlier(n, t)' = {j \in Of(t) : log[j].id = e.id}
<1>1. Of(t) \subseteq DOMAIN log
  BY DEF Idx, Of
<1>2. ASSUME NEW i \in DOMAIN log PROVE Earlier(i, t)' = Earlier(i, t)
  <2>1. {j \in Of(t)' : j < i /\ log'[j].id = log'[i].id} = {j \in Of(t) : j < i /\ log[j].id = log[i].id}
    <3>1. \A j \in Of(t) : log'[j] = log[j]
      BY <1>1, GrownLog
    <3>2. ~(n < i) /\ log'[i] = log[i]
      BY GrownLog
    <3> QED BY <3>1, <3>2, GrownOf
  <2> QED BY <2>1 DEF Earlier
<1>3. {j \in Of(t)' : j < n /\ log'[j].id = log'[n].id} = {j \in Of(t) : log[j].id = e.id}
  <2>1. \A j \in Of(t) : j < n /\ log'[j] = log[j]
    BY <1>1, GrownLog
  <2>2. ~(n < n) /\ log'[n] = e
    BY GrownLog
  <2> QED BY <2>1, <2>2, GrownOf
<1> QED BY <1>2, <1>3 DEF Earlier

LEMMA GrownBetween ==
  ASSUME NEW e, NEW n, Grows(e, n), NEW t, NEW j \in DOMAIN log
  PROVE  /\ \A i \in DOMAIN log : Between(j, i, t)' <=> Between(j, i, t)
         /\ Between(j, n, t)' <=> Between(j, n, t)
         /\ Between(j, EndOf, t) <=> Between(j, n, t)
         /\ Between(j, EndOf, t)' <=> Between(j, n, t) \/ (e.t = t /\ Looks(e) /\ e.id = log[j].id)
<1>1. Of(t) \subseteq DOMAIN log
  BY DEF Idx, Of
<1>2. \A k \in Of(t) : k < n /\ log'[k] = log[k] /\ k \in Nat
  BY <1>1, GrownLog
<1>3. log'[j] = log[j] /\ log'[n] = e /\ j < n /\ n \in Nat /\ j \in Nat /\ EndOf = n /\ EndOf' = n + 1
  BY GrownLog
<1>4. \A i \in DOMAIN log : i < n /\ i \in Nat
  BY GrownLog
<1>5. \A i \in DOMAIN log : Between(j, i, t)' <=> Between(j, i, t)
  BY <1>2, <1>3, <1>4, GrownOf DEF Between
<1>6. Between(j, n, t)' <=> Between(j, n, t)
  BY <1>2, <1>3, GrownOf DEF Between
<1>7. Between(j, EndOf, t)' <=> Between(j, n, t) \/ (e.t = t /\ Looks(e) /\ e.id = log[j].id)
  BY <1>2, <1>3, GrownOf DEF Between
<1> QED BY <1>3, <1>5, <1>6, <1>7 DEF Between

LEMMA OfLog == \A t : Of(t) \subseteq DOMAIN log
  BY DEF Idx, Of

LEMMA BelowOf ==
  ASSUME NEW e, NEW n, Grows(e, n), NEW t
  PROVE  /\ \A k \in Of(t) : k \in Of(t)' /\ k \in Nat /\ k < n /\ log'[k] = log[k] /\ k \in DOMAIN log
         /\ \A k \in Of(t)' : k \in Nat /\ k <= n /\ (k < n => k \in Of(t))
<1>1. Of(t) \subseteq DOMAIN log
  BY OfLog
<1>2. Of(t) \subseteq Of(t)' /\ Of(t)' \subseteq Of(t) \cup {n}
  BY GrownOf
<1>3. \A k \in DOMAIN log : k \in Nat /\ k < n /\ log'[k] = log[k]
  BY GrownLog
<1>4. n \in Nat
  BY GrownLog
<1> QED BY <1>1, <1>2, <1>3, <1>4

LEMMA BelowIdx ==
  ASSUME NEW e, NEW n, Grows(e, n), NEW types
  PROVE  /\ \A k \in Idx(types) :
              k \in Idx(types)' /\ k \in Nat /\ k < n /\ log'[k] = log[k] /\ k \in DOMAIN log
         /\ \A k \in Idx(types)' : k \in Nat /\ k <= n /\ (k < n => k \in Idx(types))
<1>1. Idx(types) \subseteq DOMAIN log
  BY DEF Idx
<1>2. Idx(types) \subseteq Idx(types)' /\ Idx(types)' \subseteq Idx(types) \cup {n}
  BY GrownIdx
<1>3. \A k \in DOMAIN log : k \in Nat /\ k < n /\ log'[k] = log[k]
  BY GrownLog
<1>4. n \in Nat
  BY GrownLog
<1> QED BY <1>1, <1>2, <1>3, <1>4

(* The execution.                                                          *)

IsResult(x) == DOMAIN x = {"att", "gates", "outcome", "checks", "finished"}

ExecShape ==
  IsResult(exec.last) /\ exec.birth \in BOOLEAN
  /\ exec = [steps |-> exec.steps, ops |-> exec.ops, open |-> exec.open, birth |-> exec.birth, last |-> exec.last]

\* A table is what the starts and the ends of the chain make of it.
Tabled(table, start, end) ==
  /\ DOMAIN table = {log[j].id : j \in Of(start)}
  /\ \A id \in DOMAIN table : table[id] \in Entries
  /\ \A j \in Of(start) :
       /\ table[log[j].id].step = log[j].s
       /\ table[log[j].id].finished <=> Between(j, EndOf, end)
       /\ \A k \in Of(start) : log[k].id = log[j].id => k = j
  /\ \A k \in Of(end) : \E j \in Of(start) : j < k /\ log[j].id = log[k].id

LEMMA TableUse ==
  ASSUME NEW e, NEW n, Grows(e, n), NEW start, NEW end, NEW table, Tabled(table, start, end)
  PROVE  /\ Earlier(n, start)' = {} <=> e.id \notin DOMAIN table
         /\ PairedWith(n, start, end)' /\ SameName(n, start)' <=> ~Unpaired(table, e)
<1> DEFINE S == {j \in Of(start) : log[j].id = e.id}
           T == {j \in Of(end) : log[j].id = e.id}
<1>1. Earlier(n, start)' = S /\ Earlier(n, end)' = T
  BY GrownEarlier
<1>2. S = {} <=> e.id \notin DOMAIN table
  BY DEF Tabled
<1>3. \A j \in S : log'[j] = log[j] /\ log'[n] = e
  BY GrownLog, OfLog
<1>4. SameName(n, start)' <=> \A j \in S : log[j].s = e.s
  BY <1>1, <1>3 DEF SameName
<1>5. PairedWith(n, start, end)' <=> (\E j \in S : \A k \in S : k = j) /\ T = {}
  BY <1>1 DEF PairedWith
<1>6. CASE S = {}
  BY <1>1, <1>2, <1>5, <1>6 DEF Unpaired
<1>7. ASSUME NEW j \in S PROVE PairedWith(n, start, end)' /\ SameName(n, start)' <=> ~Unpaired(table, e)
  <2>1. /\ table[e.id].step = log[j].s
        /\ table[e.id].finished <=> Between(j, EndOf, end)
        /\ \A k \in S : k = j
        /\ e.id \in DOMAIN table
    BY <1>7, <1>2 DEF Tabled
  <2>2. T = {} <=> ~Between(j, EndOf, end)
    <3>1. \A k \in T : j < k /\ k < EndOf
      <4> SUFFICES ASSUME NEW k \in T PROVE j < k /\ k < EndOf
        OBVIOUS
      <4>1. PICK i \in Of(start) : i < k /\ log[i].id = log[k].id
        BY DEF Tabled
      <4>2. i = j
        BY <4>1, <2>1
      <4> QED BY <4>1, <4>2, OfLog, GrownLog
    <3> QED BY <3>1 DEF Between
  <2> QED BY <1>4, <1>5, <2>1, <2>2 DEF Unpaired
<1> QED BY <1>1, <1>2, <1>6, <1>7

LEMMA TableStart ==
  ASSUME NEW e, NEW n, Grows(e, n), NEW start, NEW end, start # end, NEW table,
         Tabled(table, start, end), e.t = start, Looks(e), e.id \notin DOMAIN table
  PROVE  Tabled(Started(table, e), start, end)'
<1> DEFINE new == Started(table, e)
<1>1. Of(start)' = Of(start) \cup {n} /\ Of(end)' = Of(end) /\ n \notin Of(start)
  <2>1. Of(start)' = Of(start) \cup {n}
    BY GrownOf
  <2>2. Of(end)' = Of(end)
    BY GrownOf
  <2> QED BY <2>1, <2>2, GrownLog, OfLog
<1>2. \A j \in Of(start) \cup Of(end) : log'[j] = log[j] /\ j < n /\ j \in DOMAIN log
  BY GrownLog, OfLog
<1>3. log'[n] = e
  BY GrownLog
<1>4. DOMAIN new = DOMAIN table \cup {e.id} /\ new[e.id] = [step |-> e.s, finished |-> FALSE]
      /\ \A id \in DOMAIN table : new[id] = table[id]
  BY DEF Started
<1>5. DOMAIN new = {log'[j].id : j \in Of(start)'}
  BY <1>1, <1>2, <1>3, <1>4 DEF Tabled
<1>6. \A id \in DOMAIN new : new[id] \in Entries
  <2>1. [step |-> e.s, finished |-> FALSE] \in Entries
    BY EventShape DEF Entries, Grows
  <2> QED BY <1>4, <2>1 DEF Tabled
<1>7. ASSUME NEW j \in Of(start)'
      PROVE  /\ new[log'[j].id].step = log'[j].s
             /\ new[log'[j].id].finished <=> Between(j, EndOf, end)'
             /\ \A k \in Of(start)' : log'[k].id = log'[j].id => k = j
  <2>1. CASE j = n
    <3>1. ~Between(n, EndOf, end)'
      BY <1>1, <1>2, GrownLog DEF Between
    <3>2. \A k \in Of(start) : log[k].id # e.id
      BY DEF Tabled
    <3> QED BY <2>1, <3>1, <3>2, <1>1, <1>2, <1>3, <1>4
  <2>2. CASE j \in Of(start)
    <3>1. log[j].id \in DOMAIN table
      BY <2>2 DEF Tabled
    <3>2. Between(j, EndOf, end)' <=> Between(j, EndOf, end)
      BY <2>2, <1>2, GrownBetween
    <3> QED BY <2>2, <3>1, <3>2, <1>1, <1>2, <1>3, <1>4 DEF Tabled
  <2> QED BY <2>1, <2>2, <1>1
<1>8. \A k \in Of(end)' : \E j \in Of(start)' : j < k /\ log'[j].id = log'[k].id
  BY <1>1, <1>2 DEF Tabled
<1> QED BY <1>5, <1>6, <1>7, <1>8 DEF Tabled

LEMMA TableEnd ==
  ASSUME NEW e, NEW n, Grows(e, n), NEW start, NEW end, start # end, NEW table,
         Tabled(table, start, end), e.t = end, Looks(e), ~Unpaired(table, e)
  PROVE  Tabled(Finished(table, e), start, end)'
<1> DEFINE new == Finished(table, e)
<1>1. Of(start)' = Of(start) /\ Of(end)' = Of(end) \cup {n}
  BY GrownOf
<1>2. \A j \in Of(start) \cup Of(end) : log'[j] = log[j] /\ j < n /\ j \in DOMAIN log
  BY GrownLog, OfLog
<1>3. log'[n] = e
  BY GrownLog
<1>4. /\ e.id \in DOMAIN table /\ DOMAIN new = DOMAIN table
      /\ \A id \in DOMAIN table : new[id] = IF id = e.id THEN [step |-> table[id].step, finished |-> TRUE] ELSE table[id]
  BY DEF Finished, Unpaired
<1>5. \A id \in DOMAIN table :
        /\ new[id] \in Entries
        /\ new[id].step = table[id].step
        /\ new[id].finished <=> id = e.id \/ table[id].finished
  <2> SUFFICES ASSUME NEW id \in DOMAIN table
               PROVE  /\ new[id] \in Entries
                      /\ new[id].step = table[id].step
                      /\ new[id].finished <=> id = e.id \/ table[id].finished
    OBVIOUS
  <2>1. table[id] \in Entries
    BY DEF Tabled
  <2>3. CASE id = e.id
    <3>1. new[id] = [step |-> table[id].step, finished |-> TRUE]
      BY <1>4, <2>3
    <3>2. table[id].step \in STRING
      BY <2>1 DEF Entries
    <3> QED BY <2>3, <3>1, <3>2 DEF Entries
  <2>4. CASE id # e.id
    BY <1>4, <2>1, <2>4 DEF Entries
  <2> QED BY <2>3, <2>4
<1>6. DOMAIN new = {log'[j].id : j \in Of(start)'}
  BY <1>1, <1>2, <1>4 DEF Tabled
<1>7. ASSUME NEW j \in Of(start)
      PROVE  /\ new[log'[j].id].step = log'[j].s
             /\ new[log'[j].id].finished <=> Between(j, EndOf, end)'
             /\ \A k \in Of(start) : log'[k].id = log'[j].id => k = j
  <2>1. log[j].id \in DOMAIN table /\ log'[j] = log[j]
    BY <1>2 DEF Tabled
  <2>2. Between(j, EndOf, end)' <=> Between(j, EndOf, end) \/ e.id = log[j].id
    BY <1>2, GrownBetween
  <2>3. table[log[j].id].finished <=> Between(j, EndOf, end)
    BY DEF Tabled
  <2>4. new[log'[j].id].step = log'[j].s
    BY <2>1, <1>5 DEF Tabled
  <2>5. \A k \in Of(start) : log'[k].id = log'[j].id => k = j
    BY <1>2 DEF Tabled
  <2> QED BY <2>1, <2>2, <2>3, <2>4, <2>5, <1>5
<1>8. \A k \in Of(end)' : \E j \in Of(start)' : j < k /\ log'[j].id = log'[k].id
  BY <1>1, <1>2, <1>3, <1>4 DEF Tabled
<1>9. \A id \in DOMAIN new : new[id] \in Entries
  BY <1>4, <1>5
<1> QED BY <1>1, <1>6, <1>7, <1>8, <1>9 DEF Tabled

LEMMA TableKept ==
  ASSUME NEW e, NEW n, Grows(e, n), NEW start, NEW end, NEW table,
         Tabled(table, start, end), ~Looks(e) \/ e.t \notin {start, end}
  PROVE  Tabled(table, start, end)'
<1>1. Of(start)' = Of(start) /\ Of(end)' = Of(end)
  BY GrownOf
<1>2. \A j \in Of(start) \cup Of(end) : log'[j] = log[j] /\ j \in DOMAIN log
  BY GrownLog, OfLog
<1>3. \A j \in Of(start) : Between(j, EndOf, end)' <=> Between(j, EndOf, end)
  BY <1>2, GrownBetween
<1>4. {log'[j].id : j \in Of(start)} = {log[j].id : j \in Of(start)}
  BY <1>2
<1> QED BY <1>1, <1>2, <1>3, <1>4 DEF Tabled

\* The last audit is known: its gates, its end, and what the end reported.
LastKnown ==
  \/ Audits = {} /\ exec.last = NoCompletion
  \/ \E j \in Audits :
       /\ \A k \in Audits : k <= j
       /\ exec.last.att = log[j].id
       /\ exec.last.gates = "pass" <=>
            \E g \in Of("gate_checked") :
              /\ j < g /\ log[g].id = log[j].id /\ log[g].r = "pass"
              /\ \A h \in Of("gate_checked") : g < h => log[h].id # log[j].id
       /\ exec.last.finished <=> \E k \in Of("step_finished") : j < k /\ log[k].id = log[j].id
       /\ \A k \in Of("step_finished") : j < k /\ log[k].id = log[j].id =>
            /\ exec.last.outcome = log[k].r
            /\ exec.last.checks = IF log[k].k THEN exec.last.gates ELSE "other"

\* Nothing of an attempt follows its end.
EndsLast ==
  \A k \in Of("step_finished"), g \in Of("gate_checked") : log[g].id = log[k].id => g < k

OpenEffects ==
  {log[j].id : j \in {k \in Of("operation_started") :
                        log[k].s # "read_only" /\ ~Between(k, EndOf, "operation_finished")}}

ExecDescribed ==
  /\ exec.open = OpenEffects
  /\ exec.birth <=> \E j \in Idx({"ticket_created"}) : log[j].v
  /\ mode = "execution" =>
       /\ Tabled(exec.steps, "step_started", "step_finished")
       /\ Tabled(exec.ops, "operation_started", "operation_finished")
       /\ LastKnown /\ EndsLast

LEMMA GrownAudits ==
  ASSUME NEW e, NEW n, Grows(e, n)
  PROVE  Audits' = Audits \cup (IF e.t = "step_started" /\ Looks(e) /\ e.s = Step THEN {n} ELSE {})
<1>1. Of("step_started")' = Of("step_started") \cup (IF e.t = "step_started" /\ Looks(e) THEN {n} ELSE {})
  BY GrownOf
<1>2. \A j \in Of("step_started") : log'[j] = log[j]
  BY GrownLog, OfLog
<1>3. log'[n] = e
  BY GrownLog
<1> QED BY <1>1, <1>2, <1>3 DEF Audits

LEMMA AuditsBelow ==
  ASSUME NEW e, NEW n, Grows(e, n)
  PROVE  /\ \A k \in Audits : k \in Audits' /\ k \in Nat /\ k < n /\ log'[k] = log[k] /\ k \in DOMAIN log
         /\ \A k \in Audits' : k \in Nat /\ k <= n /\ (k < n => k \in Audits)
<1>1. Audits \subseteq Of("step_started")
  BY DEF Audits
<1>2. \A k \in Of("step_started") : k \in Nat /\ k < n /\ log'[k] = log[k] /\ k \in DOMAIN log
  BY BelowOf
<1>3. Audits \subseteq Audits' /\ Audits' \subseteq Audits \cup {n} /\ n \in Nat
  BY GrownAudits, GrownLog
<1> QED BY <1>1, <1>2, <1>3

(* What stands in a chain is sound or not whatever follows it.             *)
LEMMA ExecutionKept ==
  ASSUME NEW e, NEW n, Grows(e, n), NEW i \in DOMAIN log
  PROVE  ExecutionSoundAt(i)' <=> ExecutionSoundAt(i)
<1>1. /\ i \in Nat /\ i < n /\ n \in Nat /\ log'[i] = log[i] /\ mode' = mode
      /\ \A j \in DOMAIN log : j \in Nat /\ log'[j] = log[j]
  BY GrownLog DEF Grows
<1>2. \A t : Of(t) \subseteq DOMAIN log /\ Idx({t}) \subseteq DOMAIN log
  BY DEF Of, Idx
<1>3. ASSUME NEW start, NEW end
      PROVE  /\ PairedWith(i, start, end)' <=> PairedWith(i, start, end)
             /\ SameName(i, start)' <=> SameName(i, start)
  <2>1. Earlier(i, start)' = Earlier(i, start) /\ Earlier(i, end)' = Earlier(i, end)
    BY GrownEarlier
  <2>2. \A j \in Earlier(i, start) : log'[j] = log[j]
    BY <1>1, <1>2 DEF Earlier
  <2> QED BY <1>1, <2>1, <2>2 DEF PairedWith, SameName
<1>4. \A t : Earlier(i, t)' = Earlier(i, t)
  BY GrownEarlier
<1>5. EffectsEnded(i)' <=> EffectsEnded(i)
  <2>1. \A j \in Of("operation_started") :
          Between(j, i, "operation_finished")' <=> Between(j, i, "operation_finished")
    BY GrownBetween, <1>2
  <2>2. /\ \A j \in Of("operation_started") : j \in Of("operation_started")' /\ log'[j] = log[j]
        /\ \A j \in Of("operation_started")' : j < i => j \in Of("operation_started")
    <3>1. \A k \in Of("operation_started")' : k \in Nat /\ (k < n => k \in Of("operation_started"))
      BY BelowOf
    <3>2. \A k \in Of("operation_started") : k \in Of("operation_started")' /\ log'[k] = log[k] /\ k \in Nat
      BY BelowOf
    <3> QED BY <1>1, <3>1, <3>2
  <2> QED BY <2>1, <2>2 DEF EffectsEnded
<1>6. /\ \A k \in Audits : k \in Audits' /\ log'[k] = log[k]
      /\ \A k \in Audits' : k < i => k \in Audits
  BY <1>1, AuditsBelow
<1>7. MustBeAudited(i)' <=> MustBeAudited(i)
  <2>1. /\ \A k \in Idx({"ticket_created"}) : k \in Idx({"ticket_created"})' /\ log'[k] = log[k]
        /\ \A k \in Idx({"ticket_created"})' : k < i => k \in Idx({"ticket_created"})
    <3>1. \A k \in Idx({"ticket_created"})' : k \in Nat /\ (k < n => k \in Idx({"ticket_created"}))
      BY BelowIdx
    <3>2. \A k \in Idx({"ticket_created"}) : k \in Idx({"ticket_created"})' /\ log'[k] = log[k]
      BY BelowIdx
    <3> QED BY <1>1, <3>1, <3>2
  <2> QED BY <1>1, <1>6, <2>1 DEF MustBeAudited
<1>8. Audited(i)' <=> Audited(i)
  <2>1. /\ \A k \in Of("step_finished") :
             k \in Of("step_finished")' /\ log'[k] = log[k]
        /\ \A k \in Of("step_finished")' : k < i => k \in Of("step_finished")
    <3>1. \A k \in Of("step_finished")' : k \in Nat /\ (k < n => k \in Of("step_finished"))
      BY BelowOf
    <3>2. \A k \in Of("step_finished") : k \in Of("step_finished")' /\ log'[k] = log[k] /\ k \in Nat
      BY BelowOf
    <3> QED BY <1>1, <3>1, <3>2
  <2>2. /\ \A k \in Of("gate_checked") : k \in Of("gate_checked")' /\ log'[k] = log[k] /\ k \in Nat
        /\ \A k \in Of("gate_checked")' : k \in Nat /\ (k < i => k \in Of("gate_checked"))
    <3>1. \A k \in Of("gate_checked")' : k \in Nat /\ (k < n => k \in Of("gate_checked"))
      BY BelowOf
    <3>2. \A k \in Of("gate_checked") : k \in Of("gate_checked")' /\ log'[k] = log[k] /\ k \in Nat
      BY BelowOf
    <3> QED BY <1>1, <3>1, <3>2
  <2>3. \A g, k \in Nat : g < k /\ k < i => g < i
    BY <1>1
  <2>4. \A k \in Of("step_finished") : k \in Nat
    BY BelowOf
  <2>5. ASSUME Audited(i) PROVE Audited(i)'
    BY <1>1, <1>6, <2>1, <2>2, <2>3, <2>4, <2>5 DEF Audited
  <2>6. ASSUME Audited(i)' PROVE Audited(i)
    <3>1. PICK j \in Audits' :
            /\ j < i /\ \A k \in Audits' : k < i => k <= j
            /\ \E k \in Of("step_finished")' :
                 /\ j < k /\ k < i /\ log'[k].id = log'[j].id
                 /\ log'[k].r \in {"success", "degraded"} /\ log'[k].k
                 /\ \E g \in Of("gate_checked")' :
                      /\ j < g /\ g < k /\ log'[g].id = log'[j].id /\ log'[g].r = "pass"
                      /\ \A h \in Of("gate_checked")' :
                           g < h /\ h < i => log'[h].id # log'[j].id
      BY <1>1, <2>6 DEF Audited
    <3>2. PICK k \in Of("step_finished")' :
                 /\ j < k /\ k < i /\ log'[k].id = log'[j].id
                 /\ log'[k].r \in {"success", "degraded"} /\ log'[k].k
                 /\ \E g \in Of("gate_checked")' :
                      /\ j < g /\ g < k /\ log'[g].id = log'[j].id /\ log'[g].r = "pass"
                      /\ \A h \in Of("gate_checked")' :
                           g < h /\ h < i => log'[h].id # log'[j].id
      BY <3>1
    <3>3. PICK g \in Of("gate_checked")' :
                      /\ j < g /\ g < k /\ log'[g].id = log'[j].id /\ log'[g].r = "pass"
                      /\ \A h \in Of("gate_checked")' :
                           g < h /\ h < i => log'[h].id # log'[j].id
      BY <3>2
    <3>4. j \in Audits /\ k \in Of("step_finished") /\ g \in Of("gate_checked")
      BY <1>6, <2>1, <2>2, <2>3, <2>4, <3>1, <3>2, <3>3
    <3>5. /\ \A h \in Audits : h < i => h <= j
          /\ \A h \in Of("gate_checked") : g < h /\ h < i => log[h].id # log[j].id
      BY <1>6, <2>2, <3>1, <3>3, <3>4
    <3>6. log'[j] = log[j] /\ log'[k] = log[k] /\ log'[g] = log[g]
      BY <1>6, <2>1, <2>2, <3>4
    <3> QED BY <3>1, <3>2, <3>3, <3>4, <3>5, <3>6 DEF Audited
  <2> QED BY <2>5, <2>6
<1> QED BY <1>1, <1>3, <1>4, <1>5, <1>7, <1>8 DEF ExecutionSoundAt

LEMMA ExecAfter ==
  ASSUME ExecShape, NEW e, exec' = ExecConsume(e)
  PROVE  /\ exec'.birth = (exec.birth \/ (e.t = "ticket_created" /\ e.v))
         /\ exec'.last = IF e.v /\ mode # "noModel" THEN TrackCompletion(e) ELSE exec.last
         /\ exec'.steps = (CASE e.v /\ mode # "noModel" /\ e.t = "step_started" -> Started(exec.steps, e)
                             [] e.v /\ mode # "noModel" /\ e.t = "step_finished" -> Finished(exec.steps, e)
                             [] OTHER -> exec.steps)
         /\ exec'.ops = (CASE e.v /\ mode # "noModel" /\ e.t = "operation_started" -> Started(exec.ops, e)
                           [] e.v /\ mode # "noModel" /\ e.t = "operation_finished" -> Finished(exec.ops, e)
                           [] OTHER -> exec.ops)
         /\ exec'.open = (CASE e.v /\ e.t = "operation_started" /\ e.s # "read_only" -> exec.open \cup {e.id}
                            [] e.v /\ e.t = "operation_finished" -> exec.open \ {e.id}
                            [] OTHER -> exec.open)
         /\ exec' = [steps |-> exec'.steps, ops |-> exec'.ops, open |-> exec'.open,
                     birth |-> exec'.birth, last |-> exec'.last]
<1>1. exec = [steps |-> exec.steps, ops |-> exec.ops, open |-> exec.open, birth |-> exec.birth, last |-> exec.last]
  BY DEF ExecShape
<1> QED BY <1>1 DEF ExecConsume

LEMMA EffectsGrown ==
  ASSUME NEW e, NEW n, Grows(e, n)
  PROVE  OpenEffects' = CASE Looks(e) /\ e.t = "operation_started" /\ e.s # "read_only" -> OpenEffects \cup {e.id}
                          [] Looks(e) /\ e.t = "operation_finished" -> OpenEffects \ {e.id}
                          [] OTHER -> OpenEffects
<1> DEFINE Started1 == {k \in Of("operation_started") : log[k].s # "read_only"}
           Ended(k) == Between(k, n, "operation_finished")
           Ended1(k) == Between(k, EndOf, "operation_finished")'
<1>1. \A k \in Of("operation_started") : k \in DOMAIN log /\ log'[k] = log[k]
  BY BelowOf
<1>2. \A k \in Of("operation_started") :
        /\ Ended1(k) <=> Ended(k) \/ (e.t = "operation_finished" /\ Looks(e) /\ e.id = log[k].id)
        /\ Between(k, EndOf, "operation_finished") <=> Ended(k)
  BY <1>1, GrownBetween
<1>3. /\ Of("operation_started")' = Of("operation_started")
             \cup (IF e.t = "operation_started" /\ Looks(e) THEN {n} ELSE {})
      /\ log'[n] = e
  BY GrownOf, GrownLog
<1>4. OpenEffects = {log[j].id : j \in {k \in Started1 : ~Ended(k)}}
  BY <1>2 DEF OpenEffects
<1>5. OpenEffects' = {log'[j].id : j \in {k \in Of("operation_started")' : log'[k].s # "read_only" /\ ~Ended1(k)}}
  BY DEF OpenEffects
<1>6. CASE e.t = "operation_started" /\ Looks(e) /\ e.s # "read_only"
  <2>1. ~Ended1(n)
    <3>1. \A k \in Of("operation_finished")' : k \in Nat /\ k <= n
      BY BelowOf
    <3> QED BY <3>1, GrownLog DEF Between
  <2>2. {k \in Of("operation_started")' : log'[k].s # "read_only" /\ ~Ended1(k)} = {k \in Started1 : ~Ended(k)} \cup {n}
    BY <1>1, <1>2, <1>3, <1>6, <2>1
  <2>3. OpenEffects' = OpenEffects \cup {e.id}
    BY <1>1, <1>3, <1>4, <1>5, <2>2
  <2> QED BY <1>6, <2>3
<1>7. CASE ~(e.t = "operation_started" /\ Looks(e) /\ e.s # "read_only")
  <2>1. {k \in Of("operation_started")' : log'[k].s # "read_only" /\ ~Ended1(k)} = {k \in Started1 : ~Ended1(k)}
    BY <1>1, <1>3, <1>7
  <2>2. OpenEffects' = {log[j].id : j \in {k \in Started1 : ~Ended1(k)}}
    BY <1>1, <1>5, <2>1
  <2>3. CASE e.t = "operation_finished" /\ Looks(e)
    <3>1. {k \in Started1 : ~Ended1(k)} = {k \in Started1 : ~Ended(k) /\ log[k].id # e.id}
      BY <1>2, <2>3
    <3>2. OpenEffects' = OpenEffects \ {e.id}
      BY <1>4, <2>2, <3>1
    <3> QED BY <1>7, <2>3, <3>2
  <2>4. CASE ~(e.t = "operation_finished" /\ Looks(e))
    <3>1. {k \in Started1 : ~Ended1(k)} = {k \in Started1 : ~Ended(k)}
      BY <1>2, <2>4
    <3>2. OpenEffects' = OpenEffects
      BY <1>4, <2>2, <3>1
    <3> QED BY <1>7, <2>4, <3>2
  <2> QED BY <2>3, <2>4
<1> QED BY <1>6, <1>7

LEMMA EffectsJudged ==
  ASSUME NEW e, NEW n, Grows(e, n)
  PROVE  EffectsEnded(n)' <=> OpenEffects = {}
<1>1. \A k \in Of("operation_started") : k \in DOMAIN log /\ log'[k] = log[k] /\ k < n
                                         /\ k \in Of("operation_started")'
  BY BelowOf
<1>2. \A k \in Of("operation_started")' : k \in Nat /\ (k < n => k \in Of("operation_started"))
  BY BelowOf
<1>3. \A k \in Of("operation_started") :
        Between(k, n, "operation_finished")' <=> Between(k, EndOf, "operation_finished")
  BY <1>1, GrownBetween
<1>4. OpenEffects = {} <=>
        \A k \in Of("operation_started") :
           log[k].s # "read_only" => Between(k, EndOf, "operation_finished")
  BY DEF OpenEffects
<1>5. EffectsEnded(n)' <=>
        \A k \in Of("operation_started")' :
           k < n /\ log'[k].s # "read_only" => Between(k, n, "operation_finished")'
  BY DEF EffectsEnded
<1> QED BY <1>1, <1>2, <1>3, <1>4, <1>5

LEMMA AuditJudged ==
  ASSUME NEW e, NEW n, Grows(e, n), ExecShape, LastKnown, EndsLast, mode = "execution",
         e.t = "state_changed",
         exec.birth <=> \E j \in Idx({"ticket_created"}) : log[j].v
  PROVE  CompletionProblem(e) <=> e.r = "completed" /\ ~(MustBeAudited(n)' => Audited(n)')
<1> DEFINE G == Of("gate_checked")  F == Of("step_finished")
<1>1. /\ Audits' = Audits /\ Of("gate_checked")' = G /\ Of("step_finished")' = F
      /\ Idx({"ticket_created"})' = Idx({"ticket_created"})
  <2>1. Audits' = Audits
    BY GrownAudits
  <2>2. Of("gate_checked")' = G
    BY GrownOf
  <2>3. Of("step_finished")' = F
    BY GrownOf
  <2>4. Idx({"ticket_created"})' = Idx({"ticket_created"})
    BY GrownIdx
  <2> QED BY <2>1, <2>2, <2>3, <2>4
<1>2. /\ \A k \in Audits : log'[k] = log[k] /\ k \in DOMAIN log /\ k \in Nat /\ k < n
      /\ \A k \in G : log'[k] = log[k] /\ k \in Nat /\ k < n
      /\ \A k \in F : log'[k] = log[k] /\ k \in Nat /\ k < n
      /\ \A k \in Idx({"ticket_created"}) : log'[k] = log[k] /\ k \in Nat /\ k < n
  BY AuditsBelow, BelowOf, BelowIdx
<1>3. log'[n] = e
  BY GrownLog
<1>4. MustBeAudited(n)' <=> Audits # {} \/ (~e.k /\ exec.birth)
  BY <1>1, <1>2, <1>3 DEF MustBeAudited
<1>5. \A j \in Audits : log[j].id # "none"
  BY <1>2, EventShape DEF Grows
<1>6. Audits # {} <=> exec.last.att # "none"
  BY <1>5 DEF LastKnown, NoCompletion
<1>7. Audited(n)' <=> \E j \in Audits :
        /\ \A k \in Audits : k <= j
        /\ \E k \in F :
             /\ j < k /\ log[k].id = log[j].id
             /\ log[k].r \in {"success", "degraded"} /\ log[k].k
             /\ \E g \in G :
                  /\ j < g /\ g < k /\ log[g].id = log[j].id /\ log[g].r = "pass"
                  /\ \A h \in G : g < h => log[h].id # log[j].id
  BY <1>1, <1>2 DEF Audited
<1> DEFINE Good == /\ exec.last.att # "none" /\ exec.last.finished
                   /\ exec.last.outcome \in {"success", "degraded"}
                   /\ exec.last.checks = exec.last.gates
                   /\ exec.last.gates = "pass"
<1>8. Audited(n)' <=> Good
  <2>1. CASE Audits = {}
    BY <1>6, <1>7, <2>1
  <2>2. CASE Audits # {}
    <3>1. PICK j \in Audits :
       /\ \A k \in Audits : k <= j
       /\ exec.last.att = log[j].id
       /\ exec.last.gates = "pass" <=>
            \E g \in G :
              /\ j < g /\ log[g].id = log[j].id /\ log[g].r = "pass"
              /\ \A h \in G : g < h => log[h].id # log[j].id
       /\ exec.last.finished <=> \E k \in F : j < k /\ log[k].id = log[j].id
       /\ \A k \in F : j < k /\ log[k].id = log[j].id =>
            /\ exec.last.outcome = log[k].r
            /\ exec.last.checks = IF log[k].k THEN exec.last.gates ELSE "other"
      BY <2>2 DEF LastKnown
    <3>2. \A i \in Audits : (\A k \in Audits : k <= i) => i = j
      BY <1>2, <3>1
    <3>3. ASSUME Good PROVE Audited(n)'
      <4>1. PICK k \in F : j < k /\ log[k].id = log[j].id
        BY <3>1, <3>3
      <4>2. log[k].r \in {"success", "degraded"} /\ log[k].k
        BY <3>1, <3>3, <4>1
      <4>3. PICK g \in G : /\ j < g /\ log[g].id = log[j].id /\ log[g].r = "pass"
                           /\ \A h \in G : g < h => log[h].id # log[j].id
        BY <3>1, <3>3
      <4>4. g < k
        BY <4>1, <4>3 DEF EndsLast
      <4> QED BY <1>7, <3>1, <4>1, <4>2, <4>3, <4>4
    <3>4. ASSUME Audited(n)' PROVE Good
      <4>1. PICK k \in F : /\ j < k /\ log[k].id = log[j].id
                           /\ log[k].r \in {"success", "degraded"} /\ log[k].k
                           /\ \E g \in G :
                                /\ j < g /\ g < k /\ log[g].id = log[j].id /\ log[g].r = "pass"
                                /\ \A h \in G : g < h => log[h].id # log[j].id
        BY <1>7, <3>2, <3>4
      <4>2. exec.last.gates = "pass"
        BY <3>1, <4>1
      <4> QED BY <1>6, <2>2, <3>1, <4>1, <4>2
    <3> QED BY <3>3, <3>4
  <2> QED BY <2>1, <2>2
<1> QED BY <1>4, <1>6, <1>8 DEF CompletionProblem

LEMMA LastGrown ==
  ASSUME NEW e, NEW n, Grows(e, n), ExecShape, LastKnown, EndsLast, mode = "execution",
         Tabled(exec.steps, "step_started", "step_finished"), ~ExecProblem(e),
         exec' = ExecConsume(e)
  PROVE  LastKnown' /\ EndsLast'
<1> DEFINE G == Of("gate_checked")  F == Of("step_finished")
<1>1. /\ \A k \in Audits : log'[k] = log[k] /\ k \in DOMAIN log /\ k \in Nat /\ k < n
      /\ \A k \in G : log'[k] = log[k] /\ k \in Nat /\ k < n
      /\ \A k \in F : log'[k] = log[k] /\ k \in Nat /\ k < n
  BY AuditsBelow, BelowOf
<1>2. Audits' = Audits \cup (IF e.t = "step_started" /\ e.v /\ e.s = Step THEN {n} ELSE {})
  BY GrownAudits DEF Looks
<1>3. G' = G \cup (IF e.t = "gate_checked" /\ e.v THEN {n} ELSE {})
  BY GrownOf DEF Looks
<1>4. F' = F \cup (IF e.t = "step_finished" /\ e.v THEN {n} ELSE {})
  BY GrownOf DEF Looks
<1>5. log'[n] = e /\ n \in Nat /\ e.id # "none" /\ e.v \in BOOLEAN
  BY GrownLog, EventShape DEF Grows
<1>6. exec'.last = IF e.v THEN TrackCompletion(e) ELSE exec.last
  BY ExecAfter
<1>7. IsResult(exec.last)
  BY DEF ExecShape
<1>8. ASSUME e.v, e.t \in StepEvents
      PROVE  /\ \A k \in F : log[k].id # e.id
             /\ \A j \in Audits : log[j].id = e.id => e.s = Step
  <2>1. ~Unpaired(exec.steps, e)
    BY <1>8 DEF ExecProblem
  <2>2. PairedWith(n, "step_started", "step_finished")'
    BY <2>1, TableUse
  <2>3. {j \in F : log[j].id = e.id} = {}
    BY <2>2, GrownEarlier DEF PairedWith
  <2>4. \A j \in Audits : j \in Of("step_started") /\ log[j].s = Step
    BY DEF Audits
  <2>5. exec.steps[e.id].step = e.s
    BY <2>1 DEF Unpaired
  <2>6. \A j \in Audits : exec.steps[log[j].id].step = log[j].s
    BY <2>4 DEF Tabled
  <2> QED BY <2>3, <2>4, <2>5, <2>6
<1>9. EndsLast'
  <2>1. \A k \in F, g \in G : log[g].id = log[k].id => g < k
    BY DEF EndsLast
  <2>2. CASE e.t = "gate_checked" /\ e.v
    BY <1>1, <1>3, <1>4, <1>5, <1>8, <2>1, <2>2 DEF EndsLast, StepEvents
  <2>3. CASE e.t = "step_finished" /\ e.v
    BY <1>1, <1>3, <1>4, <1>5, <2>1, <2>3 DEF EndsLast
  <2>4. CASE ~(e.t = "gate_checked" /\ e.v) /\ ~(e.t = "step_finished" /\ e.v)
    BY <1>1, <1>3, <1>4, <2>1, <2>4 DEF EndsLast
  <2> QED BY <2>2, <2>3, <2>4
<1> DEFINE Knows(last, j, A, H, E, L) ==
       /\ \A k \in A : k <= j
       /\ last.att = L[j].id
       /\ last.gates = "pass" <=>
            \E g \in H : /\ j < g /\ L[g].id = L[j].id /\ L[g].r = "pass"
                         /\ \A h \in H : g < h => L[h].id # L[j].id
       /\ last.finished <=> \E k \in E : j < k /\ L[k].id = L[j].id
       /\ \A k \in E : j < k /\ L[k].id = L[j].id =>
            /\ last.outcome = L[k].r
            /\ last.checks = IF L[k].k THEN last.gates ELSE "other"
<1>10. LastKnown' <=> (Audits' = {} /\ exec'.last = NoCompletion)
                      \/ \E j \in Audits' : Knows(exec'.last, j, Audits', G', F', log')
  BY DEF LastKnown
<1>11. (Audits = {} /\ exec.last = NoCompletion) \/ \E j \in Audits : Knows(exec.last, j, Audits, G, F, log)
  BY DEF LastKnown
<1>12. CASE e.v /\ e.t = "step_started" /\ e.s = Step
  <2>1. exec'.last = [NoCompletion EXCEPT !.att = e.id]
    BY <1>6, <1>12 DEF TrackCompletion
  <2>2. exec'.last.att = e.id /\ exec'.last.gates # "pass" /\ exec'.last.finished = FALSE
    BY <2>1 DEF NoCompletion
  <2>3. n \in Audits' /\ G' = G /\ F' = F
    BY <1>2, <1>3, <1>4, <1>12
  <2>4. \A k \in Audits' : k <= n
    BY <1>1, <1>2, <1>5
  <2>5. Knows(exec'.last, n, Audits', G', F', log')
    BY <1>1, <1>5, <2>2, <2>3, <2>4
  <2> QED BY <1>9, <1>10, <2>3, <2>5
<1>13. CASE e.v /\ e.t = "gate_checked" /\ e.id = exec.last.att /\ e.s = Step
  <2>1. exec'.last = [exec.last EXCEPT !.gates = e.r]
    BY <1>6, <1>13 DEF TrackCompletion
  <2>2. /\ exec'.last.att = exec.last.att /\ exec'.last.gates = e.r
        /\ exec'.last.finished = exec.last.finished
    BY <1>7, <2>1 DEF IsResult
  <2>3. PICK j \in Audits : Knows(exec.last, j, Audits, G, F, log)
    BY <1>5, <1>11, <1>13 DEF NoCompletion
  <2>4. Audits' = Audits /\ G' = G \cup {n} /\ F' = F /\ log'[j] = log[j] /\ j < n
    BY <1>1, <1>2, <1>3, <1>4, <1>13
  <2>5. \A k \in F : log[k].id # log[j].id
    BY <1>8, <1>13, <2>3 DEF StepEvents
  <2>6. (e.r = "pass") <=> \E g \in G' : /\ j < g /\ log'[g].id = log'[j].id /\ log'[g].r = "pass"
                                         /\ \A h \in G' : g < h => log'[h].id # log'[j].id
    <3>1. log'[n].id = log'[j].id
      BY <1>5, <1>13, <2>3, <2>4
    <3>2. \A g \in G' : g = n \/ (g \in G /\ g < n)
      BY <1>1, <2>4
    <3>3. \A h \in G' : ~(n < h)
      BY <1>1, <1>5, <2>4
    <3> QED BY <1>5, <2>4, <3>1, <3>2, <3>3
  <2>7. Knows(exec'.last, j, Audits', G', F', log')
    BY <1>1, <2>2, <2>3, <2>4, <2>5, <2>6
  <2> QED BY <1>9, <1>10, <2>4, <2>7
<1>14. CASE e.v /\ e.t = "step_finished" /\ e.id = exec.last.att /\ e.s = Step
  <2>1. exec'.last = [exec.last EXCEPT !.outcome = e.r, !.finished = TRUE,
                                       !.checks = IF e.k THEN exec.last.gates ELSE "other"]
    BY <1>6, <1>14 DEF TrackCompletion
  <2>2. /\ exec'.last.att = exec.last.att /\ exec'.last.gates = exec.last.gates
        /\ exec'.last.finished = TRUE /\ exec'.last.outcome = e.r
        /\ exec'.last.checks = IF e.k THEN exec.last.gates ELSE "other"
    BY <1>7, <2>1 DEF IsResult
  <2>3. PICK j \in Audits : Knows(exec.last, j, Audits, G, F, log)
    BY <1>5, <1>11, <1>14 DEF NoCompletion
  <2>4. Audits' = Audits /\ G' = G /\ F' = F \cup {n} /\ log'[j] = log[j] /\ j < n
    BY <1>1, <1>2, <1>3, <1>4, <1>14
  <2>5. \A k \in F : log[k].id # log[j].id
    BY <1>8, <1>14, <2>3 DEF StepEvents
  <2>6. log'[n].id = log'[j].id
    BY <1>5, <1>14, <2>3, <2>4
  <2>7. \E k \in F' : j < k /\ log'[k].id = log'[j].id
    BY <2>4, <2>6
  <2>8. \A k \in F' : log'[k].id = log'[j].id => k = n
    BY <1>1, <2>4, <2>5
  <2>9. exec'.last.gates = "pass" <=>
          \E g \in G' : /\ j < g /\ log'[g].id = log'[j].id /\ log'[g].r = "pass"
                        /\ \A h \in G' : g < h => log'[h].id # log'[j].id
    BY <1>1, <2>2, <2>3, <2>4
  <2>10. Knows(exec'.last, j, Audits', G', F', log')
    BY <1>5, <2>2, <2>3, <2>4, <2>7, <2>8, <2>9
  <2> QED BY <1>9, <1>10, <2>4, <2>10
<1>15. CASE /\ ~(e.v /\ e.t = "step_started" /\ e.s = Step)
            /\ ~(e.v /\ e.t \in {"gate_checked", "step_finished"} /\ e.id = exec.last.att /\ e.s = Step)
  <2>1. exec'.last = exec.last
    BY <1>6, <1>15 DEF TrackCompletion
  <2>2. Audits' = Audits
    BY <1>2, <1>15
  <2>3. CASE Audits = {}
    BY <1>9, <1>10, <1>11, <2>1, <2>2, <2>3
  <2>4. CASE Audits # {}
    <3>1. PICK j \in Audits : Knows(exec.last, j, Audits, G, F, log)
      BY <1>11, <2>4
    <3>2. e.v /\ e.t \in {"gate_checked", "step_finished"} => e.id # log[j].id
      BY <1>8, <1>15, <3>1 DEF StepEvents
    <3>3. /\ \A k \in G' : k \in G \/ (k = n /\ log'[n].id # log'[j].id)
          /\ \A k \in F' : k \in F \/ (k = n /\ log'[n].id # log'[j].id)
          /\ log'[j] = log[j] /\ G \subseteq G' /\ F \subseteq F'
      BY <1>1, <1>3, <1>4, <1>5, <3>2
    <3>4. Knows(exec'.last, j, Audits', G', F', log')
      BY <1>1, <2>1, <2>2, <3>1, <3>3
    <3> QED BY <1>9, <1>10, <2>2, <3>4
  <2> QED BY <2>3, <2>4
<1> QED BY <1>12, <1>13, <1>14, <1>15

LEMMA TablesGrown ==
  ASSUME NEW e, NEW n, Grows(e, n), ExecShape, mode = "execution", ~ExecProblem(e),
         Tabled(exec.steps, "step_started", "step_finished"),
         Tabled(exec.ops, "operation_started", "operation_finished"),
         exec' = ExecConsume(e)
  PROVE  /\ Tabled(exec.steps, "step_started", "step_finished")'
         /\ Tabled(exec.ops, "operation_started", "operation_finished")'
<1>1. Looks(e) <=> e.v
  BY DEF Looks
<1>2. Tabled(exec.steps, "step_started", "step_finished")'
  <2>1. PICK table : table = exec.steps
    OBVIOUS
  <2>2. Tabled(table, "step_started", "step_finished")
    BY <2>1
  <2>3. CASE e.v /\ e.t = "step_started"
    <3>1. exec'.steps = Started(table, e)
      BY <2>1, <2>3, ExecAfter
    <3>2. e.id \notin DOMAIN table
      BY <2>1, <2>3 DEF ExecProblem
    <3>3. Tabled(Started(table, e), "step_started", "step_finished")'
      BY <1>1, <2>2, <2>3, <3>2, TableStart
    <3> QED BY <3>1, <3>3 DEF Tabled
  <2>4. CASE e.v /\ e.t = "step_finished"
    <3>1. exec'.steps = Finished(table, e)
      BY <2>1, <2>4, ExecAfter
    <3>2. ~Unpaired(table, e)
      BY <2>1, <2>4 DEF ExecProblem, StepEvents
    <3>3. Tabled(Finished(table, e), "step_started", "step_finished")'
      BY <1>1, <2>2, <2>4, <3>2, TableEnd
    <3> QED BY <3>1, <3>3 DEF Tabled
  <2>5. CASE ~(e.v /\ e.t \in {"step_started", "step_finished"})
    <3>1. exec'.steps = table
      BY <2>1, <2>5, ExecAfter
    <3>2. Tabled(table, "step_started", "step_finished")'
      BY <1>1, <2>2, <2>5, TableKept
    <3> QED BY <3>1, <3>2 DEF Tabled
  <2> QED BY <2>3, <2>4, <2>5
<1>3. Tabled(exec.ops, "operation_started", "operation_finished")'
  <2>1. PICK table : table = exec.ops
    OBVIOUS
  <2>2. Tabled(table, "operation_started", "operation_finished")
    BY <2>1
  <2>3. CASE e.v /\ e.t = "operation_started"
    <3>1. exec'.ops = Started(table, e)
      BY <2>1, <2>3, ExecAfter
    <3>2. e.id \notin DOMAIN table
      BY <2>1, <2>3 DEF ExecProblem
    <3>3. Tabled(Started(table, e), "operation_started", "operation_finished")'
      BY <1>1, <2>2, <2>3, <3>2, TableStart
    <3> QED BY <3>1, <3>3 DEF Tabled
  <2>4. CASE e.v /\ e.t = "operation_finished"
    <3>1. exec'.ops = Finished(table, e)
      BY <2>1, <2>4, ExecAfter
    <3>2. ~Unpaired(table, e)
      BY <2>1, <2>4 DEF ExecProblem, StepEvents
    <3>3. Tabled(Finished(table, e), "operation_started", "operation_finished")'
      BY <1>1, <2>2, <2>4, <3>2, TableEnd
    <3> QED BY <3>1, <3>3 DEF Tabled
  <2>5. CASE ~(e.v /\ e.t \in {"operation_started", "operation_finished"})
    <3>1. exec'.ops = table
      BY <2>1, <2>5, ExecAfter
    <3>2. Tabled(table, "operation_started", "operation_finished")'
      BY <1>1, <2>2, <2>5, TableKept
    <3> QED BY <3>1, <3>2 DEF Tabled
  <2> QED BY <2>3, <2>4, <2>5
<1> QED BY <1>2, <1>3

LEMMA ExecShapeKept ==
  ASSUME NEW e, NEW n, Grows(e, n), ExecShape, exec' = ExecConsume(e)
  PROVE  ExecShape'
<1>0. e.v \in BOOLEAN
  BY EventShape DEF Grows
<1>1. IsResult(TrackCompletion(e))
  <2>1. IsResult(exec.last)
    BY DEF ExecShape
  <2>2. IsResult([NoCompletion EXCEPT !.att = e.id])
    BY DEF NoCompletion, IsResult
  <2>3. IsResult([exec.last EXCEPT !.gates = e.r])
    BY <2>1 DEF IsResult
  <2>4. IsResult([exec.last EXCEPT !.outcome = e.r, !.finished = TRUE,
                                   !.checks = IF e.k THEN exec.last.gates ELSE "other"])
    BY <2>1 DEF IsResult
  <2> QED BY <2>1, <2>2, <2>3, <2>4 DEF TrackCompletion
<1>2. IsResult(exec.last)'
  <2>1. IsResult(exec'.last)
    BY <1>1, ExecAfter DEF ExecShape
  <2> QED BY <2>1 DEF IsResult
<1>3. exec'.birth \in BOOLEAN
  BY <1>0, ExecAfter DEF ExecShape
<1>4. exec' = [steps |-> exec'.steps, ops |-> exec'.ops, open |-> exec'.open,
               birth |-> exec'.birth, last |-> exec'.last]
  BY ExecAfter
<1> QED BY <1>2, <1>3, <1>4 DEF ExecShape

LEMMA ExecStep ==
  ASSUME NEW e, NEW n, Grows(e, n), ExecShape, mode \in {"execution", "noModel"},
         ExecDescribed, ExecutionSound, exec' = ExecConsume(e)
  PROVE  /\ ExecutionSound' <=> ~ExecProblem(e)
         /\ ~ExecProblem(e) => ExecDescribed'
         /\ ExecShape'
<1>1. ExecutionSound' <=> ExecutionSoundAt(n)'
  <2>1. \A i \in DOMAIN log : ExecutionSoundAt(i)'
    BY ExecutionKept DEF ExecutionSound
  <2> QED BY <2>1, GrownLog DEF ExecutionSound
<1>2. log'[n] = e /\ mode' = mode /\ (Looks(e) <=> e.v) /\ e.v \in BOOLEAN
  BY GrownLog, EventShape DEF Looks, Grows
<1>3. EffectsEnded(n)' <=> exec.open = {}
  BY EffectsJudged DEF ExecDescribed
<1>4. ASSUME mode = "execution", e.t = "state_changed"
      PROVE  CompletionProblem(e) <=> e.r = "completed" /\ ~(MustBeAudited(n)' => Audited(n)')
  BY <1>4, AuditJudged DEF ExecDescribed
<1>5. ASSUME mode = "execution"
      PROVE  /\ Earlier(n, "step_started")' = {} <=> e.id \notin DOMAIN exec.steps
             /\ PairedWith(n, "step_started", "step_finished")' /\ SameName(n, "step_started")'
                  <=> ~Unpaired(exec.steps, e)
             /\ Earlier(n, "operation_started")' = {} <=> e.id \notin DOMAIN exec.ops
             /\ PairedWith(n, "operation_started", "operation_finished")' /\ SameName(n, "operation_started")'
                  <=> ~Unpaired(exec.ops, e)
  <2>1. Tabled(exec.steps, "step_started", "step_finished") /\ Tabled(exec.ops, "operation_started", "operation_finished")
    BY <1>5 DEF ExecDescribed
  <2>2. PICK steps, ops : steps = exec.steps /\ ops = exec.ops
    OBVIOUS
  <2>3. Tabled(steps, "step_started", "step_finished") /\ Tabled(ops, "operation_started", "operation_finished")
    BY <2>1, <2>2
  <2>4. /\ Earlier(n, "step_started")' = {} <=> e.id \notin DOMAIN steps
        /\ PairedWith(n, "step_started", "step_finished")' /\ SameName(n, "step_started")' <=> ~Unpaired(steps, e)
    BY <2>3, TableUse
  <2>5. /\ Earlier(n, "operation_started")' = {} <=> e.id \notin DOMAIN ops
        /\ PairedWith(n, "operation_started", "operation_finished")' /\ SameName(n, "operation_started")'
             <=> ~Unpaired(ops, e)
    BY <2>3, TableUse
  <2> QED BY <2>2, <2>4, <2>5
<1>6. ExecutionSoundAt(n)' <=> ~ExecProblem(e)
  <2>1. CASE e.t = "state_changed"
    <3>1. ExecutionSoundAt(n)' <=>
            EffectsEnded(n)' /\ (mode = "execution" /\ e.r = "completed" /\ MustBeAudited(n)' => Audited(n)')
      BY <1>2, <2>1 DEF ExecutionSoundAt, StepEvents
    <3>2. ExecProblem(e) <=> exec.open # {} \/ (mode # "noModel" /\ CompletionProblem(e))
      BY <2>1 DEF ExecProblem, StepEvents
    <3> QED BY <1>3, <1>4, <2>1, <3>1, <3>2
  <2>2. CASE e.t # "state_changed" /\ ~(mode = "execution" /\ e.v)
    BY <1>2, <2>2 DEF ExecutionSoundAt, ExecProblem
  <2>3. CASE mode = "execution" /\ e.v /\ e.t \in {"step_started", "operation_started"}
    BY <1>2, <1>5, <2>3 DEF ExecutionSoundAt, ExecProblem, StepEvents
  <2>4. CASE mode = "execution" /\ e.v /\ e.t \in StepEvents
    BY <1>2, <1>5, <2>4 DEF ExecutionSoundAt, ExecProblem, StepEvents
  <2>5. CASE mode = "execution" /\ e.v /\ e.t = "operation_finished"
    BY <1>2, <1>5, <2>5 DEF ExecutionSoundAt, ExecProblem, StepEvents
  <2>6. CASE /\ e.t # "state_changed" /\ e.t \notin StepEvents
             /\ e.t \notin {"step_started", "operation_started", "operation_finished"}
    BY <1>2, <2>6 DEF ExecutionSoundAt, ExecProblem
  <2> QED BY <2>1, <2>2, <2>3, <2>4, <2>5, <2>6
<1>7. ASSUME ~ExecProblem(e) PROVE ExecDescribed'
  <2>1. exec'.open = OpenEffects'
    <3>1. exec.open = OpenEffects
      BY DEF ExecDescribed
    <3>2. CASE e.v /\ e.t = "operation_started" /\ e.s # "read_only"
      BY <1>2, <3>1, <3>2, EffectsGrown, ExecAfter
    <3>3. CASE e.v /\ e.t = "operation_finished"
      <4>1. OpenEffects' = OpenEffects \ {e.id}
        BY <1>2, <3>3, EffectsGrown
      <4>2. exec'.open = exec.open \ {e.id}
        BY <3>3, ExecAfter
      <4> QED BY <3>1, <4>1, <4>2
    <3>4. CASE ~(e.v /\ e.t = "operation_started" /\ e.s # "read_only") /\ ~(e.v /\ e.t = "operation_finished")
      <4>1. OpenEffects' = OpenEffects
        BY <1>2, <3>4, EffectsGrown
      <4>2. exec'.open = exec.open
        BY <3>4, ExecAfter
      <4> QED BY <3>1, <4>1, <4>2
    <3> QED BY <3>2, <3>3, <3>4
  <2>2. exec'.birth <=> \E j \in Idx({"ticket_created"})' : log'[j].v
    <3>1. Idx({"ticket_created"})' = Idx({"ticket_created"}) \cup (IF e.t \in {"ticket_created"} THEN {n} ELSE {})
      BY GrownIdx
    <3>2. \A j \in Idx({"ticket_created"}) : log'[j] = log[j]
      BY BelowIdx
    <3>3. exec'.birth = (exec.birth \/ (e.t = "ticket_created" /\ e.v))
      BY ExecAfter
    <3> QED BY <1>2, <3>1, <3>2, <3>3 DEF ExecDescribed
  <2>3. mode = "execution" => LastKnown' /\ EndsLast'
    BY <1>7, LastGrown DEF ExecDescribed
  <2>4. mode = "execution" => Tabled(exec.steps, "step_started", "step_finished")'
                              /\ Tabled(exec.ops, "operation_started", "operation_finished")'
    BY <1>7, TablesGrown DEF ExecDescribed
  <2> QED BY <1>2, <2>1, <2>2, <2>3, <2>4 DEF ExecDescribed
<1>8. ExecShape'
  BY ExecShapeKept
<1> QED BY <1>1, <1>6, <1>7, <1>8

LEMMA GrownLast ==
  ASSUME NEW e, NEW n, Grows(e, n), NEW types
  PROVE  /\ \A i \in DOMAIN log \cup {n} :
              /\ LastBefore(i, types)' = LastBefore(i, types)
              /\ NoneBefore(i, types)' <=> NoneBefore(i, types)
         /\ LastBefore(EndOf, types)' = IF e.t \in types THEN {n} ELSE LastBefore(EndOf, types)
         /\ NoneBefore(EndOf, types)' <=> e.t \notin types /\ NoneBefore(EndOf, types)
<1>1. /\ \A k \in Idx(types) : k \in Idx(types)' /\ k \in Nat /\ k < n
      /\ \A k \in Idx(types)' : k \in Nat /\ k <= n /\ (k < n => k \in Idx(types))
  BY BelowIdx
<1>2. n \in Nat /\ EndOf = n /\ EndOf' = n + 1 /\ \A i \in DOMAIN log : i \in Nat /\ i < n
  BY GrownLog
<1>3. n \in Idx(types)' <=> e.t \in types
  BY GrownLog, GrownIdx, <1>1
<1>4. ASSUME NEW i \in DOMAIN log \cup {n}
      PROVE  /\ LastBefore(i, types)' = LastBefore(i, types)
             /\ NoneBefore(i, types)' <=> NoneBefore(i, types)
  <2>1. i \in Nat /\ i <= n
    BY <1>2
  <2>2. \A j : j \in Idx(types)' /\ j < i <=> j \in Idx(types) /\ j < i
    BY <1>1, <1>2, <2>1
  <2>3. \A j \in Idx(types) \cup Idx(types)' : j >= i <=> ~(j < i)
    BY <1>1, <2>1
  <2>4. LastBefore(i, types)' = {j \in Idx(types)' : j < i /\ \A k \in Idx(types)' : k < i => k <= j}
    BY DEF LastBefore
  <2>5. LastBefore(i, types) = {j \in Idx(types) : j < i /\ \A k \in Idx(types) : k < i => k <= j}
    BY DEF LastBefore
  <2> QED BY <2>2, <2>3, <2>4, <2>5 DEF NoneBefore
<1>5. LastBefore(EndOf, types)' = {j \in Idx(types)' : j < n + 1 /\ \A k \in Idx(types)' : k < n + 1 => k <= j}
  BY <1>2 DEF LastBefore
<1>6. LastBefore(EndOf, types) = {j \in Idx(types) : j < n /\ \A k \in Idx(types) : k < n => k <= j}
  BY <1>2 DEF LastBefore
<1>7. NoneBefore(EndOf, types)' <=> \A j \in Idx(types)' : j >= n + 1
  BY <1>2 DEF NoneBefore
<1>8. NoneBefore(EndOf, types) <=> \A j \in Idx(types) : j >= n
  BY <1>2 DEF NoneBefore
<1>9. CASE e.t \in types
  <2>1. LastBefore(EndOf, types)' = {n}
    BY <1>1, <1>2, <1>3, <1>5, <1>9
  <2> QED BY <1>1, <1>2, <1>3, <1>4, <1>7, <1>9, <2>1
<1>10. CASE e.t \notin types
  <2>1. \A j : j \in Idx(types)' <=> j \in Idx(types)
    BY <1>1, <1>2, <1>3, <1>10
  <2>2. LastBefore(EndOf, types)' = LastBefore(EndOf, types)
    BY <1>1, <1>2, <1>5, <1>6, <2>1
  <2> QED BY <1>1, <1>2, <1>4, <1>7, <1>8, <1>10, <2>1, <2>2
<1> QED BY <1>9, <1>10

(* The ticket.                                                             *)

TicketShape ==
  /\ mirror.births \in Nat /\ mirror.migrations \in Nat
  /\ DOMAIN mirror = {"births", "migrations", "cur", "close"}

TicketDescribed ==
  /\ log = <<>> => mirror.births = 0 /\ mirror.migrations = 0 /\ mirror.cur = "none"
  /\ log # <<>> => mirror.births + mirror.migrations > 0
                   /\ \A x : StateBefore(EndOf, x) <=> mirror.cur \in {"none", x}
  /\ \A x : PhaseBefore(EndOf, x) <=> mirror.close = x
  /\ mirror.close \in {"none", "closing", "closed"}

LEMMA TicketKept ==
  ASSUME NEW e, NEW n, Grows(e, n), NEW i \in DOMAIN log
  PROVE  TicketSoundAt(i)' <=> TicketSoundAt(i)
<1>1. log'[i] = log[i] /\ 1 \in DOMAIN log /\ log'[1] = log[1] /\ meta' = meta
  BY GrownLog DEF Grows
<1>2. \A t : Idx(t) \subseteq DOMAIN log
  BY DEF Idx
<1>3. /\ LastBefore(i, {"state_changed"})' = LastBefore(i, {"state_changed"})
      /\ NoneBefore(i, {"state_changed"})' <=> NoneBefore(i, {"state_changed"})
  BY GrownLast
<1>4. /\ LastBefore(i, Closings)' = LastBefore(i, Closings)
      /\ NoneBefore(i, Closings)' <=> NoneBefore(i, Closings)
  BY GrownLast
<1>5. /\ \A j \in LastBefore(i, {"state_changed"}) : log'[j] = log[j]
      /\ \A j \in LastBefore(i, Closings) : log'[j] = log[j]
  BY <1>2, GrownLog DEF LastBefore
<1>6. \A x : StateBefore(i, x)' <=> StateBefore(i, x)
  BY <1>1, <1>3, <1>5 DEF StateBefore, BirthState
<1>7. \A x : PhaseBefore(i, x)' <=> PhaseBefore(i, x)
  BY <1>1, <1>4, <1>5 DEF PhaseBefore
<1>8. /\ StateBefore(i, log[i].s)' <=> StateBefore(i, log[i].s)
      /\ PhaseBefore(i, log[i].s)' <=> PhaseBefore(i, log[i].s)
  <2>1. StateBefore(i, log[i].s)' <=> StateBefore(i, log[i].s)
    BY <1>1, <1>3, <1>5 DEF StateBefore, BirthState
  <2>2. PhaseBefore(i, log[i].s)' <=> PhaseBefore(i, log[i].s)
    BY <1>1, <1>4, <1>5 DEF PhaseBefore
  <2> QED BY <2>1, <2>2
<1> QED BY <1>1, <1>6, <1>7, <1>8 DEF TicketSoundAt

LEMMA TicketStep ==
  ASSUME NEW e, NEW n, Grows(e, n), mode = "state", TicketShape, TicketDescribed,
         \A i \in DOMAIN log : TicketSoundAt(i), mirror' = TicketConsume(e)
  PROVE  /\ (\A i \in DOMAIN log : TicketSoundAt(i))' <=> ~TicketProblem(e)
         /\ ~TicketProblem(e) => TicketDescribed'
         /\ TicketShape'
<1>1. (\A i \in DOMAIN log : TicketSoundAt(i))' <=> TicketSoundAt(n)'
  <2>1. \A i \in DOMAIN log : TicketSoundAt(i)'
    BY TicketKept
  <2> QED BY <2>1, GrownLog
<1>2. /\ log'[n] = e /\ n \in Nat /\ EndOf = n /\ (log = <<>> <=> n = 1) /\ meta' = meta /\ log' # <<>>
      /\ log # <<>> => 1 \in DOMAIN log /\ log'[1] = log[1]
  BY GrownLog DEF Grows
<1>3. /\ e.t \in TypesOf["state"]
      /\ e.t = "ticket_created" => e.s \in DOMAIN InitialState
      /\ e.t = "close_phase" => e.r \in {"closing", "closed"}
  BY EventShape DEF Grows
<1>4. /\ mirror'.births = mirror.births + (IF e.t = "ticket_created" THEN 1 ELSE 0)
      /\ mirror'.migrations = mirror.migrations + (IF e.t = "migration_applied" THEN 1 ELSE 0)
      /\ mirror'.cur = CASE e.t = "ticket_created" -> InitialState[e.s]
                         [] e.t = "state_changed" -> e.r
                         [] OTHER -> mirror.cur
      /\ mirror'.close = CASE e.t = "close_phase" -> e.r
                           [] e.t = "ticket_reopened" -> "none"
                           [] OTHER -> mirror.close
      /\ DOMAIN mirror' = DOMAIN mirror
  BY DEF TicketShape, TicketConsume
<1>5. \A types : Idx(types) \subseteq DOMAIN log
  BY DEF Idx
<1>6. ASSUME log # <<>>
      PROVE  /\ \A x : StateBefore(n, x)' <=> mirror.cur \in {"none", x}
             /\ StateBefore(n, log[n].s)' <=> mirror.cur \in {"none", e.s}
  <2>1. /\ LastBefore(n, {"state_changed"})' = LastBefore(n, {"state_changed"})
        /\ NoneBefore(n, {"state_changed"})' <=> NoneBefore(n, {"state_changed"})
    BY GrownLast
  <2>2. \A j \in LastBefore(n, {"state_changed"}) : log'[j] = log[j]
    BY <1>5, GrownLog DEF LastBefore
  <2>3. BirthState' = BirthState
    BY <1>2, <1>6 DEF BirthState
  <2>4. \A x : StateBefore(n, x)' <=> StateBefore(n, x)
    BY <2>1, <2>2, <2>3 DEF StateBefore
  <2>5. \A x : StateBefore(n, x) <=> mirror.cur \in {"none", x}
    BY <1>2, <1>6 DEF TicketDescribed
  <2>6. StateBefore(n, log[n].s)' <=> StateBefore(n, e.s)
    BY <1>2, <2>1, <2>2, <2>3 DEF StateBefore
  <2> QED BY <2>4, <2>5, <2>6
<1>7. /\ \A x : PhaseBefore(n, x)' <=> mirror.close = x
      /\ PhaseBefore(n, log[n].s)' <=> mirror.close = e.s
  <2>1. /\ LastBefore(n, Closings)' = LastBefore(n, Closings)
        /\ NoneBefore(n, Closings)' <=> NoneBefore(n, Closings)
    BY GrownLast
  <2>2. \A j \in LastBefore(n, Closings) : log'[j] = log[j]
    BY <1>5, GrownLog DEF LastBefore
  <2>3. \A x : PhaseBefore(n, x)' <=> PhaseBefore(n, x)
    BY <2>1, <2>2 DEF PhaseBefore
  <2>4. \A x : PhaseBefore(n, x) <=> mirror.close = x
    BY <1>2 DEF TicketDescribed
  <2>5. PhaseBefore(n, log[n].s)' <=> PhaseBefore(n, e.s)
    BY <1>2, <2>1, <2>2 DEF PhaseBefore
  <2> QED BY <2>3, <2>4, <2>5
<1>8. TicketSoundAt(n)' <=> ~TicketProblem(e)
  <2>1. CASE log = <<>>
    <3>1. e.t \notin Births => ~TicketSoundAt(n)' /\ TicketProblem(e)
      BY <1>2, <2>1 DEF TicketSoundAt, TicketProblem, Births
    <3>2. e.t \in Births => (TicketSoundAt(n)' <=> (e.t = "ticket_created" => meta.debug = (e.s = "debug")))
      BY <1>2, <2>1 DEF TicketSoundAt, Births
    <3>3. e.t \in Births => (TicketProblem(e) <=> e.t = "ticket_created" /\ meta.debug # (e.s = "debug"))
      BY <2>1 DEF TicketProblem, TicketDescribed, Births
    <3> QED BY <3>1, <3>2, <3>3
  <2>2. CASE log # <<>> /\ e.t \in Births
    <3>1. ~TicketSoundAt(n)'
      BY <1>2, <2>2 DEF TicketSoundAt
    <3>2. TicketProblem(e)
      BY <2>2 DEF TicketProblem, TicketDescribed, Births
    <3> QED BY <3>1, <3>2
  <2>3. CASE log # <<>> /\ e.t = "state_changed"
    <3>1. TicketSoundAt(n)' <=> <<e.s, e.r>> \in Transitions /\ mirror.cur \in {"none", e.s}
      BY <1>2, <1>6, <2>3 DEF TicketSoundAt, Births
    <3> QED BY <2>3, <3>1 DEF TicketProblem
  <2>4. CASE log # <<>> /\ e.t = "close_phase"
    <3>1. TicketSoundAt(n)' <=>
            mirror.close = e.s /\ <<e.s, e.r>> \in {<<"none", "closing">>, <<"closing", "closed">>}
      BY <1>2, <1>7, <2>4 DEF TicketSoundAt, Births
    <3>2. TicketProblem(e) <=> e.s # mirror.close \/ e.r # NextPhase
      BY <2>4 DEF TicketProblem
    <3>3. mirror.close \in {"none", "closing", "closed"} /\ e.r \in {"closing", "closed"}
      BY <1>3, <2>4 DEF TicketDescribed
    <3>4. NextPhase = IF mirror.close = "none" THEN "closing" ELSE IF mirror.close = "closing" THEN "closed" ELSE "over"
      BY DEF NextPhase, ClosePhases
    <3> QED BY <3>1, <3>2, <3>3, <3>4
  <2>5. CASE log # <<>> /\ e.t = "ticket_reopened"
    <3>1. TicketSoundAt(n)' <=> mirror.close = "closed"
      BY <1>2, <1>7, <2>5 DEF TicketSoundAt, Births
    <3> QED BY <2>5, <3>1 DEF TicketProblem
  <2> QED BY <1>3, <2>1, <2>2, <2>3, <2>4, <2>5 DEF TypesOf, Births, Closings
<1>9. TicketShape'
  BY <1>4 DEF TicketShape
<1>10. ASSUME ~TicketProblem(e) PROVE TicketDescribed'
  <2>1. mirror'.births + mirror'.migrations > 0
    <3>1. log = <<>> => e.t \in Births
      BY <1>10 DEF TicketProblem, Births
    <3> QED BY <1>4, <3>1 DEF TicketDescribed, TicketShape, Births
  <2>2. \A x : StateBefore(EndOf, x)' <=> mirror'.cur \in {"none", x}
    <3>1. /\ LastBefore(EndOf, {"state_changed"})' =
               IF e.t = "state_changed" THEN {n} ELSE LastBefore(EndOf, {"state_changed"})
          /\ NoneBefore(EndOf, {"state_changed"})' <=> e.t # "state_changed" /\ NoneBefore(EndOf, {"state_changed"})
      BY GrownLast
    <3>2. \A j \in LastBefore(EndOf, {"state_changed"}) : log'[j] = log[j]
      BY <1>5, GrownLog DEF LastBefore
    <3>3. CASE e.t = "state_changed"
      <4>1. <<e.s, e.r>> \in Transitions
        BY <1>10, <3>3 DEF TicketProblem
      <4>2. e.r # "none"
        BY <4>1 DEF Transitions
      <4>3. mirror'.cur = e.r
        BY <1>4, <3>3
      <4> QED BY <1>2, <3>1, <3>3, <4>2, <4>3 DEF StateBefore
    <3>4. CASE e.t # "state_changed" /\ log = <<>>
      <4>1. NoneBefore(EndOf, {"state_changed"})' /\ LastBefore(EndOf, {"state_changed"})' = {}
        <5>1. Idx({"state_changed"}) = {}
          BY <3>4 DEF Idx
        <5> QED BY <3>1, <3>4, <5>1 DEF NoneBefore, LastBefore
      <4>2. mirror'.cur = BirthState'
        BY <1>2, <1>4, <3>4 DEF BirthState, TicketDescribed
      <4> QED BY <4>1, <4>2 DEF StateBefore
    <3>5. CASE e.t # "state_changed" /\ log # <<>>
      <4>1. \A x : StateBefore(EndOf, x) <=> mirror.cur \in {"none", x}
        BY <3>5 DEF TicketDescribed
      <4>2. BirthState' = BirthState
        BY <1>2, <3>5 DEF BirthState
      <4>3. \A x : StateBefore(EndOf, x)' <=> StateBefore(EndOf, x)
        BY <3>1, <3>2, <3>5, <4>2 DEF StateBefore
      <4>4. e.t # "ticket_created"
        BY <1>10, <3>5 DEF TicketProblem
      <4>5. mirror'.cur = mirror.cur
        BY <1>4, <3>5, <4>4
      <4> QED BY <4>1, <4>3, <4>5
    <3> QED BY <3>3, <3>4, <3>5
  <2>3. \A x : PhaseBefore(EndOf, x)' <=> mirror'.close = x
    <3>1. /\ LastBefore(EndOf, Closings)' = IF e.t \in Closings THEN {n} ELSE LastBefore(EndOf, Closings)
          /\ NoneBefore(EndOf, Closings)' <=> e.t \notin Closings /\ NoneBefore(EndOf, Closings)
      BY GrownLast
    <3>2. \A j \in LastBefore(EndOf, Closings) : log'[j] = log[j]
      BY <1>5, GrownLog DEF LastBefore
    <3>3. CASE e.t \in Closings
      BY <1>2, <1>4, <3>1, <3>3 DEF PhaseBefore, Closings
    <3>4. CASE e.t \notin Closings
      <4>1. \A x : PhaseBefore(EndOf, x)' <=> PhaseBefore(EndOf, x)
        BY <3>1, <3>2, <3>4 DEF PhaseBefore
      <4>2. mirror'.close = mirror.close
        BY <1>4, <3>4 DEF Closings
      <4> QED BY <4>1, <4>2 DEF TicketDescribed
    <3> QED BY <3>3, <3>4
  <2>4. mirror'.close \in {"none", "closing", "closed"}
    BY <1>3, <1>4 DEF TicketDescribed
  <2> QED BY <1>2, <2>1, <2>2, <2>3, <2>4 DEF TicketDescribed
<1> QED BY <1>1, <1>8, <1>9, <1>10

(* The binding.                                                            *)

\* The ticket is being closed.
ClosedNow == \E j \in Idx({"close_phase"}) : \A k \in Idx({"ticket_reopened"}) : ~(j < k)

OpenNow(x) ==
  \E start \in DOMAIN Starts : \E j \in Of(start) :
     ~Between(j, EndOf, Starts[start]) /\ x = <<Starts[start], log[j].id>>

BindShape == DOMAIN bind = {"value", "seen", "open", "closed"} /\ bind.seen \in BOOLEAN /\ bind.closed \in BOOLEAN

BindDescribed ==
  /\ \A x : x \in bind.open <=> OpenNow(x)
  /\ bind.closed <=> ClosedNow
  /\ bind.seen <=> Bound # {}
  /\ \A i \in Bound : bind.value = log[i].id

HashDescribed ==
  \/ hash = "none" /\ Idx({"metadata_updated"}) = {}
  \/ \E i \in LastBefore(EndOf, {"metadata_updated"}) : hash = log[i].r /\ hash # "none"

LEMMA QuietKnown ==
  ASSUME NEW e, NEW n, Grows(e, n), BindShape, BindDescribed
  PROVE  QuietAt(n)' <=> bind.open = {} /\ ~bind.closed
<1>1. ASSUME NEW start \in DOMAIN Starts
      PROVE  (\A j \in Of(start)' : j < n => Between(j, n, Starts[start])')
              <=> \A j \in Of(start) : Between(j, EndOf, Starts[start])
  <2>1. /\ \A k \in Of(start) : k \in Of(start)' /\ k < n /\ k \in DOMAIN log
        /\ \A k \in Of(start)' : k < n => k \in Of(start)
    BY BelowOf
  <2>2. PICK t : t = Starts[start]
    OBVIOUS
  <2>3. \A j \in Of(start) : (Between(j, n, t)' <=> Between(j, n, t)) /\ (Between(j, EndOf, t) <=> Between(j, n, t))
    BY <2>1, GrownBetween
  <2> QED BY <2>1, <2>2, <2>3
<1>2. (\A j \in Idx({"close_phase"})' : j < n => \E k \in Idx({"ticket_reopened"})' : j < k /\ k < n)
        <=> ~ClosedNow
  <2>1. /\ \A k \in Idx({"close_phase"}) : k \in Idx({"close_phase"})' /\ k < n
        /\ \A k \in Idx({"close_phase"})' : k < n => k \in Idx({"close_phase"})
    BY BelowIdx
  <2>2. /\ \A k \in Idx({"ticket_reopened"}) : k \in Idx({"ticket_reopened"})' /\ k < n
        /\ \A k \in Idx({"ticket_reopened"})' : k < n => k \in Idx({"ticket_reopened"})
    BY BelowIdx
  <2> QED BY <2>1, <2>2 DEF ClosedNow
<1>3. QuietAt(n)' <=>
        /\ \A start \in DOMAIN Starts : \A j \in Of(start)' : j < n => Between(j, n, Starts[start])'
        /\ \A j \in Idx({"close_phase"})' : j < n => \E k \in Idx({"ticket_reopened"})' : j < k /\ k < n
  BY DEF QuietAt
<1>4. bind.open = {} <=> \A start \in DOMAIN Starts : \A j \in Of(start) : Between(j, EndOf, Starts[start])
  BY DEF BindDescribed, OpenNow
<1> QED BY <1>1, <1>2, <1>3, <1>4 DEF BindDescribed, BindShape

LEMMA BindingKept ==
  ASSUME NEW e, NEW n, Grows(e, n), NEW i \in DOMAIN log
  PROVE  BindingSoundAt(i)' <=> BindingSoundAt(i)
<1>1. /\ log'[i] = log[i] /\ i \in Nat /\ i < n /\ n \in Nat /\ DOMAIN log \subseteq DOMAIN log'
      /\ \A j \in DOMAIN log' : j = n \/ j \in DOMAIN log
      /\ \A j \in DOMAIN log : log'[j] = log[j]
  BY GrownLog
<1>2. ASSUME NEW start \in DOMAIN Starts
      PROVE  (\A j \in Of(start)' : j < i => Between(j, i, Starts[start])')
              <=> \A j \in Of(start) : j < i => Between(j, i, Starts[start])
  <2>1. /\ \A k \in Of(start) : k \in Of(start)' /\ k \in DOMAIN log
        /\ \A k \in Of(start)' : k \in Nat /\ (k < n => k \in Of(start))
    BY BelowOf
  <2>2. \A k \in Of(start)' : k < i => k \in Of(start)
    BY <1>1, <2>1
  <2>3. PICK t : t = Starts[start]
    OBVIOUS
  <2>4. \A j \in Of(start) : Between(j, i, t)' <=> Between(j, i, t)
    BY <2>1, GrownBetween
  <2> QED BY <2>1, <2>2, <2>3, <2>4
<1>3. (\A j \in Idx({"close_phase"})' : j < i => \E k \in Idx({"ticket_reopened"})' : j < k /\ k < i)
        <=> \A j \in Idx({"close_phase"}) : j < i => \E k \in Idx({"ticket_reopened"}) : j < k /\ k < i
  <2>1. /\ \A k \in Idx({"close_phase"}) : k \in Idx({"close_phase"})'
        /\ \A k \in Idx({"close_phase"})' : k \in Nat /\ (k < n => k \in Idx({"close_phase"}))
    BY BelowIdx
  <2>2. /\ \A k \in Idx({"ticket_reopened"}) : k \in Idx({"ticket_reopened"})'
        /\ \A k \in Idx({"ticket_reopened"})' : k \in Nat /\ (k < n => k \in Idx({"ticket_reopened"}))
    BY BelowIdx
  <2>3. /\ \A k \in Idx({"close_phase"})' : k < i => k \in Idx({"close_phase"})
        /\ \A k \in Idx({"ticket_reopened"})' : k < i => k \in Idx({"ticket_reopened"})
    BY <1>1, <2>1, <2>2
  <2> QED BY <2>1, <2>2, <2>3
<1>4. QuietAt(i)' <=> QuietAt(i)
  BY <1>2, <1>3 DEF QuietAt
<1>5. (\A j \in Bound : j >= i)' <=> \A j \in Bound : j >= i
  BY <1>1 DEF Bound
<1> QED BY <1>1, <1>4, <1>5 DEF BindingSoundAt

LEMMA BindShapeKept ==
  ASSUME NEW e, BindShape, bind' = BindConsume(e)
  PROVE  BindShape'
<1>1. /\ bind'.closed = ((bind.closed \/ e.t = "close_phase") /\ e.t # "ticket_reopened")
      /\ bind'.seen = (bind.seen \/ Binds(e))
      /\ DOMAIN bind' = DOMAIN bind
  BY DEF BindShape, BindConsume
<1>2. Binds(e) \in BOOLEAN
  BY DEF Binds
<1> QED BY <1>1, <1>2 DEF BindShape

LEMMA BindStep ==
  ASSUME NEW e, NEW n, Grows(e, n), mode = "binding", BindShape, BindDescribed,
         \A i \in DOMAIN log : BindingSoundAt(i), bind' = BindConsume(e)
  PROVE  /\ (\A i \in DOMAIN log : BindingSoundAt(i))' <=> ~BindProblem(e)
         /\ ~BindProblem(e) => BindDescribed'
         /\ BindShape'
<1>1. (\A i \in DOMAIN log : BindingSoundAt(i))' <=> BindingSoundAt(n)'
  <2>1. \A i \in DOMAIN log : BindingSoundAt(i)'
    BY BindingKept
  <2> QED BY <2>1, GrownLog
<1>2. /\ log'[n] = e /\ n \in Nat /\ Looks(e) /\ e.k \in BOOLEAN
      /\ \A j \in DOMAIN log : j \in Nat /\ j < n /\ log'[j] = log[j]
      /\ \A j \in DOMAIN log' : j = n \/ j \in DOMAIN log
      /\ n \in DOMAIN log' /\ DOMAIN log \subseteq DOMAIN log' /\ n \notin DOMAIN log
  BY GrownLog, EventShape DEF Looks, Grows
<1>3. Bound' = Bound \cup (IF Binds(e) THEN {n} ELSE {}) /\ Bound \subseteq DOMAIN log
  BY <1>2 DEF Bound
<1>4. /\ bind'.open = CASE e.t \in DOMAIN Starts -> bind.open \cup {<<Starts[e.t], e.id>>}
                       [] OTHER -> bind.open \ {<<e.t, e.id>>}
      /\ bind'.closed = ((bind.closed \/ e.t = "close_phase") /\ e.t # "ticket_reopened")
      /\ bind'.seen = (bind.seen \/ Binds(e))
      /\ bind'.value = IF Binds(e) THEN e.id ELSE bind.value
      /\ DOMAIN bind' = DOMAIN bind
  BY DEF BindShape, BindConsume
<1>5. BindingSoundAt(n)' <=> ~BindProblem(e)
  <2>1. QuietAt(n)' <=> bind.open = {} /\ ~bind.closed
    BY QuietKnown
  <2>2. (\A j \in Bound' : j >= n) <=> ~bind.seen
    BY <1>2, <1>3 DEF BindDescribed
  <2>3. BindingSoundAt(n)' <=>
          /\ Binds(e) => e.k /\ QuietAt(n)'
          /\ Binds(e) \/ Moves(e) => \A j \in Bound' : j >= n
    BY <1>2 DEF BindingSoundAt
  <2> QED BY <2>1, <2>2, <2>3 DEF BindProblem
<1>6. BindShape'
  BY BindShapeKept
<1>7. ASSUME ~BindProblem(e) PROVE BindDescribed'
  <2>1. \A x : x \in bind'.open <=> OpenNow(x)'
    <3>1. ASSUME NEW start \in DOMAIN Starts, NEW x
          PROVE  (\E j \in Of(start)' : ~Between(j, EndOf, Starts[start])' /\ x = <<Starts[start], log'[j].id>>)
                 <=> \/ /\ x # <<e.t, e.id>>
                        /\ \E j \in Of(start) : ~Between(j, EndOf, Starts[start]) /\ x = <<Starts[start], log[j].id>>
                     \/ e.t = start /\ x = <<Starts[start], e.id>>
      <4>1. PICK t : t = Starts[start]
        OBVIOUS
      <4>2. \A j \in Of(start) : /\ j \in DOMAIN log /\ log'[j] = log[j]
                                 /\ Between(j, EndOf, t)' <=> Between(j, EndOf, t) \/ (e.t = t /\ e.id = log[j].id)
        <5>1. \A j \in Of(start) : j \in DOMAIN log
          BY BelowOf
        <5> QED BY <1>2, <5>1, GrownBetween
      <4>3. Of(start)' = Of(start) \cup (IF e.t = start THEN {n} ELSE {})
        BY <1>2, GrownOf
      <4>4. ~Between(n, EndOf, t)'
        <5>1. \A k \in Of(t)' : k \in Nat /\ k <= n
          BY BelowOf
        <5> QED BY <5>1, GrownLog DEF Between
      <4>5. (\E j \in Of(start)' : ~Between(j, EndOf, t)' /\ x = <<t, log'[j].id>>)
             <=> \/ \E j \in Of(start) : ~Between(j, EndOf, t)' /\ x = <<t, log[j].id>>
                 \/ e.t = start /\ x = <<t, e.id>>
        BY <1>2, <4>2, <4>3, <4>4
      <4>6. (\E j \in Of(start) : ~Between(j, EndOf, t)' /\ x = <<t, log[j].id>>)
             <=> x # <<e.t, e.id>> /\ \E j \in Of(start) : ~Between(j, EndOf, t) /\ x = <<t, log[j].id>>
        BY <4>2
      <4> QED BY <4>1, <4>5, <4>6
    <3>2. \A x : OpenNow(x)' <=>
                   \E start \in DOMAIN Starts :
                      \E j \in Of(start)' : ~Between(j, EndOf, Starts[start])' /\ x = <<Starts[start], log'[j].id>>
      BY DEF OpenNow
    <3>3. \A x : OpenNow(x)' <=> (x # <<e.t, e.id>> /\ OpenNow(x)) \/ (e.t \in DOMAIN Starts /\ x = <<Starts[e.t], e.id>>)
      BY <3>1, <3>2 DEF OpenNow
    <3>4. \A x : OpenNow(x) /\ e.t \in DOMAIN Starts => x # <<e.t, e.id>>
      BY DEF OpenNow, Starts
    <3> QED BY <1>4, <3>3, <3>4 DEF BindDescribed
  <2>2. bind'.closed <=> ClosedNow'
    <3>1. /\ Idx({"close_phase"})' = Idx({"close_phase"}) \cup (IF e.t \in {"close_phase"} THEN {n} ELSE {})
          /\ Idx({"ticket_reopened"})' = Idx({"ticket_reopened"}) \cup (IF e.t \in {"ticket_reopened"} THEN {n} ELSE {})
      BY GrownIdx
    <3>2. /\ \A k \in Idx({"close_phase"}) : k \in Nat /\ k < n
          /\ \A k \in Idx({"ticket_reopened"}) : k \in Nat /\ k < n
      BY BelowIdx
    <3>3. ClosedNow' <=> \E j \in Idx({"close_phase"})' : \A k \in Idx({"ticket_reopened"})' : ~(j < k)
      BY DEF ClosedNow
    <3>4. CASE e.t = "close_phase"
      <4>1. \A k \in Idx({"ticket_reopened"})' : ~(n < k)
        BY <1>2, <3>1, <3>2, <3>4
      <4> QED BY <1>4, <3>1, <3>3, <3>4, <4>1
    <3>5. CASE e.t = "ticket_reopened"
      <4>1. ~ClosedNow'
        BY <1>2, <3>1, <3>2, <3>3, <3>5
      <4> QED BY <1>4, <3>5, <4>1
    <3>6. CASE e.t \notin Closings
      BY <1>4, <3>1, <3>3, <3>6 DEF ClosedNow, BindDescribed, Closings
    <3> QED BY <3>4, <3>5, <3>6 DEF Closings
  <2>3. bind'.seen <=> Bound' # {}
    BY <1>3, <1>4 DEF BindDescribed
  <2>4. \A i \in Bound' : bind'.value = log'[i].id
    <3>1. CASE Binds(e)
      <4>1. Bound = {}
        BY <1>7, <3>1 DEF BindProblem, BindDescribed
      <4> QED BY <1>2, <1>3, <1>4, <3>1, <4>1
    <3>2. CASE ~Binds(e)
      BY <1>2, <1>3, <1>4, <3>2 DEF BindDescribed
    <3> QED BY <3>1, <3>2
  <2> QED BY <2>1, <2>2, <2>3, <2>4 DEF BindDescribed
<1> QED BY <1>1, <1>5, <1>6, <1>7

LEMMA HashStep ==
  ASSUME NEW e, NEW n, Grows(e, n), HashDescribed, hash' = IF e.t = "metadata_updated" THEN e.r ELSE hash
  PROVE  HashDescribed'
<1>1. /\ LastBefore(EndOf, {"metadata_updated"})' =
           IF e.t = "metadata_updated" THEN {n} ELSE LastBefore(EndOf, {"metadata_updated"})
      /\ Idx({"metadata_updated"})' = Idx({"metadata_updated"}) \cup (IF e.t \in {"metadata_updated"} THEN {n} ELSE {})
  BY GrownLast, GrownIdx
<1>2. log'[n] = e /\ e.t = "metadata_updated" => e.r # "none"
  BY GrownLog, EventShape DEF Grows
<1>3. log'[n] = e
  BY GrownLog
<1>4. \A i \in LastBefore(EndOf, {"metadata_updated"}) : log'[i] = log[i]
  BY BelowIdx DEF LastBefore
<1>5. CASE e.t = "metadata_updated"
  BY <1>1, <1>2, <1>3, <1>5 DEF HashDescribed
<1>6. CASE e.t # "metadata_updated"
  BY <1>1, <1>4, <1>6 DEF HashDescribed
<1> QED BY <1>5, <1>6

(* The agents.                                                             *)

Spawns == Of("agent_spawned")

LEMMA SpawnsCounted ==
  ASSUME log \in Seq(Alphabet[mode])
  PROVE  /\ IsFiniteSet(Spawns) /\ Cardinality(Spawns) \in Nat
         /\ \A i : Nth(i) \in Nat /\ Nth(i) <= Cardinality(Spawns)
         /\ \A i \in Spawns : Nth(i) > 0
<1>1. DOMAIN log = 1..Len(log) /\ Len(log) \in Nat
  OBVIOUS
<1>2. IsFiniteSet(1..Len(log))
  BY <1>1, FS_Interval
<1>3. Spawns \subseteq 1..Len(log)
  BY <1>1, OfLog DEF Spawns
<1>4. IsFiniteSet(Spawns)
  BY <1>2, <1>3, FS_Subset
<1>5. Cardinality(Spawns) \in Nat
  BY <1>4, FS_CardinalityType
<1>6. ASSUME NEW i PROVE Nth(i) \in Nat /\ Nth(i) <= Cardinality(Spawns) /\ (i \in Spawns => Nth(i) > 0)
  <2> DEFINE S == {j \in Of("agent_spawned") : j <= i}
  <2>1. S \subseteq Spawns
    BY DEF Spawns
  <2>2. IsFiniteSet(S) /\ Cardinality(S) <= Cardinality(Spawns)
    BY <1>4, <2>1, FS_Subset
  <2>3. Cardinality(S) \in Nat
    BY <2>2, FS_CardinalityType
  <2>4. i \in Spawns => i \in S
    BY <1>3 DEF Spawns
  <2>5. i \in Spawns => Cardinality(S) # 0
    BY <2>2, <2>4, FS_EmptySet
  <2> QED BY <2>2, <2>3, <2>5 DEF Nth
<1> QED BY <1>4, <1>5, <1>6

LEMMA NthGrown ==
  ASSUME NEW e, NEW n, Grows(e, n)
  PROVE  /\ \A i \in DOMAIN log : Nth(i)' = Nth(i)
         /\ e.t = "agent_spawned" /\ Looks(e) =>
              Nth(n)' = Cardinality(Spawns) + 1 /\ Cardinality(Spawns') = Cardinality(Spawns) + 1
<1>1. /\ \A k \in Spawns : k \in Of("agent_spawned")' /\ k \in Nat /\ k < n
      /\ \A k \in Of("agent_spawned")' : k \in Nat /\ k <= n /\ (k < n => k \in Spawns)
  BY BelowOf DEF Spawns
<1>2. n \in Nat /\ \A i \in DOMAIN log : i \in Nat /\ i < n
  BY GrownLog
<1>3. ASSUME NEW i \in DOMAIN log PROVE Nth(i)' = Nth(i)
  <2>1. {j \in Of("agent_spawned")' : j <= i} = {j \in Of("agent_spawned") : j <= i}
    BY <1>1, <1>2 DEF Spawns
  <2> QED BY <2>1 DEF Nth
<1>4. ASSUME e.t = "agent_spawned", Looks(e)
      PROVE  Nth(n)' = Cardinality(Spawns) + 1 /\ Cardinality(Spawns') = Cardinality(Spawns) + 1
  <2>1. Of("agent_spawned")' = Spawns \cup {n}
    BY <1>4, GrownOf DEF Spawns
  <2>2. {j \in Of("agent_spawned")' : j <= n} = Spawns \cup {n}
    BY <1>1, <1>2, <2>1
  <2>3. n \notin Spawns /\ IsFiniteSet(Spawns)
    BY <1>1, <1>2, SpawnsCounted DEF Grows
  <2>4. Cardinality(Spawns \cup {n}) = Cardinality(Spawns) + 1
    BY <2>3, FS_AddElement
  <2>5. Nth(n)' = Cardinality({j \in Of("agent_spawned")' : j <= n})
    BY DEF Nth
  <2>6. Spawns' = Of("agent_spawned")'
    BY DEF Spawns
  <2> QED BY <2>1, <2>2, <2>4, <2>5, <2>6
<1> QED BY <1>3, <1>4

LEMMA AgentsGrown ==
  ASSUME NEW e, NEW n, Grows(e, n), Looks(e)
  PROVE  /\ \A i \in DOMAIN log : OpenAgents(i)' = OpenAgents(i)
         /\ OpenAgents(n)' = OpenAgents(EndOf)
         /\ OpenAgents(EndOf)' = CASE e.t = "agent_spawned" -> OpenAgents(EndOf) \cup {e.id}
                                   [] e.t = "agent_result" -> OpenAgents(EndOf) \ {e.id}
                                   [] OTHER -> OpenAgents(EndOf)
<1>1. /\ \A k \in Spawns : k \in Of("agent_spawned")' /\ k \in Nat /\ k < n /\ log'[k] = log[k] /\ k \in DOMAIN log
      /\ \A k \in Of("agent_spawned")' : k \in Nat /\ k <= n /\ (k < n => k \in Spawns)
  BY BelowOf DEF Spawns
<1>2. n \in Nat /\ log'[n] = e /\ EndOf = n /\ EndOf' = n + 1 /\ \A i \in DOMAIN log : i \in Nat /\ i < n
  BY GrownLog
<1>3. ASSUME NEW i \in DOMAIN log PROVE OpenAgents(i)' = OpenAgents(i)
  <2>1. \A k \in Spawns : Between(k, i, "agent_result")' <=> Between(k, i, "agent_result")
    BY <1>1, GrownBetween
  <2>2. \A k \in Of("agent_spawned")' : k < i => k \in Spawns
    BY <1>1, <1>2
  <2>3. {k \in Of("agent_spawned")' : k < i /\ ~Between(k, i, "agent_result")'}
          = {k \in Of("agent_spawned") : k < i /\ ~Between(k, i, "agent_result")}
    BY <1>1, <2>1, <2>2 DEF Spawns
  <2>4. OpenAgents(i)' = {log'[j].id : j \in {k \in Of("agent_spawned")' : k < i /\ ~Between(k, i, "agent_result")'}}
    BY DEF OpenAgents
  <2>5. OpenAgents(i)' = {log[j].id : j \in {k \in Of("agent_spawned") : k < i /\ ~Between(k, i, "agent_result")}}
    BY <1>1, <2>3, <2>4 DEF Spawns
  <2> QED BY <2>5 DEF OpenAgents
<1> DEFINE Open == {k \in Spawns : ~Between(k, n, "agent_result")}
<1>4. OpenAgents(EndOf) = {log[j].id : j \in Open}
  <2>1. {k \in Of("agent_spawned") : k < EndOf /\ ~Between(k, EndOf, "agent_result")} = Open
    BY <1>1, <1>2 DEF Spawns
  <2> QED BY <2>1 DEF OpenAgents
<1>5. OpenAgents(n)' = OpenAgents(EndOf)
  <2>1. \A k \in Spawns : Between(k, n, "agent_result")' <=> Between(k, n, "agent_result")
    BY <1>1, GrownBetween
  <2>2. {k \in Of("agent_spawned")' : k < n /\ ~Between(k, n, "agent_result")'} = Open
    BY <1>1, <1>2, <2>1
  <2>3. OpenAgents(n)' = {log'[j].id : j \in {k \in Of("agent_spawned")' : k < n /\ ~Between(k, n, "agent_result")'}}
    BY DEF OpenAgents
  <2> QED BY <1>1, <1>4, <2>2, <2>3
<1> DEFINE Last1 == {k \in Of("agent_spawned")' : k < EndOf' /\ ~Between(k, EndOf, "agent_result")'}
<1>6. OpenAgents(EndOf)' = {log'[j].id : j \in Last1}
  BY DEF OpenAgents
<1>7. \A k \in Spawns : Between(k, EndOf, "agent_result")' <=>
                           Between(k, n, "agent_result") \/ (e.t = "agent_result" /\ e.id = log[k].id)
  BY <1>1, GrownBetween
<1>8. Of("agent_spawned")' = Spawns \cup (IF e.t = "agent_spawned" THEN {n} ELSE {})
  BY GrownOf DEF Spawns
<1>9. CASE e.t = "agent_spawned"
  <2>1. ~Between(n, EndOf, "agent_result")'
    <3>1. \A k \in Of("agent_result")' : k \in Nat /\ k <= n
      BY BelowOf
    <3> QED BY <3>1, GrownLog DEF Between
  <2>2. Last1 = Open \cup {n}
    BY <1>1, <1>2, <1>7, <1>8, <1>9, <2>1
  <2>3. OpenAgents(EndOf)' = OpenAgents(EndOf) \cup {e.id}
    BY <1>1, <1>2, <1>4, <1>6, <2>2
  <2> QED BY <1>3, <1>5, <1>9, <2>3
<1>10. CASE e.t = "agent_result"
  <2>1. Last1 = {k \in Open : log[k].id # e.id}
    BY <1>1, <1>2, <1>7, <1>8, <1>10
  <2>2. OpenAgents(EndOf)' = OpenAgents(EndOf) \ {e.id}
    BY <1>1, <1>4, <1>6, <2>1
  <2> QED BY <1>3, <1>5, <1>10, <2>2
<1>11. CASE e.t \notin AgentEvents
  <2>1. Last1 = Open
    BY <1>1, <1>2, <1>7, <1>8, <1>11 DEF AgentEvents
  <2>2. OpenAgents(EndOf)' = OpenAgents(EndOf)
    BY <1>1, <1>4, <1>6, <2>1
  <2> QED BY <1>3, <1>5, <1>11, <2>2 DEF AgentEvents
<1> QED BY <1>9, <1>10, <1>11 DEF AgentEvents

LEMMA AgentsKept ==
  ASSUME NEW e, NEW n, Grows(e, n), Looks(e), NEW i \in DOMAIN log
  PROVE  AgentsSoundAt(i)' <=> AgentsSoundAt(i)
<1>1. log'[i] = log[i] /\ meta' = meta
  BY GrownLog DEF Grows
<1>2. Earlier(i, "agent_spawned")' = Earlier(i, "agent_spawned") /\ Earlier(i, "agent_result")' = Earlier(i, "agent_result")
  BY GrownEarlier
<1>3. PairedWith(i, "agent_spawned", "agent_result")' <=> PairedWith(i, "agent_spawned", "agent_result")
  BY <1>2 DEF PairedWith
<1>4. \A j \in Earlier(i, "agent_spawned") : Nth(j)' = Nth(j)
  <2>1. Earlier(i, "agent_spawned") \subseteq DOMAIN log
    BY OfLog DEF Earlier
  <2> QED BY <2>1, NthGrown
<1>5. Nth(i)' = Nth(i) /\ OpenAgents(i)' = OpenAgents(i)
  BY NthGrown, AgentsGrown
<1> QED BY <1>1, <1>2, <1>3, <1>4, <1>5 DEF AgentsSoundAt

AgentsDescribed ==
  /\ DOMAIN agents = {"index", "open"}
  /\ agents.index = Cardinality(Spawns)
  /\ DOMAIN agents.open = OpenAgents(EndOf) /\ IsFiniteSet(DOMAIN agents.open)
  /\ \A j \in Spawns : ~Between(j, EndOf, "agent_result") => agents.open[log[j].id] = Nth(j)
  /\ \A j \in Spawns : Nth(j) <= Len(meta.spawns) /\ meta.spawns[Nth(j)].id = log[j].id
  /\ \A j, k \in Spawns : log[j].id = log[k].id => j = k
  /\ \A k \in Of("agent_result") : \E j \in Spawns : j < k /\ log[j].id = log[k].id

LEMMA ResultJudged ==
  ASSUME NEW e, NEW n, Grows(e, n), Looks(e), AgentsDescribed
  PROVE  /\ PairedWith(n, "agent_spawned", "agent_result")' <=> e.id \in DOMAIN agents.open
         /\ e.id \in DOMAIN agents.open =>
              \E j \in Spawns : /\ Earlier(n, "agent_spawned")' = {j} /\ log[j].id = e.id
                                /\ ~Between(j, EndOf, "agent_result")
<1> DEFINE S == {j \in Spawns : log[j].id = e.id}
           T == {j \in Of("agent_result") : log[j].id = e.id}
<1>1. Earlier(n, "agent_spawned")' = S /\ Earlier(n, "agent_result")' = T
  BY GrownEarlier DEF Spawns
<1>2. PairedWith(n, "agent_spawned", "agent_result")' <=> (\E j \in S : \A k \in S : k = j) /\ T = {}
  BY <1>1 DEF PairedWith
<1>3. EndOf = n /\ \A k \in DOMAIN log : k \in Nat /\ k < n
  BY GrownLog
<1>4. e.id \in DOMAIN agents.open <=> \E j \in S : ~Between(j, EndOf, "agent_result")
  <2>1. \A j \in Spawns : j < EndOf
    BY <1>3, OfLog DEF Spawns
  <2>2. OpenAgents(EndOf) =
          {log[j].id : j \in {k \in Of("agent_spawned") : k < EndOf /\ ~Between(k, EndOf, "agent_result")}}
    BY DEF OpenAgents
  <2> QED BY <2>1, <2>2 DEF Spawns, AgentsDescribed
<1>5. \A j, k \in S : j = k
  BY DEF AgentsDescribed
<1>6. ASSUME NEW j \in S PROVE T = {} <=> ~Between(j, EndOf, "agent_result")
  <2>1. ASSUME NEW k \in T PROVE j < k /\ k < EndOf
    <3>1. PICK i \in Spawns : i < k /\ log[i].id = log[k].id
      BY DEF AgentsDescribed
    <3>2. i = j
      BY <1>5, <3>1
    <3> QED BY <1>3, <3>1, <3>2, OfLog
  <2> QED BY <2>1 DEF Between
<1>7. PairedWith(n, "agent_spawned", "agent_result")' <=> e.id \in DOMAIN agents.open
  BY <1>2, <1>4, <1>5, <1>6
<1>8. e.id \in DOMAIN agents.open =>
         \E j \in Spawns : /\ Earlier(n, "agent_spawned")' = {j} /\ log[j].id = e.id
                           /\ ~Between(j, EndOf, "agent_result")
  BY <1>1, <1>4, <1>5
<1> QED BY <1>7, <1>8

LEMMA AgentsStep ==
  ASSUME NEW e, NEW n, Grows(e, n), mode = "agents", AgentsDescribed, DistinctIds(meta.spawns),
         \A i \in DOMAIN log : AgentsSoundAt(i)
  PROVE  /\ (\A i \in DOMAIN log : AgentsSoundAt(i))' <=> ~AgentsProblem(e)
         /\ ~AgentsProblem(e) /\ agents' = AgentsConsume(e) => AgentsDescribed'
<1>1. /\ log'[n] = e /\ n \in Nat /\ meta' = meta /\ Looks(e) /\ log \in Seq(Alphabet[mode])
      /\ \A i \in DOMAIN log : i \in Nat /\ i < n /\ log'[i] = log[i]
      /\ e.t \in {"ticket_created"} \cup AgentEvents
  BY GrownLog, EventShape DEF Looks, Grows, TypesOf
<1>2. (\A i \in DOMAIN log : AgentsSoundAt(i))' <=> AgentsSoundAt(n)'
  <2>1. \A i \in DOMAIN log : AgentsSoundAt(i)'
    BY <1>1, AgentsKept
  <2> QED BY <2>1, GrownLog
<1>3. /\ Cardinality(Spawns) \in Nat /\ agents.index = Cardinality(Spawns)
      /\ \A i : Nth(i) \in Nat /\ Nth(i) <= Cardinality(Spawns)
      /\ \A i \in Spawns : Nth(i) > 0
  BY <1>1, SpawnsCounted DEF AgentsDescribed
<1>4. Len(meta.spawns) \in Nat /\ DOMAIN meta.spawns = 1..Len(meta.spawns) /\ MaxOpenAgents \in Nat
  <2>1. WellFormedMeta(mode, meta)
    BY ReplayAssumption DEF Grows
  <2>2. meta.spawns \in Seq([id : STRING, result : STRING])
    BY <2>1 DEF WellFormedMeta
  <2> QED BY <2>2, ReplayAssumption
<1>5. Cardinality(DOMAIN agents.open) \in Nat
  BY FS_CardinalityType DEF AgentsDescribed
<1>6. AgentsSoundAt(n)' <=> ~AgentsProblem(e)
  <2>1. CASE e.t = "agent_spawned"
    <3>1. AgentsSoundAt(n)' <=>
            /\ Nth(n)' <= Len(meta.spawns) /\ meta.spawns[Nth(n)'].id = e.id
            /\ Cardinality(OpenAgents(n)') < MaxOpenAgents
      BY <1>1, <2>1 DEF AgentsSoundAt
    <3>2. Nth(n)' = agents.index + 1 /\ OpenAgents(n)' = DOMAIN agents.open
      BY <1>1, <1>3, <2>1, NthGrown, AgentsGrown DEF AgentsDescribed
    <3>3. AgentsProblem(e) <=>
            \/ Cardinality(DOMAIN agents.open) >= MaxOpenAgents
            \/ agents.index >= Len(meta.spawns)
            \/ meta.spawns[agents.index + 1].id # e.id
      BY <2>1 DEF AgentsProblem
    <3> QED BY <1>3, <1>4, <1>5, <3>1, <3>2, <3>3
  <2>2. CASE e.t = "agent_result"
    <3>1. AgentsSoundAt(n)' <=>
            /\ PairedWith(n, "agent_spawned", "agent_result")'
            /\ \A j \in Earlier(n, "agent_spawned")' : meta.spawns[Nth(j)'].result = e.r
      BY <1>1, <2>2 DEF AgentsSoundAt
    <3>2. AgentsProblem(e) <=>
            e.id \notin DOMAIN agents.open \/ meta.spawns[agents.open[e.id]].result # e.r
      BY <2>2 DEF AgentsProblem
    <3>3. CASE e.id \notin DOMAIN agents.open
      BY <1>1, <3>1, <3>2, <3>3, ResultJudged
    <3>4. CASE e.id \in DOMAIN agents.open
      <4>1. PICK j \in Spawns : /\ Earlier(n, "agent_spawned")' = {j} /\ log[j].id = e.id
                                /\ ~Between(j, EndOf, "agent_result")
        BY <1>1, <3>4, ResultJudged
      <4>2. agents.open[e.id] = Nth(j)
        BY <4>1 DEF AgentsDescribed
      <4>3. Nth(j)' = Nth(j)
        BY NthGrown, OfLog DEF Spawns
      <4>4. PairedWith(n, "agent_spawned", "agent_result")'
        BY <1>1, <3>4, ResultJudged
      <4> QED BY <3>1, <3>2, <3>4, <4>1, <4>2, <4>3, <4>4
    <3> QED BY <3>3, <3>4
  <2>3. CASE e.t \notin AgentEvents
    BY <1>1, <2>3 DEF AgentsSoundAt, AgentsProblem, AgentEvents
  <2> QED BY <2>1, <2>2, <2>3 DEF AgentEvents
<1>7. ASSUME ~AgentsProblem(e), agents' = AgentsConsume(e) PROVE AgentsDescribed'
  <2>1. /\ \A k \in Spawns : k \in DOMAIN log /\ log'[k] = log[k] /\ Nth(k)' = Nth(k)
                             /\ (Between(k, EndOf, "agent_result")' <=>
                                   Between(k, EndOf, "agent_result") \/ (e.t = "agent_result" /\ e.id = log[k].id))
        /\ \A k \in Of("agent_result") : k \in DOMAIN log /\ log'[k] = log[k]
    <3>1. \A k \in Spawns \cup Of("agent_result") : k \in DOMAIN log
      BY OfLog DEF Spawns
    <3> QED BY <1>1, <3>1, NthGrown, GrownBetween
  <2>2. /\ Spawns' = Spawns \cup (IF e.t = "agent_spawned" THEN {n} ELSE {})
        /\ Of("agent_result")' = Of("agent_result") \cup (IF e.t = "agent_result" THEN {n} ELSE {})
    <3>1. Of("agent_spawned")' = Spawns \cup (IF e.t = "agent_spawned" THEN {n} ELSE {})
      BY <1>1, GrownOf DEF Spawns
    <3>2. Of("agent_result")' = Of("agent_result") \cup (IF e.t = "agent_result" THEN {n} ELSE {})
      BY <1>1, GrownOf
    <3> QED BY <3>1, <3>2 DEF Spawns
  <2>3. OpenAgents(EndOf)' = CASE e.t = "agent_spawned" -> OpenAgents(EndOf) \cup {e.id}
                               [] e.t = "agent_result" -> OpenAgents(EndOf) \ {e.id}
                               [] OTHER -> OpenAgents(EndOf)
    BY <1>1, AgentsGrown
  <2>4. CASE e.t = "agent_spawned"
    <3>1. agents' = [index |-> agents.index + 1,
                     open |-> [a \in DOMAIN agents.open \cup {e.id} |->
                                 IF a = e.id THEN agents.index + 1 ELSE agents.open[a]]]
      BY <1>7, <2>4 DEF AgentsConsume
    <3>2. /\ Nth(n)' = Cardinality(Spawns) + 1 /\ Cardinality(Spawns') = Cardinality(Spawns) + 1
      BY <1>1, <2>4, NthGrown
    <3>3. /\ DOMAIN agents' = {"index", "open"} /\ agents'.index = agents.index + 1
          /\ DOMAIN agents'.open = DOMAIN agents.open \cup {e.id}
          /\ agents'.open[e.id] = agents.index + 1
          /\ \A a \in DOMAIN agents.open : a # e.id => agents'.open[a] = agents.open[a]
      BY <3>1
    <3>4. agents.index < Len(meta.spawns) /\ meta.spawns[agents.index + 1].id = e.id
      BY <1>3, <1>4, <1>7, <2>4 DEF AgentsProblem
    <3>5. \A j \in Spawns : log[j].id # e.id
      <4> SUFFICES ASSUME NEW j \in Spawns, log[j].id = e.id PROVE FALSE
        OBVIOUS
      <4>1. Nth(j) \in 1..Len(meta.spawns) /\ meta.spawns[Nth(j)].id = meta.spawns[agents.index + 1].id
        BY <1>3, <1>4, <3>4 DEF AgentsDescribed
      <4>2. Nth(j) = agents.index + 1
        <5>1. agents.index + 1 \in DOMAIN meta.spawns /\ Nth(j) \in DOMAIN meta.spawns
          BY <1>3, <1>4, <3>4, <4>1
        <5>2. \A a, b \in DOMAIN meta.spawns : meta.spawns[a].id = meta.spawns[b].id => a = b
          BY DEF DistinctIds
        <5> QED BY <4>1, <5>1, <5>2
      <4> QED BY <1>3, <4>2
    <3>6. IsFiniteSet(DOMAIN agents'.open)
      <4>1. IsFiniteSet(DOMAIN agents.open)
        BY DEF AgentsDescribed
      <4> QED BY <3>3, <4>1, FS_AddElement
    <3>7. DOMAIN agents'.open = OpenAgents(EndOf)'
      BY <2>3, <2>4, <3>3 DEF AgentsDescribed
    <3>8. \A j \in Spawns' : ~Between(j, EndOf, "agent_result")' => agents'.open[log'[j].id] = Nth(j)'
      <4>1. ASSUME NEW j \in Spawns, ~Between(j, EndOf, "agent_result")
            PROVE  agents'.open[log'[j].id] = Nth(j)'
        <5>1. log[j].id \in DOMAIN agents.open
          <6>1. OpenAgents(EndOf) =
                  {log[i].id : i \in {k \in Of("agent_spawned") : k < EndOf /\ ~Between(k, EndOf, "agent_result")}}
            BY DEF OpenAgents
          <6>2. j < EndOf
            BY <2>1, GrownLog
          <6> QED BY <4>1, <6>1, <6>2 DEF AgentsDescribed, Spawns
        <5> QED BY <2>1, <3>3, <3>5, <4>1, <5>1 DEF AgentsDescribed
      <4>2. agents'.open[log'[n].id] = Nth(n)'
        BY <1>1, <1>3, <3>2, <3>3
      <4> QED BY <2>1, <2>2, <2>4, <4>1, <4>2
    <3>9. \A j \in Spawns' : Nth(j)' <= Len(meta.spawns) /\ meta.spawns[Nth(j)'].id = log'[j].id
      <4>1. Nth(n)' <= Len(meta.spawns) /\ meta.spawns[Nth(n)'].id = log'[n].id
        BY <1>1, <1>3, <1>4, <3>2, <3>4
      <4> QED BY <2>1, <2>2, <2>4, <4>1 DEF AgentsDescribed
    <3>10. \A j, k \in Spawns' : log'[j].id = log'[k].id => j = k
      BY <1>1, <2>1, <2>2, <2>4, <3>5 DEF AgentsDescribed
    <3>11. \A k \in Of("agent_result")' : \E j \in Spawns' : j < k /\ log'[j].id = log'[k].id
      BY <2>1, <2>2, <2>4 DEF AgentsDescribed
    <3> QED BY <1>1, <1>3, <3>2, <3>3, <3>6, <3>7, <3>8, <3>9, <3>10, <3>11 DEF AgentsDescribed
  <2>5. CASE e.t = "agent_result"
    <3>1. agents' = [agents EXCEPT !.open = [a \in DOMAIN agents.open \ {e.id} |-> agents.open[a]]]
      BY <1>7, <2>5 DEF AgentsConsume
    <3>2. /\ DOMAIN agents' = {"index", "open"} /\ agents'.index = agents.index
          /\ agents'.open = [a \in DOMAIN agents.open \ {e.id} |-> agents.open[a]]
      BY <3>1 DEF AgentsDescribed
    <3>3. /\ DOMAIN agents'.open = DOMAIN agents.open \ {e.id}
          /\ \A a \in DOMAIN agents.open : a # e.id => agents'.open[a] = agents.open[a]
      BY <3>2
    <3>4. Spawns' = Spawns
      BY <2>2, <2>5
    <3>5. IsFiniteSet(DOMAIN agents'.open)
      <4>1. IsFiniteSet(DOMAIN agents.open)
        BY DEF AgentsDescribed
      <4> QED BY <3>3, <4>1, FS_Subset
    <3>6. DOMAIN agents'.open = OpenAgents(EndOf)'
      BY <2>3, <2>5, <3>3 DEF AgentsDescribed
    <3>7. \A j \in Spawns : ~Between(j, EndOf, "agent_result")' => agents'.open[log'[j].id] = Nth(j)'
      <4> SUFFICES ASSUME NEW j \in Spawns, ~Between(j, EndOf, "agent_result")'
                   PROVE  agents'.open[log'[j].id] = Nth(j)'
        OBVIOUS
      <4>1. ~Between(j, EndOf, "agent_result") /\ log[j].id # e.id
        BY <2>1, <2>5
      <4>2. log[j].id \in DOMAIN agents.open
        <5>1. OpenAgents(EndOf) =
                {log[i].id : i \in {k \in Of("agent_spawned") : k < EndOf /\ ~Between(k, EndOf, "agent_result")}}
          BY DEF OpenAgents
        <5>2. j < EndOf
          BY <2>1, GrownLog
        <5> QED BY <4>1, <5>1, <5>2 DEF AgentsDescribed, Spawns
      <4> QED BY <2>1, <3>3, <4>1, <4>2 DEF AgentsDescribed
    <3>8. \A k \in Of("agent_result")' : \E j \in Spawns : j < k /\ log'[j].id = log'[k].id
      <4>1. \E j \in Spawns : j < n /\ log'[j].id = log'[n].id
        <5>1. e.id \in DOMAIN agents.open
          BY <1>7, <2>5 DEF AgentsProblem
        <5>2. PICK j \in Spawns : log[j].id = e.id
          BY <1>1, <5>1, ResultJudged
        <5> QED BY <1>1, <2>1, <5>2
      <4> QED BY <2>1, <2>2, <2>5, <4>1 DEF AgentsDescribed
    <3>9. \A j \in Spawns : Nth(j)' <= Len(meta.spawns) /\ meta.spawns[Nth(j)'].id = log'[j].id
      BY <2>1 DEF AgentsDescribed
    <3>10. \A j, k \in Spawns : log'[j].id = log'[k].id => j = k
      BY <2>1 DEF AgentsDescribed
    <3> QED BY <1>1, <1>3, <3>2, <3>4, <3>5, <3>6, <3>7, <3>8, <3>9, <3>10 DEF AgentsDescribed
  <2>6. CASE e.t \notin AgentEvents
    <3>1. agents' = agents /\ Spawns' = Spawns /\ Of("agent_result")' = Of("agent_result")
          /\ OpenAgents(EndOf)' = OpenAgents(EndOf)
      BY <1>7, <2>2, <2>3, <2>6 DEF AgentsConsume, AgentEvents
    <3> QED BY <1>1, <2>1, <2>6, <3>1 DEF AgentsDescribed, AgentEvents
  <2> QED BY <2>4, <2>5, <2>6 DEF AgentEvents
<1> QED BY <1>2, <1>6, <1>7

(* The replay.                                                             *)

Checks == {"chain", "ticket", "exec", "agents", "bind", "hash"}
ExecModes == {"execution", "noModel"}

ReplayShape ==
  /\ mode \in Modes /\ meta \in Metadata[mode] /\ log \in Seq(Alphabet[mode])
  /\ bad \subseteq Checks /\ verdict \in Verdicts
  /\ ExecShape
  /\ mode = "state" => TicketShape
  /\ BindShape
  /\ mode # "binding" => ~bind.seen /\ hash = "none"

\* What was consumed has no problem yet, in what the mode looks at.
SoundSoFar ==
  /\ mode \in ExecModes => ExecutionSound
  /\ mode = "state" => \A i \in DOMAIN log : TicketSoundAt(i)
  /\ mode = "agents" => DistinctIds(meta.spawns) /\ \A i \in DOMAIN log : AgentsSoundAt(i)
  /\ mode = "binding" => \A i \in DOMAIN log : BindingSoundAt(i)

\* The mirror has the state that the chain gives it.
Described ==
  /\ mode \in ExecModes => ExecDescribed
  /\ mode = "state" => TicketDescribed
  /\ mode = "agents" => AgentsDescribed
  /\ mode = "binding" => BindDescribed /\ HashDescribed

ReplayInv ==
  /\ ReplayShape
  /\ verdict = "none" /\ bad = {} => Described /\ SoundSoFar
  /\ verdict = "none" /\ bad # {} /\ "chain" \notin bad => ~SoundSoFar
  /\ ExecutionReplayed /\ MetadataReplayed

LEMMA MetaShape ==
  ASSUME mode \in Modes, meta \in Metadata[mode]
  PROVE  /\ mode # "agents" => meta.spawns = <<>>
         /\ mode # "binding" => meta.binding = "none"
  BY ReplayAssumption DEF WellFormedMeta

LEMMA EmptyChain ==
  ASSUME ReplayInit
  PROVE  ReplayInv
<1>1. /\ mode \in Modes /\ meta \in Metadata[mode] /\ log = <<>> /\ verdict = "none"
      /\ mirror = [births |-> 0, migrations |-> 0, cur |-> "none", close |-> "none"]
      /\ exec = [steps |-> Empty, ops |-> Empty, open |-> {}, birth |-> FALSE, last |-> NoCompletion]
      /\ agents = [index |-> 0, open |-> Empty]
      /\ bind = [value |-> "none", seen |-> FALSE, open |-> {}, closed |-> FALSE]
      /\ hash = "none"
      /\ bad = IF DistinctIds(meta.spawns) THEN {} ELSE {"agents"}
  BY DEF ReplayInit
<1>2. /\ DOMAIN log = {} /\ log \in Seq(Alphabet[mode]) /\ EndOf = 1
      /\ \A types : Idx(types) = {}
      /\ \A t : Of(t) = {}
      /\ Audits = {} /\ Bound = {}
  <2>1. DOMAIN log = {} /\ log \in Seq(Alphabet[mode]) /\ EndOf = 1
    BY <1>1 DEF EndOf
  <2> QED BY <2>1 DEF Idx, Of, Audits, Bound
<1>3. DOMAIN Empty = {}
  BY DEF Empty
<1>4. ReplayShape
  <2>1. ExecShape
    BY <1>1 DEF ExecShape, IsResult, NoCompletion
  <2>2. TicketShape
    BY <1>1 DEF TicketShape
  <2>3. BindShape /\ ~bind.seen
    BY <1>1 DEF BindShape
  <2>4. bad \subseteq Checks /\ verdict \in Verdicts
    BY <1>1 DEF Checks, Verdicts
  <2> QED BY <1>1, <1>2, <2>1, <2>2, <2>3, <2>4 DEF ReplayShape
<1>5. ExecDescribed /\ ExecutionSound
  <2>1. OpenEffects = {}
    BY <1>2 DEF OpenEffects
  <2>2. \A start, end : Tabled(Empty, start, end)
    BY <1>2, <1>3 DEF Tabled
  <2>3. LastKnown /\ EndsLast
    BY <1>1, <1>2 DEF LastKnown, EndsLast
  <2>4. ExecutionSound
    BY <1>2 DEF ExecutionSound
  <2>5. exec.open = {} /\ exec.birth = FALSE /\ exec.steps = Empty /\ exec.ops = Empty
    BY <1>1
  <2> QED BY <1>2, <2>1, <2>2, <2>3, <2>4, <2>5 DEF ExecDescribed
<1>6. TicketDescribed
  <2>1. mirror.births = 0 /\ mirror.migrations = 0 /\ mirror.cur = "none" /\ mirror.close = "none"
    BY <1>1
  <2>2. \A x : PhaseBefore(EndOf, x) <=> x = "none"
    BY <1>2 DEF PhaseBefore, NoneBefore, LastBefore
  <2> QED BY <1>1, <2>1, <2>2 DEF TicketDescribed
<1>7. AgentsDescribed
  <2>1. Spawns = {} /\ OpenAgents(EndOf) = {}
    BY <1>2 DEF Spawns, OpenAgents
  <2>2. Cardinality(Spawns) = 0 /\ IsFiniteSet({})
    BY <2>1, FS_EmptySet
  <2>3. DOMAIN agents = {"index", "open"} /\ agents.index = 0 /\ agents.open = Empty
    BY <1>1
  <2> QED BY <1>2, <1>3, <2>1, <2>2, <2>3 DEF AgentsDescribed
<1>8. BindDescribed
  <2>1. bind.open = {} /\ bind.closed = FALSE /\ bind.seen = FALSE
    BY <1>1
  <2>2. \A x : ~OpenNow(x)
    BY <1>2 DEF OpenNow
  <2>3. ~ClosedNow
    BY <1>2 DEF ClosedNow
  <2> QED BY <1>2, <2>1, <2>2, <2>3 DEF BindDescribed
<1>9. HashDescribed
  BY <1>1, <1>2 DEF HashDescribed
<1>10. bad # {} => mode = "agents" /\ ~DistinctIds(meta.spawns)
  <2>1. DistinctIds(<<>>)
    BY DEF DistinctIds
  <2> QED BY <1>1, <2>1, MetaShape
<1>11. bad = {} => SoundSoFar
  BY <1>1, <1>2, <1>5 DEF SoundSoFar
<1>12. bad # {} => ~SoundSoFar
  BY <1>10 DEF SoundSoFar
<1>13. ExecutionReplayed /\ MetadataReplayed
  BY <1>1, <1>5 DEF ExecutionReplayed, MetadataReplayed
<1> QED BY <1>4, <1>5, <1>6, <1>7, <1>8, <1>9, <1>11, <1>12, <1>13 DEF ReplayInv, Described

(* A problem is found at the first event that makes the chain unsound.     *)
LEMMA ConsumeKeeps ==
  ASSUME ReplayInv, NEW e \in Alphabet[mode], Consume(e)
  PROVE  ReplayInv'
<1> PICK n : n = Len(log) + 1
  OBVIOUS
<1>1. /\ verdict = "none" /\ bad = {} /\ log' = Append(log, e) /\ mode' = mode /\ meta' = meta /\ verdict' = verdict
      /\ mirror' = IF Enabled THEN TicketConsume(e) ELSE mirror
      /\ exec' = ExecConsume(e)
      /\ bad' = (IF FirstProblem(e) THEN {"chain"} ELSE {})
                  \cup (IF Enabled /\ TicketProblem(e) THEN {"ticket"} ELSE {})
                  \cup (IF mode \in ExecModes /\ ExecProblem(e) THEN {"exec"} ELSE {})
                  \cup (IF mode = "agents" /\ AgentsProblem(e) THEN {"agents"} ELSE {})
                  \cup (IF BindProblem(e) THEN {"bind"} ELSE {})
      /\ agents' = IF mode = "agents" /\ bad' = {} THEN AgentsConsume(e) ELSE agents
      /\ bind' = BindConsume(e)
      /\ hash' = IF e.t = "metadata_updated" THEN e.r ELSE hash
  BY DEF Consume, ExecModes
<1>2. Grows(e, n) /\ Described /\ SoundSoFar /\ ReplayShape
  BY <1>1 DEF Grows, ReplayInv, ReplayShape
<1>3. ExecShape'
  <2>1. CASE mode \in ExecModes
    BY <1>1, <1>2, <2>1, ExecStep DEF ReplayShape, Described, SoundSoFar, ExecModes
  <2>2. CASE mode \notin ExecModes
    BY <1>1, <1>2, ExecShapeKept DEF ReplayShape
  <2> QED BY <2>1, <2>2
<1>4. BindShape' /\ (mode # "binding" => ~bind'.seen /\ hash' = "none" /\ ~BindProblem(e))
  <2>1. BindShape'
    BY <1>1, <1>2, BindShapeKept DEF ReplayShape
  <2>2. ASSUME mode # "binding" PROVE ~bind'.seen /\ hash' = "none" /\ ~BindProblem(e)
    <3>1. e.t # "metadata_updated"
      BY <1>2, <2>2, EventShape DEF Grows, Modes, TypesOf, Births, Closings, AttemptEvents, StepEvents, AgentEvents
    <3>2. ~Binds(e) /\ ~bind.seen /\ hash = "none" /\ bind.seen \in BOOLEAN
      BY <1>2, <2>2, <3>1 DEF Binds, ReplayShape, BindShape
    <3>3. bind'.seen = (bind.seen \/ Binds(e))
      BY <1>1, <1>2 DEF BindConsume, ReplayShape, BindShape
    <3> QED BY <1>1, <3>1, <3>2, <3>3 DEF BindProblem
  <2> QED BY <2>1, <2>2
<1>5. mode = "state" => TicketShape'
  BY <1>1, <1>2, TicketStep DEF ReplayShape, Described, SoundSoFar, Enabled
<1>6. ReplayShape'
  <2>1. log' \in Seq(Alphabet[mode])
    BY <1>2, GrownLog
  <2>2. bad' \subseteq Checks
    BY <1>1 DEF Checks
  <2> QED BY <1>1, <1>2, <1>3, <1>4, <1>5, <2>1, <2>2 DEF ReplayShape
<1>7. CASE mode \in ExecModes
  <2>1. /\ ExecutionSound' <=> ~ExecProblem(e)
        /\ ~ExecProblem(e) => ExecDescribed'
    BY <1>1, <1>2, <1>7, ExecStep DEF ReplayShape, Described, SoundSoFar, ExecModes
  <2>2. "exec" \in bad' <=> ExecProblem(e)
    BY <1>1, <1>7
  <2>3. bad' # {} /\ "chain" \notin bad' => ExecProblem(e)
    BY <1>1, <1>4, <1>7 DEF Enabled, ExecModes
  <2>4. SoundSoFar' <=> ExecutionSound'
    BY <1>1, <1>7 DEF SoundSoFar, ExecModes
  <2>5. bad' = {} => Described'
    BY <1>1, <1>7, <2>1, <2>2 DEF Described, ExecModes
  <2>6. ExecutionReplayed' /\ MetadataReplayed'
    BY <1>1, <2>1, <2>2 DEF ExecutionReplayed, MetadataReplayed
  <2> QED BY <1>6, <2>1, <2>2, <2>3, <2>4, <2>5, <2>6 DEF ReplayInv
<1>8. CASE mode = "state"
  <2>1. /\ (\A i \in DOMAIN log : TicketSoundAt(i))' <=> ~TicketProblem(e)
        /\ ~TicketProblem(e) => TicketDescribed'
    BY <1>1, <1>2, <1>8, TicketStep DEF ReplayShape, Described, SoundSoFar, Enabled
  <2>2. "ticket" \in bad' <=> TicketProblem(e)
    BY <1>1, <1>8 DEF Enabled
  <2>3. bad' # {} /\ "chain" \notin bad' => TicketProblem(e)
    BY <1>1, <1>4, <1>8 DEF ExecModes
  <2>4. SoundSoFar' <=> (\A i \in DOMAIN log : TicketSoundAt(i))'
    BY <1>1, <1>8 DEF SoundSoFar, ExecModes
  <2>5. bad' = {} => Described'
    BY <1>1, <1>8, <2>1, <2>2 DEF Described, ExecModes
  <2>6. ExecutionReplayed' /\ MetadataReplayed'
    BY <1>1, <1>8 DEF ExecutionReplayed, MetadataReplayed
  <2> QED BY <1>6, <2>1, <2>2, <2>3, <2>4, <2>5, <2>6 DEF ReplayInv
<1>9. CASE mode = "agents"
  <2>1. /\ (\A i \in DOMAIN log : AgentsSoundAt(i))' <=> ~AgentsProblem(e)
        /\ ~AgentsProblem(e) /\ agents' = AgentsConsume(e) => AgentsDescribed'
    BY <1>2, <1>9, AgentsStep DEF Described, SoundSoFar
  <2>2. "agents" \in bad' <=> AgentsProblem(e)
    BY <1>1, <1>9
  <2>3. bad' # {} /\ "chain" \notin bad' => AgentsProblem(e)
    BY <1>1, <1>4, <1>9 DEF ExecModes, Enabled
  <2>4. SoundSoFar' <=> (\A i \in DOMAIN log : AgentsSoundAt(i))'
    BY <1>1, <1>2, <1>9 DEF SoundSoFar, ExecModes
  <2>5. bad' = {} => Described'
    BY <1>1, <1>9, <2>1, <2>2 DEF Described, ExecModes
  <2>6. ExecutionReplayed' /\ MetadataReplayed'
    BY <1>1, <1>9 DEF ExecutionReplayed, MetadataReplayed
  <2> QED BY <1>6, <2>1, <2>2, <2>3, <2>4, <2>5, <2>6 DEF ReplayInv
<1>10. CASE mode = "binding"
  <2>1. /\ (\A i \in DOMAIN log : BindingSoundAt(i))' <=> ~BindProblem(e)
        /\ ~BindProblem(e) => BindDescribed'
    BY <1>1, <1>2, <1>10, BindStep DEF ReplayShape, Described, SoundSoFar
  <2>2. HashDescribed'
    BY <1>1, <1>2, <1>10, HashStep DEF Described
  <2>3. "bind" \in bad' <=> BindProblem(e)
    BY <1>1
  <2>4. bad' # {} /\ "chain" \notin bad' => BindProblem(e)
    BY <1>1, <1>10 DEF ExecModes, Enabled
  <2>5. SoundSoFar' <=> (\A i \in DOMAIN log : BindingSoundAt(i))'
    BY <1>1, <1>10 DEF SoundSoFar, ExecModes
  <2>6. bad' = {} => Described'
    BY <1>1, <1>10, <2>1, <2>2, <2>3 DEF Described, ExecModes
  <2>7. ExecutionReplayed' /\ MetadataReplayed'
    BY <1>1, <1>10 DEF ExecutionReplayed, MetadataReplayed
  <2> QED BY <1>6, <2>1, <2>3, <2>4, <2>5, <2>6, <2>7 DEF ReplayInv
<1> QED BY <1>2, <1>7, <1>8, <1>9, <1>10 DEF ReplayShape, Modes, TypesOf, ExecModes

LEMMA ChainSame ==
  ASSUME mode' = mode, meta' = meta, log' = log
  PROVE  /\ ExecutionSound' <=> ExecutionSound
         /\ TicketSound' <=> TicketSound
         /\ AgentsSound' <=> AgentsSound
         /\ BindingSound' <=> BindingSound
         /\ SoundSoFar' <=> SoundSoFar
<1>1. /\ \A types : Idx(types)' = Idx(types)
      /\ \A t : Of(t)' = Of(t)
      /\ Audits' = Audits /\ Bound' = Bound
  BY DEF Idx, Of, Seen, Audits, Bound
<1>2. \A i, t : Earlier(i, t)' = Earlier(i, t)
  BY <1>1 DEF Earlier
<1>3. \A j, i, t : Between(j, i, t)' <=> Between(j, i, t)
  BY <1>1 DEF Between
<1>4. \A i, s, t : (PairedWith(i, s, t)' <=> PairedWith(i, s, t)) /\ (SameName(i, s)' <=> SameName(i, s))
  BY <1>2 DEF PairedWith, SameName
<1>5. \A i : EffectsEnded(i)' <=> EffectsEnded(i)
  BY <1>1, <1>3 DEF EffectsEnded
<1>6. \A i : (Audited(i)' <=> Audited(i)) /\ (MustBeAudited(i)' <=> MustBeAudited(i))
  BY <1>1 DEF Audited, MustBeAudited
<1>7. ExecutionSound' <=> ExecutionSound
  <2>1. \A i : ExecutionSoundAt(i)' <=> ExecutionSoundAt(i)
    <3> SUFFICES ASSUME NEW i PROVE ExecutionSoundAt(i)' <=> ExecutionSoundAt(i)
      OBVIOUS
    <3>1. Earlier(i, log[i].t)' = Earlier(i, log[i].t)
      BY <1>1 DEF Earlier
    <3> QED BY <1>4, <1>5, <1>6, <3>1 DEF ExecutionSoundAt
  <2> QED BY <2>1 DEF ExecutionSound
<1>8. \A i, types : LastBefore(i, types)' = LastBefore(i, types) /\ (NoneBefore(i, types)' <=> NoneBefore(i, types))
  BY <1>1 DEF LastBefore, NoneBefore
<1>9. \A i, x : (StateBefore(i, x)' <=> StateBefore(i, x)) /\ (PhaseBefore(i, x)' <=> PhaseBefore(i, x))
  BY <1>8 DEF StateBefore, PhaseBefore, BirthState
<1>10. \A i : TicketSoundAt(i)' <=> TicketSoundAt(i)
  <2> SUFFICES ASSUME NEW i PROVE TicketSoundAt(i)' <=> TicketSoundAt(i)
    OBVIOUS
  <2>1. StateBefore(i, log[i].s)' <=> StateBefore(i, log[i].s)
    BY <1>8 DEF StateBefore, BirthState
  <2>2. PhaseBefore(i, log[i].s)' <=> PhaseBefore(i, log[i].s)
    BY <1>8 DEF PhaseBefore
  <2> QED BY <1>9, <2>1, <2>2 DEF TicketSoundAt
<1>11. TicketSound' <=> TicketSound
  <2>1. StateBefore(Len(log) + 1, meta.status)' <=> StateBefore(Len(log) + 1, meta.status)
    BY <1>8 DEF StateBefore, BirthState
  <2>2. PhaseBefore(Len(log) + 1, meta.close)' <=> PhaseBefore(Len(log) + 1, meta.close)
    BY <1>8 DEF PhaseBefore
  <2> QED BY <1>10, <2>1, <2>2 DEF TicketSound
<1>12. \A i : Nth(i)' = Nth(i) /\ OpenAgents(i)' = OpenAgents(i)
  BY <1>1, <1>3 DEF Nth, OpenAgents
<1>13. \A i : AgentsSoundAt(i)' <=> AgentsSoundAt(i)
  BY <1>2, <1>4, <1>12 DEF AgentsSoundAt
<1>14. AgentsSound' <=> AgentsSound
  <2>1. \A i : Between(i, Len(log) + 1, "agent_result")' <=> Between(i, Len(log) + 1, "agent_result")
    BY <1>1 DEF Between
  <2> QED BY <1>1, <1>12, <1>13, <2>1 DEF AgentsSound
<1>15. \A i : BindingSoundAt(i)' <=> BindingSoundAt(i)
  BY <1>1, <1>3 DEF BindingSoundAt, QuietAt
<1>16. BindingSound' <=> BindingSound
  <2>1. LastBefore(Len(log) + 1, {"metadata_updated"})' = LastBefore(Len(log) + 1, {"metadata_updated"})
    BY <1>1 DEF LastBefore
  <2> QED BY <1>1, <1>15, <2>1 DEF BindingSound
<1>17. SoundSoFar' <=> SoundSoFar
  BY <1>7, <1>10, <1>13, <1>15 DEF SoundSoFar
<1> QED BY <1>7, <1>11, <1>14, <1>16, <1>17

(* The end of a chain without problems is the metadata's, or it is not.    *)
LEMMA FinishKeeps ==
  ASSUME ReplayInv, FinishReplay
  PROVE  ReplayInv'
<1> DEFINE found == bad \cup (IF hash \in {"none", meta.hash} THEN {} ELSE {"hash"})
                        \cup (IF TicketFinish THEN {} ELSE {"ticket"})
                        \cup (IF mode # "agents" \/ AgentsFinish THEN {} ELSE {"agents"})
                        \cup (IF BindFinish THEN {} ELSE {"bind"})
<1>1. /\ verdict = "none" /\ (log # <<>> \/ bad # {})
      /\ bad' = found /\ verdict' = IF found = {} THEN "accepted" ELSE "refused"
      /\ mode' = mode /\ meta' = meta /\ log' = log /\ mirror' = mirror /\ exec' = exec
      /\ agents' = agents /\ bind' = bind /\ hash' = hash
  BY DEF FinishReplay
<1>2. ReplayShape /\ (bad = {} => Described /\ SoundSoFar) /\ (bad # {} /\ "chain" \notin bad => ~SoundSoFar)
  BY <1>1 DEF ReplayInv
<1>3. ("chain" \in bad' <=> "chain" \in bad) /\ ("exec" \in bad' <=> "exec" \in bad)
  BY <1>1
<1>4. ReplayShape'
  <2>1. bad' \subseteq Checks /\ verdict' \in Verdicts
    BY <1>1, <1>2 DEF ReplayShape, Checks, Verdicts
  <2> QED BY <1>1, <1>2, <2>1 DEF ReplayShape, ExecShape, TicketShape, BindShape
<1>5. verdict' # "none"
  BY <1>1
<1>6. ExecutionReplayed'
  <2>1. ExecutionReplayed
    BY DEF ReplayInv
  <2> QED BY <1>1, <1>3, <2>1, ChainSame DEF ExecutionReplayed
<1>7. verdict' = "accepted" <=> /\ bad = {} /\ hash \in {"none", meta.hash} /\ TicketFinish
                                /\ (mode # "agents" \/ AgentsFinish) /\ BindFinish
  BY <1>1
<1>8. mode \in Modes /\ meta \in Metadata[mode] /\ log \in Seq(Alphabet[mode])
  BY <1>2 DEF ReplayShape
<1>9. mode # "binding" => hash \in {"none", meta.hash} /\ BindFinish
  <2> SUFFICES ASSUME mode # "binding" PROVE hash \in {"none", meta.hash} /\ BindFinish
    OBVIOUS
  <2>1. meta.binding = "none"
    BY <1>8, MetaShape
  <2>2. bind.seen = FALSE /\ hash = "none"
    BY <1>2 DEF ReplayShape, BindShape
  <2>3. (meta.binding # "none") = FALSE
    BY <2>1
  <2> QED BY <2>1, <2>2, <2>3 DEF BindFinish
<1>10. mode # "state" => TicketFinish
  BY DEF TicketFinish, Enabled
<1>11. EndOf = Len(log) + 1
  BY DEF EndOf
<1>12. ASSUME mode = "state", "chain" \notin bad PROVE verdict' = "accepted" <=> TicketSound
  <2>1. CASE bad # {}
    BY <1>2, <1>7, <1>12, <2>1 DEF SoundSoFar, ExecModes, TicketSound
  <2>2. CASE bad = {}
    <3>1. /\ log # <<>> /\ \A i \in DOMAIN log : TicketSoundAt(i)
          /\ \A x : StateBefore(EndOf, x) <=> mirror.cur \in {"none", x}
          /\ \A x : PhaseBefore(EndOf, x) <=> mirror.close = x
      BY <1>1, <1>2, <1>12, <2>2 DEF SoundSoFar, Described, TicketDescribed
    <3>2. TicketSound <=> mirror.cur \in {"none", meta.status} /\ mirror.close = meta.close
      BY <1>11, <3>1 DEF TicketSound
    <3> QED BY <1>7, <1>9, <1>12, <2>2, <3>2 DEF TicketFinish, Enabled
  <2> QED BY <2>1, <2>2
<1>13. ASSUME mode = "agents", "chain" \notin bad PROVE verdict' = "accepted" <=> AgentsSound
  <2>1. CASE bad # {}
    BY <1>2, <1>7, <1>13, <2>1 DEF SoundSoFar, ExecModes, AgentsSound
  <2>2. CASE bad = {}
    <3>1. /\ DistinctIds(meta.spawns) /\ \A i \in DOMAIN log : AgentsSoundAt(i)
          /\ AgentsDescribed
      BY <1>2, <1>13, <2>2 DEF SoundSoFar, Described
    <3>2. agents.index = Cardinality(Of("agent_spawned"))
      BY <3>1 DEF AgentsDescribed, Spawns
    <3>3. (\A a \in DOMAIN agents.open : meta.spawns[agents.open[a]].result = "none")
           <=> \A i \in Of("agent_spawned") :
                 ~Between(i, EndOf, "agent_result") => meta.spawns[Nth(i)].result = "none"
      <4>1. OpenAgents(EndOf) =
              {log[i].id : i \in {k \in Of("agent_spawned") : k < EndOf /\ ~Between(k, EndOf, "agent_result")}}
        BY DEF OpenAgents
      <4>2. \A k \in Of("agent_spawned") : k < EndOf
        BY <1>8, <1>11, OfLog
      <4> QED BY <3>1, <4>1, <4>2 DEF AgentsDescribed, Spawns
    <3>4. AgentsSound <=> AgentsFinish
      BY <1>11, <3>1, <3>2, <3>3 DEF AgentsSound, AgentsFinish
    <3> QED BY <1>7, <1>9, <1>10, <1>13, <2>2, <3>4
  <2> QED BY <2>1, <2>2
<1>14. ASSUME mode = "binding", "chain" \notin bad PROVE verdict' = "accepted" <=> BindingSound
  <2>1. CASE bad # {}
    BY <1>2, <1>7, <1>14, <2>1 DEF SoundSoFar, ExecModes, BindingSound
  <2>2. CASE bad = {}
    <3>1. /\ \A i \in DOMAIN log : BindingSoundAt(i)
          /\ BindDescribed /\ HashDescribed
      BY <1>2, <1>14, <2>2 DEF SoundSoFar, Described
    <3>2. hash \in {"none", meta.hash} <=>
            \A i \in LastBefore(Len(log) + 1, {"metadata_updated"}) : log[i].r = meta.hash
      <4>1. \A i \in LastBefore(EndOf, {"metadata_updated"}) : i \in Idx({"metadata_updated"})
        BY DEF LastBefore
      <4>2. \A i, j \in LastBefore(EndOf, {"metadata_updated"}) : i = j
        <5>1. \A i \in Idx({"metadata_updated"}) : i \in Nat
          BY <1>8 DEF Idx
        <5> QED BY <4>1, <5>1 DEF LastBefore
      <4> QED BY <1>11, <3>1, <4>1, <4>2 DEF HashDescribed
    <3>3. BindFinish <=> /\ \A i \in Bound : log[i].id = meta.binding
                         /\ Bound = {} => meta.binding = "none"
                         /\ meta.binding # "none" => ~meta.checkout
      <4>1. \A i \in Bound : log[i].id # "none"
        <5>1. \A i \in Bound : log[i] \in Alphabet[mode]
          BY <1>8 DEF Bound
        <5> QED BY <1>8, <5>1, EventShape
      <4>2. (bind.seen <=> Bound # {}) /\ bind.seen \in BOOLEAN /\ \A i \in Bound : bind.value = log[i].id
        BY <1>2, <3>1 DEF BindDescribed, ReplayShape, BindShape
      <4> QED BY <4>1, <4>2 DEF BindFinish
    <3> QED BY <1>7, <1>10, <1>14, <2>2, <3>1, <3>2, <3>3 DEF BindingSound
  <2> QED BY <2>1, <2>2
<1>15. MetadataReplayed'
  <2>1. "chain" \notin bad =>
          CASE mode = "state" -> (verdict' = "accepted") <=> TicketSound
            [] mode = "agents" -> (verdict' = "accepted") <=> AgentsSound
            [] mode = "binding" -> (verdict' = "accepted") <=> BindingSound
            [] OTHER -> TRUE
    BY <1>12, <1>13, <1>14
  <2> QED BY <1>1, <1>3, <2>1, ChainSame DEF MetadataReplayed
<1> QED BY <1>4, <1>5, <1>6, <1>15 DEF ReplayInv

LEMMA StutterKeeps ==
  ASSUME ReplayInv, UNCHANGED replayVars
  PROVE  ReplayInv'
<1>1. /\ mode' = mode /\ meta' = meta /\ log' = log /\ mirror' = mirror /\ exec' = exec
      /\ agents' = agents /\ bind' = bind /\ hash' = hash /\ bad' = bad /\ verdict' = verdict
  BY DEF replayVars
<1>2. ReplayShape'
  BY <1>1 DEF ReplayInv, ReplayShape, ExecShape, TicketShape, BindShape
<1>3. Described' <=> Described
  <2>1. /\ \A types : Idx(types)' = Idx(types)
        /\ \A t : Of(t)' = Of(t)
        /\ Audits' = Audits /\ Bound' = Bound /\ EndOf' = EndOf /\ Spawns' = Spawns
    BY <1>1 DEF Idx, Of, Seen, Audits, Bound, EndOf, Spawns
  <2>2. \A j, t : Between(j, EndOf, t)' <=> Between(j, EndOf, t)
    BY <1>1, <2>1 DEF Between
  <2>3. ExecDescribed' <=> ExecDescribed
    <3>1. OpenEffects' = OpenEffects
      BY <1>1, <2>1, <2>2 DEF OpenEffects
    <3>2. (LastKnown' <=> LastKnown) /\ (EndsLast' <=> EndsLast)
      BY <1>1, <2>1 DEF LastKnown, EndsLast
    <3>3. /\ Tabled(exec.steps, "step_started", "step_finished")' <=> Tabled(exec.steps, "step_started", "step_finished")
          /\ Tabled(exec.ops, "operation_started", "operation_finished")'
               <=> Tabled(exec.ops, "operation_started", "operation_finished")
      BY <1>1, <2>1, <2>2 DEF Tabled
    <3> QED BY <1>1, <2>1, <3>1, <3>2, <3>3 DEF ExecDescribed
  <2>4. TicketDescribed' <=> TicketDescribed
    <3>1. \A types : LastBefore(EndOf, types)' = LastBefore(EndOf, types)
                     /\ (NoneBefore(EndOf, types)' <=> NoneBefore(EndOf, types))
      BY <2>1 DEF LastBefore, NoneBefore
    <3>2. \A x : (StateBefore(EndOf, x)' <=> StateBefore(EndOf, x)) /\ (PhaseBefore(EndOf, x)' <=> PhaseBefore(EndOf, x))
      BY <1>1, <3>1 DEF StateBefore, PhaseBefore, BirthState
    <3> QED BY <1>1, <3>2 DEF TicketDescribed
  <2>5. AgentsDescribed' <=> AgentsDescribed
    <3>1. OpenAgents(EndOf)' = OpenAgents(EndOf)
      BY <1>1, <2>1, <2>2 DEF OpenAgents
    <3>2. \A i : Nth(i)' = Nth(i)
      BY <2>1 DEF Nth
    <3> QED BY <1>1, <2>1, <2>2, <3>1, <3>2 DEF AgentsDescribed
  <2>6. BindDescribed' <=> BindDescribed
    <3>1. \A x : OpenNow(x)' <=> OpenNow(x)
      BY <1>1, <2>1, <2>2 DEF OpenNow
    <3>2. ClosedNow' <=> ClosedNow
      BY <2>1 DEF ClosedNow
    <3> QED BY <1>1, <2>1, <3>1, <3>2 DEF BindDescribed
  <2>7. HashDescribed' <=> HashDescribed
    <3>1. LastBefore(EndOf, {"metadata_updated"})' = LastBefore(EndOf, {"metadata_updated"})
      BY <2>1 DEF LastBefore
    <3> QED BY <1>1, <2>1, <3>1 DEF HashDescribed
  <2> QED BY <1>1, <2>3, <2>4, <2>5, <2>6, <2>7 DEF Described
<1>4. ExecutionReplayed' /\ MetadataReplayed'
  BY <1>1, ChainSame DEF ReplayInv, ExecutionReplayed, MetadataReplayed
<1>5. SoundSoFar' <=> SoundSoFar
  BY <1>1, ChainSame
<1> QED BY <1>1, <1>2, <1>3, <1>4, <1>5 DEF ReplayInv

(* The mirrors of pack_verify.py see one event at a time; the rules they    *)
(* stand for are about whole chains.  For chains of any length and for any  *)
(* metadata, the mirror of the execution finds a problem exactly in a chain *)
(* that has one, and the verdict on the ticket's state, its agents and its  *)
(* execution root is the one the whole chain and the metadata deserve.      *)
THEOREM ReplayIsFaithful == ReplaySpec => []ReplayFaithful
<1>1. ReplayInit => ReplayInv
  BY EmptyChain
<1>2. ReplayInv /\ [ReplayNext]_replayVars => ReplayInv'
  <2>1. ASSUME ReplayInv, FinishReplay PROVE ReplayInv'
    BY <2>1, FinishKeeps
  <2>2. ASSUME ReplayInv, NEW e \in Alphabet[mode], Consume(e) PROVE ReplayInv'
    BY <2>2, ConsumeKeeps
  <2>3. ASSUME ReplayInv, UNCHANGED replayVars PROVE ReplayInv'
    BY <2>3, StutterKeeps
  <2> QED BY <2>1, <2>2, <2>3 DEF ReplayNext
<1>3. ReplayInv => ReplayFaithful
  BY DEF ReplayInv, ReplayFaithful
<1> QED BY <1>1, <1>2, <1>3, PTL DEF ReplaySpec

=============================================================================
