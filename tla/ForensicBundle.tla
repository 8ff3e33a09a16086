--------------------------- MODULE ForensicBundle ---------------------------
(* The forensic bundle of a case: which files it holds, the chain of hashes  *)
(* over them, the manifest, the signature of the root hash, and the verifier *)
(* that reads the archive back.  A hash is modelled as a term that no other  *)
(* argument yields; the bytes of a file as the value it is made from.        *)
(* Sizes and the ratio of compression are left out, the limit on the number  *)
(* of files is not.                                                          *)
EXTENDS CaseAnalysis

CONSTANT VerifyMaxFiles  \* _VERIFY_MAX_FILES, 128 in the code

(* The verifier takes at least the files of a bundle with one piece of raw   *)
(* evidence, and its manifest.                                               *)
ASSUME ForensicBundleAssumption == VerifyMaxFiles \in Nat /\ VerifyMaxFiles > 12

Sha(data) == <<"sha", data>>
File(path, data) == [path |-> path, data |-> <<data>>]
Truncated == <<>>  \* the bytes of a file that was cut off

(* ---- the files ----------------------------------------------------------- *)
(* The edition presented to whoever receives the bundle, and as what.        *)
InvestigationSummaryPayload(card) ==
  LET approved == {i \in DOMAIN card.editions : card.editions[i].approved}
      open     == IF approved = {} THEN DOMAIN card.editions ELSE approved
  IN [versions |-> card.editions,
      presented |-> IF open = {} THEN 0
                    ELSE card.editions[CHOOSE i \in open : \A j \in open : j <= i].version,
      state |-> IF approved # {} THEN "approved" ELSE IF open # {} THEN "draft" ELSE "absent"]

CasePayload(facts, card) ==
  [status |-> card.status, decisions |-> card.decisions, permits |-> card.permits,
   records |-> card.records, attempts |-> card.attempts,
   confidence |-> VerdictConfidence(facts, card), verdict |-> ForensicVerdict(card),
   dq |-> facts.dq, partial |-> facts.partial, hits |-> facts.hits]

(* The content is dated by the case: the number of lines of its log stands   *)
(* for the moment of the last of them.                                       *)
EvidenceMoment(card) == Len(card.audit)

(* The other reports: over all cases, and the checklist of this one; they    *)
(* are read from the store after the card.                                   *)
Reports(facts, all, c) ==
  [compliance |-> ComplianceReport(facts, all),
   readiness |-> [d \in DOMAIN all |-> MissingCodes(facts[d], all[d])],
   checklist |-> Checklist(facts[c], all[c])]

RawFiles(card, raw) ==
  [i \in DOMAIN raw |-> File(<<"raw", raw[i]>>, raw[i])]
    \o IF raw = <<>> THEN <<>> ELSE <<File(<<"evidence-index.json">>, raw)>>

EvidenceFiles(facts, card, raw, reports, supplemental) ==
  LET at == EvidenceMoment(card)
  IN <<File(<<"case.json">>, CasePayload(facts, card)), File(<<"siem.json">>, <<card.status, facts.hits>>),
       File(<<"gossopka-card.json">>, <<card.status, at>>),
       File(<<"audit.txt">>, card.audit),
       File(<<"findings.json">>, "findings"), File(<<"artifacts.json">>, "artifacts"),
       File(<<"investigation-summary.json">>, InvestigationSummaryPayload(card))>>
     \o RawFiles(card, raw)
     \o <<File(<<"compliance-data-quality-report.json">>, <<at, reports.compliance>>),
          File(<<"forensic-readiness-report.json">>, <<at, reports.readiness>>),
          File(<<"case-evidence-checklist.json">>, <<at, reports.checklist>>)>>
     \o supplemental

(* ---- the chain ----------------------------------------------------------- *)
(* Each hash covers the one before it, the path and the hash of the file.    *)
ChainHashes(files) ==
  LET chain[i \in 0..Len(files)] ==
        IF i = 0 THEN <<>> ELSE Sha(<<chain[i - 1], files[i].path, Sha(files[i].data)>>)
  IN [i \in DOMAIN files |-> chain[i]]

(* ---- the signature ------------------------------------------------------- *)
(* A signer: strict (gost_strict), what the external service answers         *)
(* ("none" when no URL is set), whether a secret is set, and whether the     *)
(* address of the external verifier is.                                      *)
BuildSignature(signer, root) ==
  LET own == IF signer.secret THEN [status |-> "hmac_sha256_mvp", of |-> root, alg |-> "HMAC"]
             ELSE [status |-> "unsigned_mvp", of |-> <<>>, alg |-> ""]
  IN IF signer.strict
     THEN IF signer.external = "gost"
          THEN [status |-> "external_gost2012_detached", of |-> root, alg |-> "GOST"]
          ELSE [status |-> "refused", of |-> <<>>, alg |-> ""]
     ELSE IF signer.external \in {"gost", "other"}
          THEN [status |-> "external_qualified_detached", of |-> root,
                alg |-> IF signer.external = "gost" THEN "GOST" ELSE ""]
          ELSE own

(* The external verifier is modelled as answering what is true.              *)
SignatureHolds(signer, status, root, signature) ==
  \/ status = "unsigned_mvp"
  \/ status = "hmac_sha256_mvp" /\ signer.secret /\ signature.of = root
  \/ status = "external_qualified_detached" /\ signer.verifier /\ signature.of = root
  \/ status = "external_gost2012_detached" /\ signer.verifier /\ signature.of = root
     /\ signature.alg = "GOST"

Suitability(status) ==
  IF status \in {"external_qualified_detached", "external_gost2012_detached"} THEN "fit"
  ELSE IF status = "hmac_sha256_mvp" THEN "conditionally" ELSE "to_be_checked"

(* ---- the archive --------------------------------------------------------- *)
BuildCaseBundle(files, signer) ==
  LET chain     == ChainHashes(files)
      root      == chain[Len(files)]
      signature == BuildSignature(signer, root)
  IN [items |-> [i \in DOMAIN files |-> [path |-> files[i].path, sha |-> Sha(files[i].data),
                                         chain |-> chain[i]]],
      root |-> root, status |-> signature.status, suitability |-> Suitability(signature.status),
      files |-> files, signature |-> signature]

Entries(archive) == Len(archive.files) + 1 + (IF archive.status = "unsigned_mvp" THEN 0 ELSE 1)

(* zf.read(path): the last entry of that name.                               *)
DataAt(archive, path) ==
  LET named == {i \in DOMAIN archive.files : archive.files[i].path = path}
  IN archive.files[CHOOSE i \in named : \A j \in named : j <= i].data

Present(archive, path) == \E i \in DOMAIN archive.files : archive.files[i].path = path

(* Mutated form: the items are compared with their own hashes and sizes, but *)
(* not with the chain, and the root is believed.                             *)
VerifyUnchained(signer, archive) ==
  /\ Entries(archive) <= VerifyMaxFiles
  /\ \A i \in DOMAIN archive.items : Present(archive, archive.items[i].path)
       /\ Sha(DataAt(archive, archive.items[i].path)) = archive.items[i].sha
  /\ SignatureHolds(signer, archive.status, archive.root, archive.signature)

(* No issue: nothing is missing, every hash is the stored one, the chain     *)
(* leads to the root, and the signature holds.                               *)
VerifyBundle(signer, archive) ==
  LET items == archive.items
      found == ChainHashes([i \in DOMAIN items |-> [path |-> items[i].path,
                                                    data |-> DataAt(archive, items[i].path)]])
  IN /\ Entries(archive) <= VerifyMaxFiles
     /\ \A i \in DOMAIN items : Present(archive, items[i].path)
     /\ \A i \in DOMAIN items : Sha(DataAt(archive, items[i].path)) = items[i].sha
     /\ \A i \in DOMAIN items : found[i] = items[i].chain
     /\ archive.root = found[Len(items)]
     /\ SignatureHolds(signer, archive.status, archive.root, archive.signature)

(* What may happen to an archive on its way: a file is lost, changed, or     *)
(* changed together with its own hash in the manifest.                       *)
Without(archive, i) ==
  [archive EXCEPT !.files = SubSeq(@, 1, i - 1) \o SubSeq(@, i + 1, Len(@))]

Changed(archive, i) == [archive EXCEPT !.files[i].data = Truncated]

Rehashed(archive, i) ==
  [archive EXCEPT !.files[i].data = Truncated, !.items[i].sha = Sha(Truncated)]

(* An archive as the product builds it is accepted, and none is in which a   *)
(* file is missing, or cut off, with its hash in the manifest or without.    *)
Accountable(archive, signer) ==
  /\ VerifyBundle(signer, archive)
  /\ \A i \in DOMAIN archive.files :
       /\ ~VerifyBundle(signer, Without(archive, i))
       /\ ~VerifyBundle(signer, Changed(archive, i))
       /\ ~VerifyBundle(signer, Rehashed(archive, i))

(* What a signer has signed holds for him, for this root and no other, as    *)
(* long as the address of the external verifier is known; strict signing is  *)
(* never done by a secret; and a bundle is fit for procedural actions only   *)
(* with a signature from outside.                                            *)
SignatureBinds(signer, root) ==
  LET signature == BuildSignature(signer, root)
      outside   == signature.status \in {"external_qualified_detached", "external_gost2012_detached"}
  IN /\ signature.status # "refused" /\ (outside => signer.verifier)
          => SignatureHolds(signer, signature.status, root, signature)
     /\ signature.status # "unsigned_mvp"
          => ~SignatureHolds(signer, signature.status, Sha(<<root, root>>), signature)
     /\ signer.strict => signature.status \in {"refused", "external_gost2012_detached"}
     /\ Suitability(signature.status) = "fit" <=> outside
=============================================================================
