------------------------------- MODULE Reading --------------------------------
(***************************************************************************)
(* What the worker makes of one e-mail: ingestMessage (packages/ingest)    *)
(* and detect (packages/core-invoice).  Nothing here has a state.          *)
(*                                                                         *)
(* A text is what the code looks for in it.  An address is the parts of    *)
(* its local part between plus signs, a guideline URN the markers it       *)
(* contains (en16931 is one it begins with) and its last segment, an XML   *)
(* file its root, its namespace, its URN and how its markup ends, a PDF    *)
(* the streams in it, and an Authentication-Results header the results it  *)
(* names, in their order.                                                  *)
(***************************************************************************)
EXTENDS Naturals, Sequences, FiniteSets, SequencesExt

CONSTANT None

Marks == {"zugferd", "cius", "kosit", "peppol", "en16931"}
Codes == {"foreign_format", "unknown", "zugferd_v1", "unknown_root", "missing_profile",
          "not_xml", "no_payload"}
Lengths == {"size", "other"}

\* What is missing is none of the answers.
ASSUME MissingAssumption == None \notin Marks \cup Codes \cup Lengths

\* The elements of a sequence at these of its indices, in their order.  With
\* the indices in a set, what it picks can be proved; of SelectSeq nothing can.
Picked(seq, indices) ==
    [k \in 1..Cardinality(indices) |->
        seq[CHOOSE i \in indices : Cardinality({j \in indices : j <= i}) = k]]

-----------------------------------------------------------------------------
(* Where a message goes.                                                   *)

\* The slug of a local part that ends in a suffix of eight hex digits.  Of a
\* plus address, everything behind the first plus counts.
ParseInboxAddress(a) ==
    LET local == IF Len(a.parts) > 1 THEN Tail(a.parts) ELSE a.parts
    IN  IF Len(local) = 1 /\ a.domain /\ local[1].suffix = "hex"
        THEN local[1].slug ELSE None

\* The envelope recipient, or else what the provider found behind the plus.
Route(message) ==
    IF ParseInboxAddress(message.to) # None
    THEN ParseInboxAddress(message.to)
    ELSE ParseInboxAddress([parts |-> message.mailboxHash, domain |-> TRUE])

-----------------------------------------------------------------------------
(* Who sent it.                                                            *)

Verdicts == {"pass", "fail", "softfail", "neutral", "none", "unknown"}

ToVerdict(raw) == IF raw \in Verdicts THEN raw ELSE "unknown"

\* The first result of each method.
ParseAuthenticationResults(header) ==
    [method \in {"spf", "dkim", "dmarc"} |->
        LET said == {i \in DOMAIN header : header[i].method = method}
        IN  IF said = {} THEN "unknown" ELSE ToVerdict(header[Min(said)].result)]

HasAuthFailure(auth) ==
    \/ auth.dmarc = "fail" \/ auth.dkim = "fail"
    \/ auth.spf \in {"fail", "softfail"}

IsUnauthenticated(auth) == "pass" \notin {auth.dmarc, auth.spf, auth.dkim}

-----------------------------------------------------------------------------
(* What an XML file is.                                                    *)

\* The first marker of an order that a URN has.
FirstMark(order, urn) ==
    LET found == {i \in DOMAIN order : order[i] \in urn.marks}
    IN  IF found = {} THEN None ELSE order[Min(found)]

Previews == {"minimum", "basicwl"}
FullLevels == {"basic", "extended", "comfort", "en16931"}

\* A ZUGFeRD document counts by its level; XRechnung, Peppol and plain
\* EN 16931 are invoices, and what nobody recognises is none.
ClassifyProfile(urn) ==
    LET mark == FirstMark(<<"zugferd", "cius", "peppol", "en16931">>, urn)
    IN  [urn |-> urn, family |-> mark,
         legalClass |-> IF mark = None \/ (mark = "zugferd"
                                           /\ urn.level \notin FullLevels)
                        THEN "not_einvoice" ELSE "einvoice"]

ResolveFormat(syntax, urn) ==
    LET mark == FirstMark(<<"kosit", "peppol", "zugferd", "en16931">>, urn)
    IN  CASE mark = "kosit"   -> <<"xrechnung", syntax>>
          [] mark = "peppol"  -> <<"peppol_bis">>
          [] mark = "zugferd" -> <<"zugferd">>
          [] mark = "en16931" -> IF syntax = "cii" THEN <<"zugferd">>
                                                   ELSE <<"en16931", "ubl">>
          [] OTHER            -> <<"other">>

Refusal(code) == [error |-> code, format |-> None, profile |-> None]

\* UBL by its root and namespace, where no namespace passes for UBL's, or CII
\* by its root; ZUGFeRD 1.0 in either shape is neither.
SyntaxOf(x) ==
    CASE x.root = "CrossIndustryDocument" \/ x.namespace = "zugferd_v1" -> "zugferd_v1"
      [] x.root \in {"Invoice", "CreditNote"}
           /\ x.namespace \in {"absent", "ubl"}                         -> "ubl"
      [] x.root = "CrossIndustryInvoice" /\ x.namespace # "zugferd_v1"  -> "cii"
      [] OTHER                                                          -> "unknown_root"

\* The parser reads the whole text before anything is asked of it, but the
\* root is looked at first.  It does not validate: it gives up at a tag, a
\* comment or an invoice line that does not end, and takes a text whose other
\* elements are still open for what it has read of it.
Detect(x) ==
    IF x.root = "FatturaElettronica" THEN Refusal("foreign_format")
    ELSE IF x.markup = "broken" THEN Refusal("unknown")
    ELSE IF SyntaxOf(x) \in {"zugferd_v1", "unknown_root"} THEN Refusal(SyntaxOf(x))
    ELSE IF x.urn = None THEN Refusal("missing_profile")
    ELSE [error |-> None, format |-> ResolveFormat(SyntaxOf(x), x.urn),
          profile |-> ClassifyProfile(x.urn)]

\* What is not XML is refused at its first character.
DetectBytes(b) == IF b.xml = None THEN Refusal("not_xml") ELSE Detect(b.xml)

Detectable(b) == DetectBytes(b).error = None

-----------------------------------------------------------------------------
(* What a PDF carries.                                                     *)

IsEmbeddedFileDict(s) == s.dict \in {"EmbeddedFile", "text/xml"}

\* /Length 6526, or /Length 200 0 R, which names another object; or nothing,
\* or what is not the length of this stream.
ResolveNumber(s) ==
    CASE s.length \in {"direct", "reference"} -> "size"
      [] s.length = "wrong"                  -> "other"
      [] OTHER                               -> None

\* A file that was cut off: in its markup, or in a text before its URN or
\* behind it.  What was broken already was so before that place.
Part(b, place) ==
    [whole |-> FALSE,
     xml |-> IF b.xml = None THEN None
             ELSE [b.xml EXCEPT
                      !.markup = IF @ = "broken" \/ place = "markup" THEN "broken"
                                 ELSE "open",
                      !.urn = IF place = "before" THEN None ELSE @]]

\* Variant: the declared length is believed.
StreamBytesDeclared(s) ==
    CASE ResolveNumber(s) = "size"  -> s.holds
      [] ResolveNumber(s) = "other" -> Part(s.holds, "behind")
      [] OTHER                      -> IF s.ended THEN s.holds ELSE None

\* The declared length is believed where `endstream` follows.  Otherwise the
\* first `endstream` decides, which may be one in the file: s.keyword is where.
StreamBytes(s) ==
    CASE ResolveNumber(s) = "size" /\ s.ended -> s.holds
      [] OTHER -> IF s.keyword # "absent" THEN Part(s.holds, s.keyword)
                  ELSE IF s.ended THEN s.holds ELSE None

\* Two spellings of deflate are tried, and neither decodes a part.
DecodeStream(s) ==
    LET raw == StreamBytes(s)
    IN  IF s.filter = "absent" \/ raw = None THEN raw
        ELSE IF s.filter \in {"zlib", "deflate"} /\ raw.whole THEN raw ELSE None

\* The name of the filespec that points at the stream, unless the filespec
\* is compressed and cannot be seen.
FilespecName(s) == IF s.filespec = "hidden" THEN "embedded-1.xml" ELSE s.filename

IsKnownInvoiceName(name) == name \in {"factur-x.xml", "ZUGFeRD-invoice.xml"}

\* The files that can be read, in the order of their objects.
ExtractEmbeddedFiles(pdf) ==
    LET readable(s) == IsEmbeddedFileDict(s) /\ DecodeStream(s) # None
        file(s) == [filename |-> FilespecName(s), bytes |-> DecodeStream(s)]
        found == Picked(pdf.streams, {i \in DOMAIN pdf.streams : readable(pdf.streams[i])})
    IN  IF pdf.encrypted THEN <<>> ELSE [i \in DOMAIN found |-> file(found[i])]

\* Known names win; otherwise whatever looks like XML.
SelectInvoiceCandidates(files) ==
    LET known == {i \in DOMAIN files : IsKnownInvoiceName(files[i].filename)}
        xml == {i \in DOMAIN files : files[i].bytes.xml # None}
    IN  Picked(files, IF known # {} THEN known ELSE xml)

\* A candidate the detector recognises goes before the first one.
PayloadFromPdf(pdf) ==
    LET candidates == SelectInvoiceCandidates(ExtractEmbeddedFiles(pdf))
        good == {i \in DOMAIN candidates : Detectable(candidates[i].bytes)}
    IN  CASE candidates = <<>> -> None
          [] good # {}         -> candidates[Min(good)].bytes
          [] OTHER             -> candidates[1].bytes

-----------------------------------------------------------------------------
(* The whole message.                                                      *)

\* Sniffed from the first bytes; the name and the claimed type say nothing.
Kept(a) == a.size = "fits" /\ a.kind \in {"pdf", "xml"}

PayloadOf(a) == IF a.kind = "pdf" THEN PayloadFromPdf(a.pdf) ELSE a.bytes

BuildDocument(a) ==
    [sha256 |-> a.sha256,
     detection |-> IF PayloadOf(a) = None THEN Refusal("no_payload")
                   ELSE DetectBytes(PayloadOf(a))]

\* The same file attached twice is one document.
KeptOnce(attachments) ==
    Picked(attachments, {i \in DOMAIN attachments :
        /\ Kept(attachments[i])
        /\ \A j \in 1..(i - 1) : attachments[j] # attachments[i]})

WarningsOf(message, documents) ==
    LET auth == ParseAuthenticationResults(message.header)
        warns(code, holds) == IF holds THEN {code} ELSE {}
    IN  warns("unroutable_recipient", Route(message) = None)
        \cup warns("sender_auth_failed", HasAuthFailure(auth))
        \cup warns("sender_auth_missing",
                   ~ HasAuthFailure(auth) /\ IsUnauthenticated(auth))
        \cup warns("attachment_too_large",
                   \E a \in ToSet(message.attachments) : a.size = "large")
        \cup warns("pdf_extraction_failed",
                   \E a \in ToSet(KeptOnce(message.attachments)) :
                       a.kind = "pdf" /\ PayloadOf(a) = None)
        \cup warns("no_einvoice_found",
                   \A i \in DOMAIN documents : documents[i].detection.error # None)

IngestMessage(message) ==
    LET kept == KeptOnce(message.attachments)
        documents == [i \in DOMAIN kept |-> BuildDocument(kept[i])]
    IN  [inboxSlug |-> Route(message), documents |-> documents,
         warnings |-> WarningsOf(message, documents)]

=============================================================================
