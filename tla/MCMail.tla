-------------------------------- MODULE MCMail --------------------------------
(***************************************************************************)
(* Scenarios, each a set of initial states: one message of every sort,     *)
(* delivered once, and plain messages that are delivered again and again.  *)
(***************************************************************************)
EXTENDS Mail, TLC

CONSTANTS m1, m2, d1, d2, q1, q2

Urn(marks, level) == [marks |-> marks, level |-> level]

Urns ==
    {Urn({"zugferd"}, l) : l \in Previews \cup FullLevels \cup {"xyz"}}
    \cup {Urn({"zugferd", "en16931"}, l) : l \in {"minimum", "extended"}}
    \cup {Urn(marks, "other") : marks \in
             {{}, {"en16931"}, {"peppol"}, {"peppol", "en16931"},
              {"kosit", "cius"}, {"kosit", "cius", "en16931"}, {"kosit"},
              {"zugferd", "kosit", "cius"}}}

Xml(root, namespace, urn) ==
    [markup |-> "whole", root |-> root, namespace |-> namespace, urn |-> urn]

Xmls ==
    [markup : {"whole", "open", "broken"},
     root : {"Invoice", "CreditNote", "CrossIndustryInvoice",
             "CrossIndustryDocument", "FatturaElettronica", "Catalogue"},
     namespace : {"absent", "ubl", "cii", "zugferd_v1", "other"},
     urn : Urns \cup {None}]

Bytes(x) == [whole |-> TRUE, xml |-> x]

Full == Xml("CrossIndustryInvoice", "cii", Urn({"zugferd", "en16931"}, "extended"))
Preview == Xml("CrossIndustryInvoice", "cii", Urn({"zugferd"}, "minimum"))
Old == Xml("CrossIndustryDocument", "zugferd_v1", None)

File(digest, kind, size, bytes, pdf) ==
    [sha256 |-> digest, kind |-> kind, size |-> size, bytes |-> bytes, pdf |-> pdf]

XmlFile(digest, x) == File(digest, "xml", "fits", Bytes(x), None)
PdfFile(digest, encrypted, streams) ==
    File(digest, "pdf", "fits", None, [encrypted |-> encrypted, streams |-> streams])

Streams ==
    [dict : {"EmbeddedFile", "text/xml", "font"},
     length : {"direct", "reference", "wrong", "absent"},
     filter : {"absent", "zlib", "deflate", "lzw"},
     ended : BOOLEAN, keyword : {"absent", "markup", "before", "behind"},
     filespec : {"seen", "hidden"},
     filename : {"factur-x.xml", "terms.xml"},
     holds : {Bytes(Full), Bytes(Preview), Bytes(Old), Bytes(None)}]

\* Beside the first file, a second one.
Stream(filename, x) ==
    [dict |-> "EmbeddedFile", length |-> "reference", filter |-> "zlib",
     ended |-> TRUE, keyword |-> "absent", filespec |-> "seen",
     filename |-> filename, holds |-> Bytes(x)]

Several ==
    {<<Stream(f, x), Stream(g, y)>> :
        f \in {"factur-x.xml", "terms.xml"}, g \in {"factur-x.xml", "terms.xml"},
        x \in {Full, Preview, Old, None}, y \in {Full, None}}

Inbox(slug, suffix) == [slug |-> slug, suffix |-> suffix]
Address(parts, domain) == [parts |-> parts, domain |-> domain]

Doener == Inbox("doener", "hex")
Plain == Address(<<Doener>>, TRUE)

Message(id, attachments) ==
    [provider |-> "postmark", id |-> id, to |-> Plain, mailboxHash |-> <<>>,
     header |-> <<[method |-> "dmarc", result |-> "pass"]>>,
     attachments |-> attachments, genuine |-> TRUE, readable |-> TRUE]

Addresses ==
    {Address(<<Doener>>, FALSE), Address(<<Inbox("inbound", "none"), Doener>>, TRUE),
     Address(<<Doener, Inbox("tag", "none")>>, TRUE),
     Address(<<Inbox("doener", "none")>>, TRUE), Address(<<>>, FALSE)}

Results == [method : {"spf", "dkim", "dmarc"}, result : {"pass", "softfail", "permerror"}]

Sorts ==
    {<<XmlFile(d1, x)>> : x \in Xmls}
    \cup {<<PdfFile(d1, FALSE, <<s>>)>> : s \in Streams}
    \cup {<<PdfFile(d1, FALSE, s)>> : s \in Several}
    \cup {<<PdfFile(d1, TRUE, <<Stream("factur-x.xml", Full)>>)>>,
          <<XmlFile(d1, Full), XmlFile(d1, Full), XmlFile(d2, Preview)>>,
          <<File(d1, "xml", "large", Bytes(Full), None), XmlFile(d2, Full)>>,
          <<File(d1, "xml", "empty", Bytes(None), None)>>,
          <<File(d1, "neither", "fits", Bytes(None), None)>>, <<>>}

OneOfEverySort ==
    /\ \E m \in {Message(None, s) : s \in Sorts}
             \cup {[Message(None, <<XmlFile(d1, Full)>>) EXCEPT !.header = <<r, s>>] :
                      r \in Results, s \in Results}
             \cup {[Message(None, <<XmlFile(d1, Full)>>)
                       EXCEPT !.to = a, !.mailboxHash = h] :
                      a \in Addresses, h \in {<<>>, <<Doener>>, <<Inbox("tag", "none")>>}} :
          mail = m1 :> m @@ m2 :> [m EXCEPT !.readable = FALSE]
    /\ backend = "s3"
    /\ now = MaxNow /\ deliveries = MaxDeliveries - 1 /\ failures = MaxFailures

\* Mailgun posts one message again and again, with old and new signatures,
\* and another that is forged or cannot be read.
Signed ==
    /\ \E id \in {<<"id1">>, None}, odd \in {"forged", "unreadable"} :
          LET m == [Message(id, <<XmlFile(d1, Full)>>) EXCEPT !.provider = "mailgun"]
          IN  mail = (m1 :> m @@ m2 :> [m EXCEPT !.genuine = odd # "forged",
                                                 !.readable = odd # "unreadable"])
    /\ backend = "s3"
    /\ now = 0 /\ deliveries = 0 /\ failures = MaxFailures

\* Two messages with one file in common, and sometimes one id.
TwoAtATime ==
    /\ \E ids \in {<<<<"id1">>, <<"id2">>>>, <<<<"id1">>, <<"id1">>>>, <<None, None>>} :
          mail = (m1 :> Message(ids[1], <<XmlFile(d1, Full)>>)
               @@ m2 :> Message(ids[2], <<XmlFile(d1, Full), XmlFile(d2, Preview)>>))
    /\ now = MaxNow /\ deliveries = 0 /\ failures = 0

MCInit == (OneOfEverySort \/ Signed \/ TwoAtATime) /\ Init

MCSpec == MCInit /\ [][Next]_vars

=============================================================================
