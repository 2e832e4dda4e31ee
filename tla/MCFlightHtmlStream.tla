------------------------- MODULE MCFlightHtmlStream -------------------------
(***************************************************************************)
(* Documents for TLC: the closing tags across batches and missing, pieces  *)
(* of them in the text, and batches of several bytes.  The model splits    *)
(* every batch into chunks in all ways.                                    *)
(***************************************************************************)
EXTENDS FlightHtmlStream

Document(bytes, batches) ==
  [i \in DOMAIN bytes |-> [byte |-> bytes[i], batch |-> batches[i]]]

SplitTrailer ==
  Document(<<"text", "text", "open", "body", "open", "html">>, <<1, 1, 1, 2, 2, 2>>)
FalseTrailer ==
  Document(<<"text", "open", "body", "open", "body", "open", "text">>, <<1, 1, 1, 1, 2, 2, 2>>)
EarlyTrailer ==
  Document(<<"open", "body", "open", "html", "text">>, <<1, 1, 1, 1, 2>>)
OpenTrailer ==
  Document(<<"text", "text", "open", "text", "open">>, <<1, 2, 2, 2, 3>>)

MCDocuments == {SplitTrailer, FalseTrailer, EarlyTrailer, OpenTrailer}
=============================================================================
