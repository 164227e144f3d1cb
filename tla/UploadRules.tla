------------------------------ MODULE UploadRules ------------------------------
(***************************************************************************)
(* What integrations/uploads.py and the schema rules of                    *)
(* integrations/import_service.py accept: a payload, uploaded for a source *)
(* under a file name with a suffix.                                        *)
(*                                                                         *)
(* A payload is known by its size, its encoding and by the table each      *)
(* reader finds in it: the same bytes may be read as text or as XML.       *)
(***************************************************************************)
EXTENDS Naturals, Sequences, Functions

CONSTANTS
    Payload,    \* the contents of files; a payload stands for its SHA-256 too
    Content,    \* [Payload -> what is in it]
    MaxBytes,   \* ImportLimits
    MaxRows,
    MaxColumns

Reader == {"csv", "xlsx", "xml", "text"}
Source == {"ahrefs", "screaming_frog", "brightlocal_gbp", "mapped_csv_xlsx", "crawl_data_file"}
Suffix == {".csv", ".xlsx", ".cdx", ".cdd", ".xml", ".txt"}

Suffixes(source) ==
    IF source = "crawl_data_file" THEN {".cdx", ".cdd", ".xml"} ELSE {".csv", ".xlsx"}

\* A header that identifies the rows; a mapped table needs none.
Identifiers(source) ==
    CASE source = "mapped_csv_xlsx" -> {}
      [] source = "brightlocal_gbp" -> {"keyword", "address"}
      [] source = "ahrefs" -> {"url", "backlink url"}
      [] OTHER -> {"url", "address"}

SchemaFits(source, table) ==
    Identifiers(source) # {} => Identifiers(source) \cap Range(table.headers) # {}

HeadersFit(headers) ==
    /\ Len(headers) \in 1 .. MaxColumns
    /\ Range(headers) \cap {"", "formula"} = {}
    /\ IsInjective(headers)

\* A lone dash is a formula to the table readers and a missing value to the crawl readers;
\* the crawl readers alone refuse control characters.
CellsFit(reader, cells) ==
    LET refused == IF reader \in {"csv", "xlsx"} THEN {"formula", "dash", "long", "nul"}
                   ELSE {"formula", "control", "long", "nul"}
    IN cells \cap refused = {}

\* Crawl text needs a record next to its header.
RowsFit(reader, rows) == rows \in (IF reader = "text" THEN 2 ELSE 1) .. MaxRows

\* `sound` is false where the reader finds no structure it may open: a bad archive or
\* relationship, a DTD or an entity, too deep or too many elements, broken quoting.
TableFits(reader, table) ==
    /\ table.sound
    /\ RowsFit(reader, table.rows)
    /\ table.columns <= MaxColumns
    /\ CellsFit(reader, table.cells)
    /\ HeadersFit(table.headers)

\* XML is recognised by its suffix or by its first characters.
ReaderOf(suffix, x) ==
    CASE suffix = ".csv" -> "csv"
      [] suffix = ".xlsx" -> "xlsx"
      [] suffix = ".xml" \/ Content[x].looksXml -> "xml"
      [] OTHER -> "text"

EncodingFits(reader, x) == reader = "xlsx" \/ (Content[x].utf8 /\ ~Content[x].nul)

SizeFits(x) == Content[x].size \in 1 .. MaxBytes

Passes(source, suffix, x) ==
    LET reader == ReaderOf(suffix, x)
        table == Content[x].tables[reader]
    IN /\ SizeFits(x)
       /\ suffix \in Suffixes(source)
       /\ EncodingFits(reader, x)
       /\ TableFits(reader, table)
       /\ SchemaFits(source, table)
=============================================================================
