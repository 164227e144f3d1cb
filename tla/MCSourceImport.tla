---------------------------- MODULE MCSourceImport ----------------------------
(* SourceImport for TLC: two web processes and the files that tell the rules apart. *)
EXTENDS SourceImport, TLC

CONSTANTS links, crawl, formulas, big, empty

MCPayload == {links, crawl, formulas, big, empty}

Unread == [sound |-> FALSE, rows |-> 0, columns |-> 0, cells |-> {}, headers |-> <<>>]
Table(headers, cells) ==
    [sound |-> TRUE, rows |-> 2, columns |-> Len(headers), cells |-> cells, headers |-> headers]
Only(reader, table) == [q \in Reader |-> IF q = reader THEN table ELSE Unread]
File(size, xml, tables) ==
    [size |-> size, utf8 |-> TRUE, nul |-> FALSE, looksXml |-> xml, tables |-> tables]

\* A table of links, a crawl that is XML under whatever suffix, a table with a formula, a
\* table over the size limit that begins like the first one, and nothing.
MCContent == (links :> File(1, FALSE, Only("csv", Table(<<"url", "clicks">>, {"number"}))))
          @@ (crawl :> File(1, TRUE, Only("xml", Table(<<"url", "status">>, {"dash"}))))
          @@ (formulas :> File(1, FALSE, Only("csv", Table(<<"url">>, {"formula"}))))
          @@ (big :> File(2, FALSE, Only("csv", Table(<<"url", "clicks">>, {"number"}))))
          @@ (empty :> File(0, FALSE, Only("csv", Unread)))

MCPrefix == big :> links

MCOffers == { <<"ahrefs", ".csv", links>>, <<"ahrefs", ".txt", links>>,
              <<"mapped_csv_xlsx", ".csv", links>>,
              <<"crawl_data_file", ".cdx", crawl>>, <<"crawl_data_file", ".xml", crawl>>,
              <<"ahrefs", ".csv", formulas>>, <<"ahrefs", ".csv", big>>,
              <<"ahrefs", ".csv", empty>> }
=============================================================================
