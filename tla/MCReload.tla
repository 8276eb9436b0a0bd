------------------------------ MODULE MCReload ------------------------------
(* A small instance of Reload for TLC.  Two articles behind whose addresses *)
(* there is an ordinary page are reloaded and written by everybody; each    *)
(* other kind of page is behind an article that is all there is: every      *)
(* kind of file name against every kind of title in the metadata, first     *)
(* pages whose headings are one block, several, nearly as large, too short, *)
(* not printable or missing.                                                *)
EXTENDS Reload, TLC

Changed(table) == [n \in Names |-> IF n \in DOMAIN table THEN table[n] ELSE n]

MCNames == {"2310.11703v2.pdf", "2310.11703v2", "2310", "paper.pdf", "Paper.PDF", "Paper",
            "paper", "A Survey", "a survey", ".pdf", "", " ", "site.com", "site", "long"}

MCLower == Changed("Paper.PDF" :> "paper.pdf" @@ "Paper" :> "paper" @@ "A Survey" :> "a survey")

Extensions == "2310.11703v2.pdf" :> "2310.11703v2" @@ "2310.11703v2" :> "2310"
              @@ "paper.pdf" :> "paper" @@ "Paper.PDF" :> "Paper" @@ "site.com" :> "site"

MCBeforeDot == Changed(Extensions @@ ".pdf" :> "")
MCStem == Changed(Extensions)

MCChars ==
    [n \in Names |-> CASE n \in {"", " "} -> 0 [] n = "long" -> 50 [] n = "2310" -> 4
                       [] OTHER -> 8]

Block(sizes, chars, spaces, odd) ==
    [sizes |-> sizes, chars |-> chars, spaces |-> spaces, odd |-> odd]

Heading == Block({240}, 12, 2, 0)
NearlyAsLarge == Block({100, 239}, 9, 1, 0)
Body == Block({200}, 40, 7, 0)
Short == Block({260}, 3, 0, 0)
Foreign == Block({240}, 12, 0, 9)
Blank == Block({400}, 0, 0, 0)
Unsized == Block({0}, 15, 1, 0)

FirstPages == {None, <<>>, <<Heading>>, <<Body, Heading>>, <<NearlyAsLarge, Body, Heading>>,
               <<Body, Short>>, <<Short, Heading>>, <<Blank, Heading>>, <<Foreign>>,
               <<Unsized>>, <<Unsized, Body>>}

Urls == [file : {None, "2310.11703v2.pdf", "paper.pdf", "Paper.PDF", "paper", ".pdf"},
         host : {"site.com"}]

Pdfs == [parses : {TRUE}, meta : {None, " ", "2310.11703v2", "2310.11703v2.pdf", "paper",
                                "Paper.PDF", "A Survey", "long"},
         first : FirstPages, pages : {None, <<500, None, 1>>, <<900, 200>>}]
        \cup [parses : {FALSE}, meta : {None}, first : {None}, pages : {None}]

Htmls == [readable : BOOLEAN, title : {" ", "A Survey", "long"}, words : {0, 700, 1001}]

PdfFile == [url |-> [file |-> "paper.pdf", host |-> "site.com"], header |-> "application/pdf",
            pdf |-> [parses |-> TRUE, meta |-> "paper", first |-> <<Body, Heading>>,
                     pages |-> <<900, 200>>]]

MCPages ==
    [url : Urls, header : {"application/pdf"}, pdf : Pdfs]
    \cup [url : {PdfFile.url}, header : {"application/pdf; qs=0.01"}, pdf : {PdfFile.pdf}]
    \cup [url : Urls, header : {"text/html; charset=utf-8"}, html : Htmls]
    \cup [url : Urls, header : {"image/png", "Text/HTML"}]

\* What is behind the addresses while everybody runs.
Ordinary == [a \in Articles |-> PdfFile]

MCWebs == {Ordinary} \cup {[a \in Articles |-> p] : p \in MCPages}

\* Bound: another page is met by one run, or one request, alone.
Bounded ==
    \/ web = Ordinary
    \/ /\ Cardinality({p \in Requests \cup Reloads : pc[p] # "idle"}) <= 1
       /\ Cardinality({a \in Articles : rows[a] # None}) <= 1

Symmetry == Permutations(Users) \cup Permutations(Requests)
            \cup Permutations(Reloads) \cup Permutations(Articles)
=============================================================================
