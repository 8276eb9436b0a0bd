------------------------------ MODULE Scraper ------------------------------
(***************************************************************************)
(* The scrape of one page (article_scraper): the request, the type of the  *)
(* answer, and what HtmlExtractor or PdfExtractor make of its body.  Its   *)
(* callers differ: whoever adds an article takes extract_or_fallback,      *)
(* articlerctl reload takes extract and skips what fails (module Reload).  *)
(*                                                                         *)
(* A page is what an address leads to: the address, the header of the      *)
(* answer and its body.  Names of files, hosts and titles in metadata are  *)
(* values of Names; what the code does to their characters is given by     *)
(* functions on Names.  Text in a page is given by the numbers the code    *)
(* computes from it.                                                       *)
(***************************************************************************)
EXTENDS Integers, FiniteSets, SequencesExt

CONSTANTS
    Names,          \* strings that name something
    Lower,          \* to_lowercase, a function on Names
    BeforeDot,      \* what precedes the last '.', or the whole
    Stem,           \* Path::file_stem
    Chars,          \* [Names -> Nat]: characters left by trim()
    MaxLength,      \* Title::MAX_LENGTH, 1024 characters
    MaxWords,       \* i32::MAX
    None

Errors == {"HttpRequest", "MimeTypeNotSupported", "HttpResponseParsing",
           "ReadabilityParse", "WordCountOverflow"}

\* What a title is made of, and how long it is.
Titles == [from : {"metadata", "content", "file", "html", "url", "default"},
           name : Names \cup {None}, blocks : SUBSET Nat, chars : Nat \ {0}]

ASSUME NamesAssumption ==
    /\ {Lower, BeforeDot, Stem} \subseteq [Names -> Names]
    /\ Chars \in [Names -> Nat]
    /\ None \notin Names \cup Errors \cup Titles \cup {"html", "pdf"}

ASSUME BoundsAssumption == MaxLength \in Nat \ {0} /\ MaxWords \in Nat

-----------------------------------------------------------------------------
(* Titles *)

\* Title::try_from: trimmed, never empty, cut to its greatest length.
TitleOf(from, name, blocks, chars) ==
    IF chars = 0 THEN None
    ELSE [from |-> from, name |-> name, blocks |-> blocks,
          chars |-> IF chars >= MaxLength THEN MaxLength ELSE chars]

NameTitle(from, name) == TitleOf(from, name, {}, Chars[name])

\* Title::default().
DefaultTitle == [from |-> "default", name |-> None, blocks |-> {}, chars |-> 9]

\* `or_else` between two options.
OrElse(a, b) == IF a # None THEN a ELSE b

\* extract_title: the last segment of the path, else the host; there is no
\* default for an http URL, whose host is not empty, but the code has one.
UrlTitle(url) ==
    OrElse(IF url.file # None THEN NameTitle("url", url.file) ELSE NameTitle("url", url.host),
           DefaultTitle)

\* The lower-cased name of the file without its extension.
StemTitle(url) ==
    IF url.file = None THEN None ELSE NameTitle("file", Stem[Lower[url.file]])

-----------------------------------------------------------------------------
(* The text of a PDF.  A block is a sequence of characters in lines: the   *)
(* sizes of its glyphs in twentieths of a point and, of its trimmed text,  *)
(* the numbers of characters, of spaces and of what is not printable.      *)
(* Some blocks of a page are a set of their positions.                     *)

Blocks == {b \in [sizes : SUBSET Nat, chars : Nat, spaces : Nat, odd : Nat] :
              IsFiniteSet(b.sizes)}

FontSize(block) == Max(block.sizes \cup {0})

\* Mutant: the size of the block at hand replaces the largest one.
ScanBlockLast(acc, blocks, k) ==
    LET size == FontSize(blocks[k])
    IN  IF blocks[k].chars = 0 THEN acc
        ELSE [kept |-> acc.kept \cup (IF size > 0 THEN {k} ELSE {}), max |-> size]

\* One block of the scan: kept if it has text and a font, and the largest font
\* of any block with text.
ScanBlock(acc, blocks, k) ==
    LET size == FontSize(blocks[k])
    IN  IF blocks[k].chars = 0 THEN acc
        ELSE [kept |-> acc.kept \cup (IF size > 0 THEN {k} ELSE {}),
              max |-> Max({acc.max, size})]

\* The scan of the first page, by the number of blocks it has seen.
Scan(blocks) ==
    LET after[k \in 0..Len(blocks)] ==
            IF k = 0 THEN [kept |-> {}, max |-> 0] ELSE ScanBlock(after[k - 1], blocks, k)
    IN  after

\* The blocks within a tenth of a point of the largest font.
HeadingBlocks(blocks) ==
    LET end == Scan(blocks)[Len(blocks)]
    IN  {k \in end.kept : FontSize(blocks[k]) + 2 > end.max}

\* The sum of numbers n[i], each written as so many pairs.
Total(n) == Cardinality(UNION {{i} \X (1..n[i]) : i \in DOMAIN n})

\* title_blocks joined by single spaces, in the order of the page.
Joined(blocks, at) ==
    LET joints == Cardinality(at) - 1
    IN  [chars |-> Total([i \in at |-> blocks[i].chars]) + joints,
         spaces |-> Total([i \in at |-> blocks[i].spaces]) + joints,
         odd |-> Total([i \in at |-> blocks[i].odd])]

LooksLikeTitle(text) ==
    /\ text.chars >= 10
    /\ text.spaces <= text.chars \div 3
    /\ text.odd <= text.chars \div 10

\* extract_title_from_content; None for an error, which is only logged.
ContentTitle(pdf) ==
    IF pdf.first = None \/ HeadingBlocks(pdf.first) = {} THEN None
    ELSE LET heading == HeadingBlocks(pdf.first)
             text == Joined(pdf.first, heading)
         IN  IF LooksLikeTitle(text) THEN TitleOf("content", None, heading, text.chars)
             ELSE None

\* Is a title in the metadata just the name of the file?  title_base against
\* the stem of the file's name.
IsFileName(title, url) ==
    url.file # None /\ Lower[BeforeDot[title]] = Stem[Lower[url.file]]

\* extract_title_from_metadata; None for an error and for a blank title.
MetadataTitle(pdf) ==
    IF pdf.meta = None \/ Chars[pdf.meta] = 0 THEN None ELSE pdf.meta

\* get_pdf_title.
PdfTitle(url, pdf) ==
    LET meta == MetadataTitle(pdf)
    IN  IF meta # None /\ ~IsFileName(meta, url)
        THEN NameTitle("metadata", meta)
        ELSE OrElse(ContentTitle(pdf), StemTitle(url))

\* extract_raw_text: a page that cannot be read is skipped, an error of the
\* whole gives no text.
PdfWords(pdf) == IF pdf.pages = None THEN 0
                 ELSE FoldLeft(LAMBDA n, w : IF w = None THEN n ELSE n + w, 0, pdf.pages)

-----------------------------------------------------------------------------
(* Documents *)

\* reading_time; None when the words are more than an i32 counts.
ReadingTime(words) == IF words > MaxWords THEN None ELSE words \div 230

NewDocument(title, mime, words, time) ==
    [title |-> title, mime |-> mime, words |-> words, readingTime |-> time]

HtmlDocument(url, html) ==
    NewDocument(OrElse(NameTitle("html", html.title), UrlTitle(url)), "text/html",
                html.words, ReadingTime(html.words))

\* Mutant: the end of the chain is forgotten.
PdfDocumentUntitled(url, pdf) ==
    NewDocument(IF pdf.parses THEN PdfTitle(url, pdf) ELSE StemTitle(url),
                "application/pdf",
                IF pdf.parses THEN PdfWords(pdf) ELSE 0,
                IF pdf.parses THEN OrElse(ReadingTime(PdfWords(pdf)), 0) ELSE 0)

\* PdfExtractor::extract.
PdfDocument(url, pdf) ==
    NewDocument(OrElse(OrElse(IF pdf.parses THEN PdfTitle(url, pdf) ELSE None,
                              StemTitle(url)),
                       UrlTitle(url)),
                "application/pdf",
                IF pdf.parses THEN PdfWords(pdf) ELSE 0,
                IF pdf.parses THEN OrElse(ReadingTime(PdfWords(pdf)), 0) ELSE 0)

\* What extract_or_fallback puts in place of an error.
FallbackDocument(url) == NewDocument(UrlTitle(url), None, 0, 0)

-----------------------------------------------------------------------------
(* Scraper::extract *)

\* ArticleMimeType::from on the header, case and all; without a header the
\* answer is taken for HTML.  The code looks at how a header begins: the two
\* with a parameter stand for all that begin with the type.
MimeOf(header) ==
    CASE header \in {None, "text/html", "text/html; charset=utf-8"} -> "html"
      [] header \in {"application/pdf", "application/pdf; qs=0.01"} -> "pdf"
      [] OTHER -> None

\* What an address leads to.  The segments of a path and the host of an http
\* URL have no blanks, so they are never blank names.
IsPage(p) ==
    LET visible == {n \in Names : Chars[n] > 0}
    IN  /\ p.url.file \in visible \cup {None} /\ p.url.host \in visible
        /\ MimeOf(p.header) = "html" => p.html.title \in Names
        /\ MimeOf(p.header) = "pdf" /\ p.pdf.parses =>
              p.pdf.meta \in Names \cup {None} /\ p.pdf.first \in Seq(Blocks) \cup {None}

\* What the network may do: answer, or fail within 30 seconds before the
\* header or after it.
Faults == {"none", "request", "body"}

Scraped(document) == [document |-> document, error |-> None]
Failed(error) == [document |-> None, error |-> error]

\* HtmlExtractor::extract.
HtmlResult(url, html) ==
    IF ~html.readable THEN Failed("ReadabilityParse")
    ELSE IF ReadingTime(html.words) = None THEN Failed("WordCountOverflow")
    ELSE Scraped(HtmlDocument(url, html))

\* Any status will do; a PDF never fails once it is there.
Extract(p, fault) ==
    IF fault = "request" THEN Failed("HttpRequest")
    ELSE IF MimeOf(p.header) = None THEN Failed("MimeTypeNotSupported")
    ELSE IF fault = "body" THEN Failed("HttpResponseParsing")
    ELSE IF MimeOf(p.header) = "html" THEN HtmlResult(p.url, p.html)
    ELSE Scraped(PdfDocument(p.url, p.pdf))

ExtractOrFallback(p, fault) ==
    LET got == Extract(p, fault)
    IN  IF got.error = None THEN got.document ELSE FallbackDocument(p.url)

-----------------------------------------------------------------------------
(* What a title should be *)

\* entries.title takes it.
Titled(doc) == doc.title # None /\ doc.title.chars \in 1..MaxLength

\* The blocks that make up the heading, by what a heading is: everything
\* printed, somewhere, within a tenth of a point of the largest print.
HeadingPositions(blocks) ==
    LET printed == {i \in 1..Len(blocks) : blocks[i].chars > 0}
        largest == Max((UNION {blocks[i].sizes : i \in printed}) \cup {0})
    IN  {i \in printed : \E s \in blocks[i].sizes : s > 0 /\ largest - s < 2}

\* ... and whether it can be a title.
ReadsLikeTitle(blocks) ==
    LET at == HeadingPositions(blocks)
    IN  at # {} /\ LooksLikeTitle(Joined(blocks, at))

\* A title that only repeats the name of the file: in any case, and with or
\* without an extension.
Repeats(title, url) ==
    url.file # None /\ Stem[Lower[url.file]] \in {Lower[title], Lower[BeforeDot[title]]}

\* The title in the metadata is the name of the file without its extension, and
\* has another dot in it.  get_pdf_title cuts it there (pdf.rs:117) and takes what
\* it should pass over for a title (pdf.rs:125).
RepeatsDottedName(url, pdf) ==
    LET meta == MetadataTitle(pdf)
    IN  /\ meta # None /\ url.file # None
        /\ Lower[meta] = Stem[Lower[url.file]] /\ Lower[BeforeDot[meta]] # Lower[meta]

\* The title of a readable PDF by what it is meant to be: that of its metadata
\* unless it repeats the name of the file; else the largest print of the first
\* page, all of it, if it reads like a title; else the file's name;
\* else the host.  PdfExtractor::extract finds it by nested fallbacks and one
\* scan of the blocks.
IsTitleOf(title, url, pdf) ==
    LET meta   == MetadataTitle(pdf)
        titled == meta # None /\ ~Repeats(meta, url)
        first  == pdf.first
    IN  CASE titled -> title.from = "metadata" /\ title.name = meta
          [] ~titled /\ first # None /\ ReadsLikeTitle(first) ->
                title.from = "content" /\ title.blocks = HeadingPositions(first)
          [] OTHER -> IF url.file = None THEN title.from = "url" /\ title.name = url.host
                      ELSE title.from \in {"file", "url"}
=============================================================================
