------------------------------- MODULE MCTransfer -------------------------------
EXTENDS Transfer, TLC

CONSTANTS t1, t2, noFile, noPassword

MCTexts == {"", " ", "a", " a", "t", "bad", "it's", "sn", Placeholder}
MCStrip == [t \in MCTexts |-> CASE t = " a" -> "a" [] t = " " -> "" [] OTHER -> t]
\* Plain JSON of one entry can be exported and not imported, of two not exported.
MCWeight == [json |-> 3, csv |-> 1, bitwarden |-> 1, lastpass |-> 1]
MCExt   == [n \in {"near.json", "far.csv"} |-> IF n = "near.json" THEN ".json" ELSE ".csv"]

Entry(id, title, password, totp) ==
  [id |-> id, title |-> title, username |-> "a", password |-> password,
   url |-> "", notes |-> "", tags |-> [kind |-> "text", set |-> {"t"}], totp |-> totp,
   favorite |-> totp # ""]

\* Two entries, one whose title is only spaces; one with a tag the importer
\* refuses and LastPass's mark of a secure note; one with an apostrophe.
MCVaults == { (1 :> Entry(1, "a", "a", "a")) @@ (2 :> Entry(2, " ", " a", "")),
              (1 :> [Entry(1, "a", "a", "") EXCEPT !.url = "sn", !.tags.set = {"bad"}]),
              (1 :> Entry(1, "it's", "a", "")) }

\* A file with no rows for another delimiter, or one cell run into the next.
MCGarbled == {<<>>, <<[Entry(Fresh, "it's", "", "") EXCEPT !.username = ""]>>}

MCRequests ==
  {[fmt |-> f, gzip |-> FALSE, all |-> TRUE, ids |-> <<>>] : f \in FormatNames}
  \cup {[fmt |-> "json", gzip |-> TRUE, all |-> FALSE, ids |-> <<2, 1>>]}

\* A tampered export of this program, an encrypted Bitwarden export, one of
\* Bitwarden's own with a card and a note, and a plain LastPass export.
Item(type) == [type |-> type, id |-> Fresh, name |-> "a", notes |-> "a", uri |-> "a",
               username |-> "a", password |-> "a", field |-> {}, folder |-> {"t"}]
Foreign(fmt, body) ==
  [ext |-> Suffix(fmt), fmt |-> fmt, body |-> body, enc |-> NoPassword, gzip |-> FALSE,
   hash |-> "none", size |-> Len(body), sound |-> TRUE, whole |-> TRUE,
   ours |-> FALSE, src |-> <<>>]
MCFound ==
  { [Foreign("json", <<Entry(1, "a", "a", "")>>) EXCEPT !.enc = "p", !.hash = "wrong"],
    [Foreign("bitwarden", <<>>) EXCEPT !.sound = FALSE],
    Foreign("bitwarden", <<Item("card"), Item("note"), Item("login")>>),
    Foreign("lastpass", <<LastPassRow(Entry(1, "a", "a", "a"))>>) }

Symmetry == Permutations(Threads)
=================================================================================
