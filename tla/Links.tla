--------------------------------- MODULE Links ---------------------------------
(***************************************************************************)
(* html_link_discover (operator.rs): the links of a page, made absolute    *)
(* against its address, once each in the page's order.                     *)
(*                                                                         *)
(* An address is a sequence of signs: a scheme with its colon, ":", "/",   *)
(* "?", "#", a space or letters.                                           *)
(***************************************************************************)
EXTENDS Integers, Sequences, SequencesExt, FiniteSetsExt, TLC

At(text, signs) == Min({i \in DOMAIN text : text[i] \in signs} \cup {Len(text) + 1})
Before(text, signs) == SubSeq(text, 1, At(text, signs) - 1)
After(text, n) == SubSeq(text, n + 1, Len(text))
Trimmed(text) ==
    LET seen == {i \in DOMAIN text : text[i] # " "}
    IN  IF seen = {} THEN <<>> ELSE SubSeq(text, Min(seen), Max(seen))

\* Where "://" ends in a text, 0 where there is none.
SchemeEnd(text) ==
    LET ends == {i \in 3..Len(text) : SubSeq(text, i - 2, i) = <<":", "/", "/">>}
    IN  IF ends = {} THEN 0 ELSE Min(ends)
url_origin(url) ==
    LET rest == After(url, SchemeEnd(url))
    IN  IF SchemeEnd(url) <= 3 \/ Before(rest, {"/", "?", "#"}) = <<>> THEN <<>>
        ELSE <<SubSeq(url, 1, SchemeEnd(url)) \o Before(rest, {"/", "?", "#"})>>
\* Mutant of url_dir_base: the last "/" of the whole address.
url_dir_base_whole(page) ==
    LET origin == url_origin(page)[1]
        path == After(page, Len(origin))
        slashes == {i \in DOMAIN path : path[i] = "/"}
    IN  origin \o (IF slashes = {} THEN <<"/">> ELSE SubSeq(path, 1, Max(slashes)))
url_dir_base(page) ==
    LET origin == url_origin(page)[1]
        path == Before(After(page, Len(origin)), {"?", "#"})
        slashes == {i \in DOMAIN path : path[i] = "/"}
    IN  origin \o (IF slashes = {} THEN <<"/">> ELSE SubSeq(path, 1, Max(slashes)))
SchemeSigns == {"http", "a", "b"}
href_has_scheme(text) ==
    LET at == At(text, {":"})
    IN  at \in 2..Len(text) /\ ToSet(SubSeq(text, 1, at - 1)) \subseteq SchemeSigns
absolutise(page, href) ==
    LET h == Trimmed(href)
    IN  CASE h = <<>> -> <<>>
          [] h # <<>> /\ h[1] = "#" -> <<>>
          [] href_has_scheme(h) -> <<h>>
          [] ~href_has_scheme(h) /\ IsPrefix(<<"/", "/">>, h) ->
                IF SchemeEnd(page) <= 3 THEN <<>>
                ELSE <<SubSeq(page, 1, SchemeEnd(page)) \o After(h, 2)>>
          [] url_origin(page) = <<>> -> <<>>
          [] OTHER -> <<(IF h[1] = "/" THEN url_origin(page)[1] ELSE url_dir_base(page)) \o h>>
discover_links(hrefs, page, matching, limit) ==
    LET Seen(urls, href) ==
            LET url == absolutise(page, href)
            IN  IF (limit # <<>> /\ urls # <<>> /\ Len(urls) >= limit[1]) \/ href \notin matching \/ url = <<>>
                   \/ url[1] \in ToSet(urls)
                THEN urls ELSE Append(urls, url[1])
    IN  FoldLeft(Seen, <<>>, hrefs)

(***************************************************************************)
(* A link is where a reader of the page would be taken: at another host,   *)
(* at the page's own from its root, or below the directory the page lies   *)
(* in, whatever its query holds.  Every matching link that leads somewhere *)
(* is listed once, in the page's order.  A page is [scheme, host,          *)
(* directory, file, query].  An href that is a query alone is resolved     *)
(* against the directory.                                                  *)
(***************************************************************************)
Address(page) ==
    page.scheme \o <<":", "/", "/">> \o page.host \o page.directory \o page.file \o page.query
Resolved(page, h) ==
    CASE href_has_scheme(h) -> h
      [] IsPrefix(<<"/", "/">>, h) -> page.scheme \o <<":">> \o h
      [] h[1] = "/" /\ ~IsPrefix(<<"/", "/">>, h) -> page.scheme \o <<":", "/", "/">> \o page.host \o h
      [] OTHER -> page.scheme \o <<":", "/", "/">> \o page.host
                     \o (IF page.directory = <<>> THEN <<"/">> ELSE page.directory) \o h
Leads(h) == h # <<>> /\ h[1] # "#"
LinksAreFound(hrefs, page, limit) ==
    LET matching == {href \in ToSet(hrefs) : "a" \in ToSet(href)}
        Kept(href) == href \in matching /\ Leads(Trimmed(href))
        urls == discover_links(hrefs, Address(page), matching, limit)
        kept == SelectSeq(hrefs, Kept)
        led == [i \in DOMAIN kept |-> Resolved(page, Trimmed(kept[i]))]
        first == SelectSeq([i \in DOMAIN led |-> i], LAMBDA i : \A j \in 1..(i - 1) : led[j] # led[i])
    IN  urls = SubSeq([i \in DOMAIN first |-> led[first[i]]], 1,
                      IF limit = <<>> THEN Len(first) ELSE Min({Len(first), Max({limit[1], 1})}))
=============================================================================
