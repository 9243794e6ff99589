------------------------------- MODULE Symbols -------------------------------
(***************************************************************************)
(* obase.symbol_normalize: the symbols of market data sources, the         *)
(* canonical form, and the way back.  A behaviour takes one text of one    *)
(* source: it is read, written for another source, and read again.         *)
(*                                                                         *)
(* A text is made of words; what is glued together is a sequence of them,  *)
(* and only words that quotes begin with are told apart.  Length is the    *)
(* number of letters.  A dashed text is a sequence of parts, a slashed one *)
(* has a base, a quote and a settlement or none.                           *)
(***************************************************************************)
EXTENDS Naturals, SequencesExt, FiniteSetsExt

CONSTANT Bases    \* the assets, each a sequence of words

Letters == [w \in {"B", "T", "S", "FD", "USD", "BTC", "USDT", "EUR", "PERP", "FUT", "CALL", "PUT", "SPOT",
                   "100", "240628", "WIDE"} |->
  CASE w \in {"B", "T", "S"} -> 1 [] w = "FD" -> 2 [] w \in {"USD", "BTC", "EUR", "FUT", "PUT", "100"} -> 3
    [] w = "240628" -> 6 [] w = "WIDE" -> 11 [] OTHER -> 4]
Length(part) == FoldSeq(LAMBDA w, n : n + Letters[w], 0, part)

\* KNOWN_QUOTES, in their order; those that no other ends with stand for one.
KnownQuotes == <<<<"USDT">>, <<"B", "USD">>, <<"T", "USD">>, <<"FD", "USD">>, <<"USD">>, <<"EUR">>, <<"BTC">>>>

Failed == [kind |-> "error", parts |-> << >>]
Dashed(parts) == [kind |-> "dashed", parts |-> parts]
Glued(words) == [kind |-> "glued", parts |-> words]
Slashed(base, quote) == [kind |-> "slashed", parts |-> <<base, quote>>]
Settled(base, quote) == [kind |-> "settled", parts |-> <<base, quote>>]
Slug(asset) == [kind |-> "slug", parts |-> asset]
Deribit(parts) == [kind |-> "deribit", parts |-> parts]

-----------------------------------------------------------------------------
\* CANONICAL_PATTERN and _validate_canonical: one to six parts of up to ten letters.
Fits(c) ==
  c.kind = "dashed" /\ Len(c.parts) \in 1..6 /\ \A i \in DOMAIN c.parts : Length(c.parts[i]) \in 1..10
EndsInSpot(c) == Len(c.parts) > 1 /\ Last(c.parts) = <<"SPOT">>
IsCanonical(c) == Fits(c) /\ ~EndsInSpot(c)

\* parse_components: which instrument it is; "none" when it is none.
Instrument(c) ==
  LET p == c.parts IN
  IF ~IsCanonical(c) THEN "none"
  ELSE IF Len(p) = 1 THEN "asset"
  ELSE IF Len(p) = 2 THEN "spot"
  ELSE IF Len(p) = 3 /\ p[3] = <<"PERP">> THEN "perp"
  ELSE IF Len(p) = 4 /\ p[3] = <<"FUT">> THEN "futures"
  ELSE IF Len(p) = 5 /\ p[3] \in {<<"CALL">>, <<"PUT">>} /\ p[4] = <<"100">> THEN "option" ELSE "none"

\* _strip_spot_suffix takes one off; what is glued is one part.
StripSpot(s) ==
  CASE s.kind = "glued" -> Dashed(<<s.parts>>) [] s.kind = "dashed" /\ EndsInSpot(s) -> Dashed(Front(s.parts))
    [] OTHER -> s

\* _normalize_binance_concat: the first known quote that it ends with, if the
\* rest can be a base.
Splits(words, quote) ==
  IsStrictSuffix(quote, words) /\ Length(words) - Length(quote) \in 1..10
FirstQuote(words) == Head(SelectSeq(KnownQuotes, LAMBDA q : Splits(words, q)))
NormalizeConcat(s, perp) ==
  IF s.kind # "glued" \/ ~\E i \in DOMAIN KnownQuotes : Splits(s.parts, KnownQuotes[i]) THEN Failed
  ELSE LET quote == FirstQuote(s.parts)
           base == SubSeq(s.parts, 1, Len(s.parts) - Len(quote))
       IN Dashed(<<base, quote>> \o (IF perp THEN <<<<"PERP">>>> ELSE << >>))

\* _normalize_okx_spot and _normalize_okx_swap; a settlement is dropped by the
\* second and makes the first's result no symbol.
NormalizeSpot(s) ==
  IF s.kind = "slashed" THEN Dashed(s.parts) ELSE StripSpot(s)
NormalizeSwap(s) == IF s.kind = "settled" THEN Dashed(Append(s.parts, <<"PERP">>)) ELSE Failed

\* _normalize_coingecko_slug: the assets with a slug.
Slugs == {<<"BTC">>}
NormalizeSlug(s) == IF s.kind = "slug" /\ s.parts \in Slugs THEN Dashed(<<s.parts>>) ELSE Failed

\* _normalize_deribit: a perpetual, a future, or a call or put and its strike.
NormalizeDeribit(s) ==
  LET p == s.parts IN
  CASE s.kind = "deribit" /\ Len(p) = 2 /\ p[2] = "perpetual" -> Dashed(<<p[1], <<"USD">>, <<"PERP">>>>)
    [] s.kind = "deribit" /\ Len(p) = 2 /\ p[2] = "date" -> Dashed(<<p[1], <<"USD">>, <<"FUT">>, <<"240628">>>>)
    [] s.kind = "deribit" /\ Len(p) = 4 /\ p[2] = "date" /\ p[4] \in {"C", "P"} ->
         Dashed(<<p[1], <<"USD">>, IF p[4] = "C" THEN <<"CALL">> ELSE <<"PUT">>, <<"100">>, <<"240628">>>>)
    [] OTHER -> Failed

\* to_canonical; a result that does not fit the pattern is an error.
ToCanonical(s, source) ==
  LET c == CASE source = "binance" -> NormalizeConcat(s, FALSE)
             [] source = "binance_futures" -> NormalizeConcat(s, TRUE)
             [] source \in {"okx_spot", "helixa"} -> NormalizeSpot(s)
             [] source = "okx_swap" -> NormalizeSwap(s)
             [] source \in {"yfinance", "none"} -> StripSpot(s)
             [] source = "coingecko" -> NormalizeSlug(s)
             [] source = "deribit" -> NormalizeDeribit(s)
  IN IF Fits(c) THEN c ELSE Failed

\* to_binance_concat, to_helixa_format (and to_okx_format), to_coingecko_slug.
ToConcat(c) == IF Instrument(c) \in {"spot", "perp"} THEN Glued(c.parts[1] \o c.parts[2]) ELSE Failed
ToHelixa(c) ==
  CASE Instrument(c) = "spot" -> Slashed(c.parts[1], c.parts[2])
    [] Instrument(c) = "perp" -> Settled(c.parts[1], c.parts[2]) [] OTHER -> Failed
ToSlug(c) == IF Instrument(c) # "none" /\ c.parts[1] \in Slugs THEN Slug(c.parts[1]) ELSE Failed

-----------------------------------------------------------------------------
Quotes == ToSet(KnownQuotes) \cup {<<"S">>}
Sources == {"binance", "binance_futures", "okx_spot", "helixa", "okx_swap", "yfinance", "none", "coingecko", "deribit"}
Texts ==
  {Glued(b \o q) : b \in Bases, q \in Quotes} \cup {Slug(b) : b \in Bases}
  \cup UNION {{Slashed(b, q), Settled(b, q), Dashed(<<b, q>>), Dashed(<<b, q, <<"SPOT">>>>), Dashed(<<b, q, <<"PERP">>>>),
               Dashed(<<b, q, <<"SPOT">>, <<"SPOT">>>>)} : b \in Bases, q \in Quotes}
  \cup {Deribit(<<b, x>>) : b \in Bases, x \in {"perpetual", "date", "nonsense"}}
  \cup {Deribit(<<b, "date", "100", x>>) : b \in Bases, x \in {"C", "P", "X"}}

VARIABLES
  text,     \* the text at hand
  from,     \* the source it is of
  read,     \* its canonical form, once it is read
  phase     \* given, read, written, read again
vars == <<text, from, read, phase>>

Init ==
  /\ text \in Texts /\ from \in Sources /\ read = Failed /\ phase = "given"
  /\ text.kind = "slug" => from = "coingecko"
  /\ text.kind = "deribit" => from = "deribit"
Read == phase = "given" /\ read' = ToCanonical(text, from) /\ phase' = "read" /\ UNCHANGED <<text, from>>
Write(t, source) ==
  /\ phase = "read" /\ t # Failed /\ text' = t /\ from' = source /\ phase' = "written" /\ UNCHANGED read
WriteAny ==
  \/ \E source \in {"binance", "binance_futures"} : Write(ToConcat(read), source)
  \/ \E source \in {"okx_spot", "helixa", "okx_swap"} : Write(ToHelixa(read), source)
  \/ Write(ToSlug(read), "coingecko")
Next == Read \/ WriteAny
Spec == Init /\ [][Next]_vars

-----------------------------------------------------------------------------
\* Every variable has its type.
TypeOK ==
  /\ text.kind \in {"glued", "slug", "slashed", "settled", "dashed", "deribit"} /\ from \in Sources
  /\ phase \in {"given", "read", "written"} /\ read.kind \in {"error", "dashed"}

\* A symbol that was read is canonical, but for a second suffix -SPOT; and one
\* of an exchange's own form can be told apart into its components.
ReadIsCanonical ==
  /\ phase # "given" /\ read # Failed =>
       /\ IsCanonical(read) \/ EndsInSpot(read)
       /\ from \in {"binance", "binance_futures", "okx_swap", "deribit"} => Instrument(read) # "none"

\* What is written for a source is read there as the same symbol, the kind of
\* contract aside that the text does not tell; unless it is glued of words whose
\* end is a longer known quote, or its quote is not known.
Blurred(c) ==
  \/ c.parts[2] \notin ToSet(KnownQuotes)
  \/ \E q \in ToSet(KnownQuotes) : Len(q) > Len(c.parts[2]) /\ Splits(c.parts[1] \o c.parts[2], q)
WrittenIsRead ==
  phase = "written" =>
    LET again == ToCanonical(text, from) IN
    CASE text.kind = "glued" ->
           Blurred(read) \/ (again # Failed /\ SubSeq(again.parts, 1, 2) = SubSeq(read.parts, 1, 2)
                             /\ (again = read <=> (from = "binance") = (Instrument(read) = "spot")))
      [] text.kind = "slug" -> again = Dashed(<<read.parts[1]>>)
      [] text.kind = "settled" -> again = IF from = "okx_swap" THEN read ELSE Failed
      [] OTHER -> again = IF from = "okx_swap" THEN Failed ELSE read

=============================================================================
