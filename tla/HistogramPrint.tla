--------------------------- MODULE HistogramPrint ---------------------------
(***************************************************************************)
(* histogramPrettyPrint(): a line for each bin, with a bar as long as the  *)
(* count, and with the interval of the error bar at its end.  A bar is a   *)
(* string, here a function from 0 .. width - 1 to characters.  Labels and  *)
(* formatted values are left out but for the room that they leave.         *)
(* A faulty twin of an operator stands just before it, as in ThreadCommon. *)
(***************************************************************************)
EXTENDS Histograms

HasErrorBars(h) == h.delta # NoErrorBars

\* how far the bar of bin k extends
MaxValOfCount(h, k) == h.bins[k]

MaxVal(h, k) == IF HasErrorBars(h) THEN Plus(h.bins[k], h.delta[k]) ELSE h.bins[k]

\* the largest that is finite, or 1
MaxValue(h) ==
  LET vals == {MaxVal(h, k) : k \in DOMAIN h.bins}
      finite == {v \in vals : IsFinite(v)}
  IN  IF finite = {} THEN One ELSE CHOOSE v \in finite : \A w \in finite : AtLeast(v, w)

\* room is what labels and values leave of a line
MaxBarWidth(room) == Max({2, room})

BarScale(h, width) ==
  LET max_value == MaxValue(h)
  IN  IF Less(Zero, max_value) THEN Over(max_value, width) ELSE One

\* the position of a value in a bar: the nearest one
ValueToBarLength(h, width, val) ==
  LET scaled == Quotient(val, BarScale(h, width))
  IN  IF Less(val, Zero) \/ ~IsFinite(val)
      THEN 0
      ELSE Min({(2 * scaled[1] + scaled[2]) \div (2 * scaled[2]), width - 1})

NoSide == ""

\* s with c from vs up to before ve, and with its ends marked; marks that
\* differ are kept from falling on one position
FillStr(s, vs, ve, c, clside, crside) ==
  LET size == Cardinality(DOMAIN s)
      sides == NoSide \notin {clside, crside}
      collide == sides /\ clside # crside /\ vs = ve
      right == IF collide /\ ve < size - 1 THEN ve + 1 ELSE ve
      left == IF collide /\ ve >= size - 1 /\ vs > 1 THEN vs - 1 ELSE vs
  IN  [j \in DOMAIN s |->
         CASE j = right /\ crside # NoSide -> crside
           [] j = left /\ clside # NoSide -> clside
           [] OTHER -> IF j \in vs .. ve - 1 THEN c ELSE s[j]]

MakeBar(h, k, room) ==
  LET width == MaxBarWidth(room)
      blank == [j \in 0 .. width - 1 |-> " "]
      at(val) == ValueToBarLength(h, width, val)
      lower == Minus(h.bins[k], h.delta[k])
      upper == Plus(h.bins[k], h.delta[k])
  IN  IF HasErrorBars(h)
      THEN FillStr(FillStr(blank, at(Zero), at(lower), "*", "*", "*"),
                   at(lower), at(upper), "-", "|", "|")
      ELSE FillStr(blank, at(Zero), at(h.bins[k]), "*", NoSide, NoSide)

PrettyPrint(h, room) == [k \in DOMAIN h.bins |-> MakeBar(h, k, room)]

-----------------------------------------------------------------------------
\* what a bar ought to show

\* The longest bar fills the line: val is nearest to position p, where the
\* position that follows the last one stands for top.
Nearest(p, val, top, width) ==
  LET Off(q) == LET d == Minus(Times(val, <<width, 1>>), Times(top, <<q, 1>>))
                IN  IF Less(d, Zero) THEN Minus(Zero, d) ELSE d
  IN  IF Less(val, Zero) THEN p = 0
                         ELSE \A q \in 0 .. width - 1 : AtLeast(Off(q), Off(p))

\* The bars are in proportion to the counts, and those of the error bars begin
\* and end at the nearest positions to the ends of the intervals.
PrintedTrue(drawn, h, room) ==
  LET err(k) == IF HasErrorBars(h) THEN h.delta[k] ELSE Zero
      upper(k) == Plus(h.bins[k], err(k))
      lower(k) == Minus(h.bins[k], err(k))
      top == CHOOSE v \in {upper(k) : k \in DOMAIN h.bins} :
               \A k \in DOMAIN h.bins : AtLeast(v, upper(k))
      width == Max({room, 2})
  IN  (\A k \in DOMAIN h.bins : IsFinite(h.bins[k]) /\ IsFinite(err(k))) /\ Less(Zero, top) =>
        \A k \in DOMAIN h.bins :
          LET bar == drawn[k]
              Where(c) == {j \in DOMAIN bar : bar[j] = c}
              ends == Where("|")
          IN  IF HasErrorBars(h)
              THEN /\ ends # {} /\ Cardinality(ends) <= 2
                   /\ Nearest(Min(ends), lower(k), top, width)
                   /\ Nearest(Max(ends), upper(k), top, width)
                   /\ Where("*") = 0 .. Min(ends) - 1
                   /\ Where("-") = Min(ends) + 1 .. Max(ends) - 1
              ELSE /\ Where("*") = 0 .. Cardinality(Where("*")) - 1
                   /\ Nearest(Cardinality(Where("*")), upper(k), top, width)

=============================================================================
