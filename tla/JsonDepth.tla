-------------------------------- MODULE JsonDepth --------------------------------
(***************************************************************************)
(* The nesting depth of a JSON text computed without recursion             *)
(* (http_bounds.py json_nesting_depth), against a scanner that reads the   *)
(* text as json.loads does: one token after the other, until the first     *)
(* that cannot be.  Both inbound bodies and provider replies rely on it to *)
(* keep json.loads from exhausting the stack.                              *)
(*                                                                         *)
(* A text is grown character by character: brackets, quotes, backslashes   *)
(* and a character that stands for every other.                            *)
(***************************************************************************)
EXTENDS Integers, Sequences, SequencesExt

CONSTANT MaxText  \* bound on the text

Open == "open"
Close == "close"
Quote == "quote"
Backslash == "backslash"
Alphabet == {Open, Close, Quote, Backslash, "other"}

VARIABLE text

Init == text = <<>>

Type(c) == Len(text) < MaxText /\ text' = Append(text, c)

Next == \E c \in Alphabet : Type(c)

Spec == Init /\ [][Next]_text

-----------------------------------------------------------------------------
(* json_nesting_depth *)

\* str.replace(pair, ""), from left to right: a character that was kept and begins a pair
\* is pending for the next one, and what was deleted is not looked at again.
Nothing == [kept |-> <<>>, pending |-> FALSE]

Pass(first, second, s, c) ==
  IF s.pending /\ c = second
  THEN [kept |-> Front(s.kept), pending |-> FALSE]
  ELSE [kept |-> Append(s.kept, c), pending |-> c = first]

Passed(first, second, t) ==
  LET upto[k \in 0 .. Len(t)] ==
        IF k = 0 THEN Nothing ELSE Pass(first, second, upto[k - 1], t[k])
  IN  upto[Len(t)]

Delete(first, second, t) == Passed(first, second, t).kept

\* Mutant: the escaped quotes are deleted before the escaped backslashes.
QuotesFirst(t) == Delete(Backslash, Backslash, Delete(Backslash, Quote, t))

Unescaped(t) == Delete(Backslash, Quote, Delete(Backslash, Backslash, t))

\* The brackets in the text between the strings, by their places.
Quotes(u, n) == Cardinality({i \in 1 .. n : u[i] = Quote})
Brackets(u) == {i \in 1 .. Len(u) : u[i] \in {Open, Close} /\ Quotes(u, i) % 2 = 0}

Balance(u, n) ==
  Cardinality({i \in Brackets(u) : i <= n /\ u[i] = Open})
    - Cardinality({i \in Brackets(u) : i <= n /\ u[i] = Close})

Balances(u) == {Balance(u, n) : n \in Brackets(u)}

Depth(t) ==
  LET balances == Balances(Unescaped(t))
  IN  IF balances = {} THEN 0 ELSE CHOOSE d \in balances : \A e \in balances : e <= d

-----------------------------------------------------------------------------
(* json.loads, as far as nesting goes.  It is taken to accept every character   *)
(* that stands for a scalar, a comma or a letter, so that it reads at least as  *)
(* far as the parser does.                                                      *)

Start == [in |-> "value", open |-> 0, reach |-> 0]

Read(s, c) ==
  IF s.in = "error" THEN s
  ELSE IF s.in = "escape" THEN [s EXCEPT !.in = IF c \in {Open, Close} THEN "error" ELSE "string"]
  ELSE IF s.in = "string"
  THEN [s EXCEPT !.in = CASE c = Quote -> "value" [] c = Backslash -> "escape" [] OTHER -> "string"]
  ELSE CASE c = Quote -> [s EXCEPT !.in = "string"]
         [] c = Open ->
              [s EXCEPT !.open = @ + 1, !.reach = IF s.open + 1 > @ THEN s.open + 1 ELSE @]
         [] c = Close /\ s.open > 0 -> [s EXCEPT !.open = @ - 1]
         [] c = Backslash \/ (c = Close /\ s.open = 0) -> [s EXCEPT !.in = "error"]
         [] OTHER -> s

Scan(t) ==
  LET upto[k \in 0 .. Len(t)] == IF k = 0 THEN Start ELSE Read(upto[k - 1], t[k])
  IN  upto[Len(t)]

-----------------------------------------------------------------------------
(* Properties *)

\* Wherever the parser opens a container, the depth is never below what it reaches
\* before it stops, and for a text that it reads to the end with every string and
\* bracket closed the depth is exact.  (Of a text that opens with a closing bracket it
\* is negative, and the parser reaches nothing.)
DepthNeverBelow ==
  LET scan == Scan(text)
  IN  /\ scan.reach > 0 => Depth(text) >= scan.reach
      /\ scan.in = "value" /\ scan.open = 0 => Depth(text) = scan.reach

\* Why: as long as the parser goes on, a string is open to it where the quotes left are
\* odd in number, an escape is under way where a backslash is pending, and its containers
\* are the balance of the brackets; what comes later leaves the brackets before it alone.
ScanInv ==
  LET one == Passed(Backslash, Backslash, text)
      two == Passed(Backslash, Quote, one.kept)
      u == two.kept
      scan == Scan(text)
  IN  /\ one.pending = two.pending
      /\ one.pending <=> one.kept # <<>> /\ Last(one.kept) = Backslash
      /\ \A i \in 1 .. Len(one.kept) - 1 : ~ (one.kept[i] = Backslash /\ one.kept[i + 1] = Backslash)
      /\ two.pending => u # <<>> /\ Last(u) = Backslash
      /\ Balances(u) # {} => \E d \in Balances(u) : \A e \in Balances(u) : e <= d
      /\ scan.reach > 0 => scan.reach \in Balances(u)
      /\ scan.in # "error" =>
           /\ two.pending <=> scan.in = "escape"
           /\ Quotes(u, Len(u)) % 2 = 0 <=> scan.in = "value"
           /\ scan.open = Balance(u, Len(u))
           /\ scan.open <= scan.reach
           /\ \A b \in Balances(u) : b <= scan.reach
           /\ Balances(u) # {} => scan.reach > 0

=============================================================================
