--------------------------- MODULE MissingColumn ---------------------------
(***************************************************************************)
(* jscoverage.js: the column of missing lines that                         *)
(* jscoverage_recalculateSummaryTab makes of the counts of a file.         *)
(***************************************************************************)
EXTENDS Summary, Calls

\* the lines that are pushed to missing, one after the other
MissingLines(counts, noted) ==
  LET pushed[l \in 0 .. Len(noted)] ==
        IF l = 0 THEN <<>>
        ELSE IF l \in Considered(counts, noted) /\ counts[l] = 0 THEN Append(pushed[l - 1], l) ELSE pushed[l - 1]
  IN pushed[Len(noted)]

\* between two missing lines that go together no line has a count
\* mutant: the line before the next missing one is not looked at
Together_Short(counts, a, b) == \A l \in (a + 1 .. b - 2) \cap DOMAIN counts : counts[l] = 0
Together(counts, a, b) == \A l \in (a + 1 .. b - 1) \cap DOMAIN counts : counts[l] = 0

\* the links of the missing column, from line to line: a missing line that goes together
\* with the one before it has no link of its own
Links(counts, noted) ==
  LET missing == MissingLines(counts, noted)
      made[i \in 0 .. Len(missing)] ==
        IF i = 0 THEN <<>>
        ELSE LET before == made[i - 1]
             IN IF i > 1 /\ Together(counts, missing[i - 1], missing[i])
                THEN [before EXCEPT ![Len(before)] = <<@[1], missing[i]>>]
                ELSE Append(before, <<missing[i], missing[i]>>)
  IN made[Len(missing)]

Summarize(listing) == call = Idle /\ Called("summary", listing, Links(listing.counts, listing.noted))

\* a file: some of its lines have counts, and a conditional leads to a line
IsListing(listing) == listing.noted \in Seq(Nat) /\ DOMAIN listing.counts \subseteq Nat
SummarySpec ==
  NoCall /\ [][\/ \E listing : IsListing(listing) /\ Summarize(listing)
               \/ call'.name # "summary"]_<<call, result>>

\* The links of the missing column lead over all missing lines and over no line with a
\* count; they are as few as that allows (jscoverage_recalculateSummaryTab).
LinksExact ==
  call.name = "summary" =>
    LET counts == call.input.counts
        over(k) == result[k][1] .. result[k][2]
        missing == {l \in Considered(counts, call.input.noted) : counts[l] = 0}
        executed == {l \in DOMAIN counts : counts[l] # 0}
    IN /\ missing \subseteq UNION {over(k) : k \in DOMAIN result}
       /\ \A k \in DOMAIN result : {result[k][1], result[k][2]} \subseteq missing /\ over(k) \cap executed = {}
       /\ \A k \in DOMAIN result \ {1} : (result[k - 1][2] .. result[k][1]) \cap executed # {}
=============================================================================
