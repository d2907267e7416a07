----------------------------- MODULE MCFuzzyIndex -----------------------------
(* Small indexes for FuzzyIndex: letters 1 to 3, grams of two letters, and  *)
(* three letters in a vector.                                               *)
EXTENDS FuzzyIndex

\* Five texts that begin alike and one that does not; the same of two; texts
\* that are there three times, and one of the same direction; texts that
\* share grams.
MCContents ==
    { << <<1, 2, 3, 1>>, <<1, 2, 3, 2>>, <<1, 2, 3>>, <<2, 1>>,
         <<1, 2, 3, 1, 1>>, <<1, 2, 3, 3>> >>,
      << <<1, 2, 3, 1>>, <<2, 2, 2>>, <<1, 2, 3, 3>> >>,
      << <<2, 2>>, <<2, 2>>, <<2, 3, 1>>, <<2, 2>>, <<2, 2, 2>> >>,
      << <<1, 3>>, <<1, 3, 1>>, <<3, 1, 1>>, <<1>> >> }

\* With grams that no text has, before and after those of the texts.
MCQueries ==
    { <<1>>, <<2, 2>>, <<2, 1>>, <<1, 3>>, <<1, 2, 3>>, <<2, 1, 2>>, <<1, 2, 1>>,
      <<1, 1, 2>>, <<2, 2, 3>>, <<1, 3, 3>>, <<2, 3, 1>>,
      <<1, 2, 3, 1>>, <<1, 2, 3, 3>>, <<1, 2, 3, 1, 1>>, <<2, 2, 2, 2>> }

\* For two threads.
MCSharedContents == { << <<1, 3>>, <<3, 1>> >> }
MCSharedQueries  == { <<1, 3, 2>>, <<2, 2>> }

\* Weights that fall with the number of texts a gram is in, as the logarithm
\* in the code does.
MCIdf == [n \in 1..6 |-> [df \in 1..6 |-> 1 + (n + 1) \div (df + 1)]]
=============================================================================
