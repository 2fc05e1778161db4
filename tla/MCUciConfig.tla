---------------------------- MODULE MCUciConfig ----------------------------
(***************************************************************************)
(* Option values around every boundary of str_to_digit and of the levels.  *)
(***************************************************************************)
EXTENDS UciConfig

\* "", "/", "0", "7", "8", "9", ":", "70", and a byte above 127 as a signed
\* char.
MCValues ==
  {<<>>, <<47>>, <<48>>, <<55>>, <<56>>, <<57>>, <<58>>, <<55, 48>>, <<-1, 55>>}

MCEntries ==
  {Lookup("complete", "string", v) : v \in MCValues}
    \cup {Lookup("notfound", "none", <<>>), Lookup("partial", "none", <<>>),
          Lookup("complete", "list", <<>>)}
=============================================================================
