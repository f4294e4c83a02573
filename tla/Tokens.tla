------------------------------ MODULE Tokens -------------------------------
(* Texts as sequences of tokens.                                            *)
EXTENDS SequencesExt

\* t without what is not in V, as str.replace and re.sub cut it out.  It is
\* SelectSeq as a fold, which can be reasoned about.
Only(t, V) == FoldLeft(LAMBDA kept, c : IF c \in V THEN Append(kept, c) ELSE kept, <<>>, t)
=============================================================================
