------------------------------- MODULE MCYaml -------------------------------
(* Documents of four nodes; texts of a few lexemes of any kind, and longer ones *)
(* of the kinds that make keys, and of those that make flow collections.        *)
EXTENDS Yaml

\* A short scalar, one too long for the scanner's simple keys, and the texts of two
\* lines with none, one and two breaks last, and with a space, a tab, two breaks, and a
\* break and a tab first.
SomeScalars ==
  {Value("short", 0, 0), Value("long", 0, 0)}
    \cup {Value("lines", 0, final) : final \in 0..2}
    \cup {Value("lines", 1, 1), [Value("lines", 0, 0) EXCEPT !.tab = TRUE],
          [Value("lines", 0, 1) EXCEPT !.breaks = 2],
          [Value("lines", 0, 2) EXCEPT !.breaks = 1, !.tab = TRUE]}

SomeTexts ==
  {[kinds |-> Kinds, length |-> 3],
   [kinds |-> {"plain", "quoted", ":", "-", "?"}, length |-> 4],
   [kinds |-> {"quoted", ":", "[", "]", ","}, length |-> 4],
   [kinds |-> {"---", "...", "directive", "tag", "plain"}, length |-> 4]}
=============================================================================
