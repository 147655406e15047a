--------------------------- MODULE MCPackageScan ---------------------------
(***************************************************************************)
(* A small instance of PackageScan for TLC: every document of three        *)
(* versions, and archives, trees and sizes from the two sides of every     *)
(* limit.                                                                  *)
(***************************************************************************)
EXTENDS PackageScan

AnyDocument == Document

Plain(kind, size) == [kind |-> kind, size |-> size, depth |-> 1,
                      named |-> TRUE, inside |-> TRUE, target |-> TRUE]

(* MaxFile is 2 and MaxDepth 1.                                            *)
Members ==
    {Plain("file", n) : n \in 1 .. 3}
    \cup {Plain("directory", 0), Plain("link", 0), Plain("special", 0)}
    \cup {[Plain("file", 1) EXCEPT !.depth = 2], [Plain("file", 1) EXCEPT !.named = FALSE],
          [Plain("file", 1) EXCEPT !.inside = FALSE], [Plain("link", 0) EXCEPT !.target = FALSE]}

AnyArchive == UNION {[1 .. n -> Members] : n \in 0 .. MaxMembers + 1}

Quiet(extension) == [extension |-> extension, executable |-> FALSE,
                     obfuscated |-> FALSE, commands |-> FALSE, large |-> FALSE]

Files ==
    {[Quiet("other") EXCEPT !.executable = TRUE, !.obfuscated = TRUE],
     [Quiet("code") EXCEPT !.obfuscated = TRUE, !.commands = TRUE],
     [Quiet("code") EXCEPT !.obfuscated = TRUE, !.large = TRUE],
     [Quiet("script") EXCEPT !.obfuscated = TRUE, !.commands = TRUE],
     [Quiet("none") EXCEPT !.obfuscated = TRUE, !.commands = TRUE],
     Quiet("other")}

(* Every tree within the limit, and one over it.                           *)
AnyTree == UNION {[1 .. n -> Files] : n \in 0 .. MaxFiles}
           \cup {[i \in 1 .. MaxFiles + 1 |-> Quiet("other")]}

(* Around 30% and 100% more than 10.                                       *)
SomeSizes == {NoSize, 0, 10, 12, 13, 20, 21}
=============================================================================
