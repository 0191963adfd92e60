------------------------------ MODULE MCResources ------------------------------
(***************************************************************************)
(* Components that share no state, checked side by side: a behaviour is    *)
(* one of page allocation, file contents, a program's heap, the shell's    *)
(* processes or its parser, chosen at the start; the others do nothing.    *)
(***************************************************************************)
EXTENDS Memory, FileData, UMalloc, Shell, ShellParser

VARIABLE part

Parts == {"memory", "files", "heap", "shell", "parser"}

ResourcesInit ==
  part \in Parts /\ MemInit /\ FDInit /\ MallocInit /\ ShellInit /\ ParserInit

ResourcesNext ==
  /\ UNCHANGED part
  /\ \/ part = "memory" /\ MemNext /\ UNCHANGED <<fdVars, mallocVars, shellVars, parserVars>>
     \/ part = "files" /\ FDNext /\ UNCHANGED <<memVars, mallocVars, shellVars, parserVars>>
     \/ part = "heap" /\ MallocNext /\ UNCHANGED <<memVars, fdVars, shellVars, parserVars>>
     \/ part = "shell" /\ ShellNext /\ UNCHANGED <<memVars, fdVars, mallocVars, parserVars>>
     \/ part = "parser" /\ ParserNext /\ UNCHANGED <<memVars, fdVars, mallocVars, shellVars>>

\* Sessions at the shell: a pipeline of three; a background job beside a pipeline with
\* a redirection; a shell that ends while its background pipeline runs; "cd".
Source == <<"exec", "source">>
Sink == <<"exec", "sink">>
Filter == <<"exec", "filter">>
MCSessions ==
  {<<<<"pipe", Source, <<"pipe", Filter, Sink>>>>>>,
   <<<<"list", <<"back", Source>>, <<"redir", 0, <<"pipe", Sink, Source>>>>>>>>,
   <<<<"back", <<"pipe", Source, Filter>>>>, <<"eof">>>>,
   <<<<"back", Source>>, <<"cd">>, <<"list", <<"none">>, Sink>>>>}

\* Every line of up to four characters, and of five without "&", ";", "<" and ">".
MCCmdLines == UNION {[1..n -> Letters] : n \in 0..4}
              \cup UNION {[1..n -> {"a", " ", "(", ")", "|"}] : n \in 0..5}

\* Processes and open files, which share model values, are interchangeable.
Symmetry == Permutations(Slots \ {initproc})
================================================================================
