----------------------------- MODULE MCCommands -----------------------------
(* Commands for TLC: what each of three calls may ask.                      *)
EXTENDS Commands

CONSTANTS c1, c2, c3

Run(kind, film) == [tool |-> "run", kind |-> kind, film |-> film]
Tool(tool) == [tool |-> tool]

(* c1 adds a film, moves folders or backs up; c2 refreshes the film c1 adds, *)
(* moves or backs up beside it; c3 cancels a command.                        *)
Requests == [c \in Call |->
    CASE c = c1 -> {Tool("add"), Tool("move"), Tool("backup")}
      [] c = c2 -> {Run("refresh", c1), Tool("move"), Tool("backup")}
      [] c = c3 -> {Tool("cancel")}]
=============================================================================
