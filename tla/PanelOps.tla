------------------------------- MODULE PanelOps -------------------------------
(* The vocabulary in which the pages and tabs of the web client are written     *)
(* down: an operation is what one button does to the hub and to the view, a     *)
(* panel is what a page loads and which operations it offers to whom.           *)
(*                                                                              *)
(* An operation is                                                              *)
(*   who    the roles the page offers it to                                     *)
(*   off    busy flags that disable the button, busy the flags its handler sets *)
(*   form   the form that has to be filled in                                   *)
(*   adds   resources the hub changes in place                                  *)
(*   puts   resources replaced by what the view showed when it was clicked      *)
(*   shows  resources the view takes from the answer of the write               *)
(*   marks  resources in which the view makes just this change itself           *)
(*   keeps  resources the view puts back to what they were at the click (the    *)
(*          handler's closure: setItem({...item, ...}))                         *)
(*   reads  what is read again before the handler ends, also what is read again *)
(*          without waiting for it                                              *)
(*   fills  forms the handler fills again from the answer of its write          *)
(*   asks   a dialog with the consequences comes first                          *)
(*   leaves the page is left on success, removes the object is gone             *)
(*   anyway the resources are also read when the write fails                    *)
(*   stays  the dialog with the consequences stays open when the write fails    *)
(*                                                                              *)
(* A panel is the roles that see it, the resources its first load reads, its    *)
(* forms (the resource each is filled from, the flags that lock its fields) and *)
(* its operations.                                                              *)

Role == {"owner", "admin", "reader"}
Managers == {"owner", "admin"}

Plain == [who |-> Role, off |-> {}, busy |-> {}, form |-> "none",
          adds |-> {}, puts |-> {}, shows |-> {}, marks |-> {}, keeps |-> {}, reads |-> {}, also |-> {},
          fills |-> {}, asks |-> FALSE, leaves |-> FALSE, removes |-> FALSE,
          anyway |-> FALSE, stays |-> FALSE]

(* the tabs of a page together *)
f ++ g == [x \in DOMAIN f \cup DOMAIN g |-> IF x \in DOMAIN f THEN f[x] ELSE g[x]]

NoForms == [f \in {} |-> 0]
Form(from, lock) == [from |-> from, lock |-> lock]
Resources(p) == p.loads \cup UNION {LET o == p.ops[n] IN o.adds \cup o.puts \cup o.reads \cup o.also :
                                    n \in DOMAIN p.ops}
Flags(p) == UNION {p.ops[n].busy : n \in DOMAIN p.ops}
=============================================================================
