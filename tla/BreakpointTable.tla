--------------------------- MODULE BreakpointTable ---------------------------
(***************************************************************************)
(* The table of break points of the debugger (class breakpoint_table): a   *)
(* vector of (code, addr) pairs, looked up by address (the first match) or *)
(* by position.  Positions are the indices of the sequence: the position   *)
(* the user types is one less.                                             *)
(***************************************************************************)
EXTENDS Integers, Sequences, SequencesExt

(* dict_addr2idx: the first entry with this address, 0 when there is none  *)
(* (the code's -1).                                                        *)
dict_addr2idx(data, addr) ==
  IF \E i \in 1..Len(data) : data[i].addr = addr
  THEN CHOOSE i \in 1..Len(data) :
         /\ data[i].addr = addr
         /\ \A j \in 1..(i-1) : data[j].addr # addr
  ELSE 0

(* include(int): is this position in the table? *)
IncludeIdx(data, idx) == idx \in 1..Len(data)

(* include(unsigned long long): is there an entry for this address? *)
Include(data, addr) == IncludeIdx(data, dict_addr2idx(data, addr))

(* operator[](unsigned long long): the first entry for this address. *)
EntryAt(data, addr) == data[dict_addr2idx(data, addr)]

(* add: push_back, with no check for an entry of the same address. *)
Add(data, addr, code) == Append(data, [addr |-> addr, code |-> code])

(* del: erase by position; later entries move down by one. *)
Del(data, idx) == RemoveAt(data, idx)

(* No address has two entries. *)
Distinct(data) ==
  \A i, j \in 1..Len(data) : data[i].addr = data[j].addr => i = j

=============================================================================
