--------------------------- MODULE MCStackRedzone ---------------------------
(* Functions for StackRedzone.  Slot 1 holds the return address; buffers lie *)
(* at lower addresses than the canary, as compilers place them.              *)
EXTENDS StackRedzone

I(op, slot) == [op |-> op, slot |-> slot, target |-> 0]
Op(op)      == I(op, 0)
Jcc(t)      == [op |-> "branch", slot |-> 0, target |-> t]
Prologue(s) == <<Op("load_canary"), I("store_canary", s)>>
Epilogue(s) == <<I("read_canary", s), Op("xor_canary"), Op("ret")>>

MCCode == [
  main    |-> <<Op("setjmp"), Op("call"), I("access", 2), Jcc(2), Op("ret")>>,
  \* two exits, the buffer used between the calls
  two     |-> Prologue(2) \o <<I("access", 3), Jcc(9), Op("call")>> \o Epilogue(2) \o Epilogue(2),
  \* overflows its buffer into its canary, then into the caller's frame
  over    |-> Prologue(2) \o <<Jcc(5), I("access", 2)>> \o Epilogue(2),
  beyond  |-> <<Op("other"), I("movq", -1), Op("ret")>>,
  \* leave by a jump
  chk     |-> Prologue(2) \o <<Op("longjmp_chk"), Op("call")>> \o Epilogue(2),
  jumper  |-> <<Jcc(4), Op("longjmp"), Op("ret"), Op("throw"), Op("ret")>>,
  \* setjmp while the canary is in place
  saver   |-> Prologue(2) \o <<Op("setjmp"), Op("call"), Jcc(4)>> \o Epilogue(2),
  \* newer compilers compare with sub; the store may be scheduled apart
  modern  |-> Prologue(2) \o <<I("read_canary", 2), Op("sub_canary"), Op("ret")>>,
  apart   |-> <<Op("load_canary"), Op("other"), I("store_canary", 2), Op("call")>> \o Epilogue(2) ]

MCSize == [main |-> 2, two |-> 3, over |-> 3, beyond |-> 2, chk |-> 3, jumper |-> 1, saver |-> 3,
           modern |-> 3, apart |-> 3]
=============================================================================
