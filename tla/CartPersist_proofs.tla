-------------------------- MODULE CartPersist_proofs --------------------------
(***************************************************************************)
(* Proofs about the cartridge, for every set of files and contents and     *)
(* every number of programs and failing writes, about its serial EEPROM,   *)
(* for every size of it and every number of stores, and about its flash,   *)
(* for every layout of sectors, time of an erase and lateness of an alarm. *)
(***************************************************************************)
EXTENDS CartChips, SequenceTheorems, FiniteSetTheorems, WellFoundedInduction, TLAPS

-----------------------------------------------------------------------------
(* What a host write does and leaves alone, for any medium.                *)

IsMedium(m) ==
    m # None => m.file \in File \cup {NoFile} /\ m.bytes \in Bytes

(* A write reaches the medium's own file or fails; other files stay.       *)
LEMMA WriteOutcome ==
    ASSUME HostTypeOK, NEW m, IsMedium(m), WriteOut(m)
    PROVE  /\ host' \in [File -> Bytes] /\ failures' \in 0 .. MaxFailures
           /\ ~Failed /\ Backed(m) => host'[m.file] = m.bytes
           /\ \A f \in File : ~(Backed(m) /\ m.file = f) => host'[f] = host[f]
           /\ failures' = 0 => ~Failed
<1>1. host \in [File -> Bytes] /\ failures \in 0 .. MaxFailures /\ MaxFailures \in Nat
  BY HostAssumption DEF HostTypeOK
<1>2. Backed(m) => m.file \in File /\ m.bytes \in Bytes
  BY DEF Backed, IsMedium
<1>3. CASE host' = Written(m) /\ failures' = failures
  BY <1>1, <1>2, <1>3 DEF Written, Failed, Backed
<1>4. CASE WriteFails(m)
  BY <1>1, <1>4 DEF WriteFails, Failed, Backed
<1> QED
  BY <1>3, <1>4 DEF WriteOut

(* A request that has read a file is one the type allows.                  *)
LEMMA ReadTyped ==
    ASSUME HostTypeOK, NEW kind \in {"mount", "ingress"}, NEW f \in File, ReadFile(kind, f)
    PROVE  HostTypeOK' /\ request' \in Request
<1>1. host[f] \in Bytes
  BY DEF HostTypeOK
<1> QED
  BY <1>1 DEF HostTypeOK, ReadFile, Request

-----------------------------------------------------------------------------
(* The medium of this component.                                           *)

LEMMA CartsAreMedia ==
    ASSUME TypeOK
    PROVE  IsMedium(cart) /\ IsMedium(inserted_cart) /\ IsMedium(request)
BY DEF TypeOK, HostTypeOK, Cart, Request, IsMedium

LEMMA InitTyped == Init => TypeOK
<1>1. 0 \in 0 .. MaxFailures /\ 0 \in 0 .. MaxGen
  BY HostAssumption, MaxGenAssumption
<1> QED
  BY <1>1 DEF Init, HostInit, TypeOK, HostTypeOK

(* What persist_cart_for_eject may do to the host.                         *)
LEMMA PersistOutcome ==
    ASSUME TypeOK, NEW c, IsMedium(c), PersistCart(c)
    PROVE  /\ host' \in [File -> Bytes] /\ failures' \in 0 .. MaxFailures
           /\ ~Failed /\ Dirty(c) /\ Backed(c) => host'[c.file] = c.bytes
           /\ ~Dirty(c) => host' = host
           /\ \A f \in File : ~(Backed(c) /\ c.file = f) => host'[f] = host[f]
<1>1. HostTypeOK
  BY DEF TypeOK
<1>2. CASE Dirty(c)
  BY <1>1, <1>2, WriteOutcome DEF PersistCart
<1>3. CASE ~Dirty(c)
  BY <1>1, <1>3 DEF PersistCart, HostTypeOK
<1> QED
  BY <1>2, <1>3

-----------------------------------------------------------------------------
(* Types.                                                                  *)

LEMMA NewTyped ==
    ASSUME NEW f \in File \cup {NoFile}, NEW b \in Bytes
    PROVE  New(f, b) \in Cart
<1>1. 0 \in 0 .. MaxGen
  BY MaxGenAssumption
<1> QED
  BY <1>1 DEF New, Cart

LEMMA NextTyped == TypeOK /\ [Next]_vars => TypeOK'
<1> SUFFICES ASSUME TypeOK, [Next]_vars PROVE TypeOK'
  OBVIOUS
<1> USE DEF TypeOK, HostTypeOK, writer
<1>1. ASSUME NEW b \in Bytes, CartWrites(b) PROVE TypeOK'
  <2>1. cart \in Cart /\ cart.gen < MaxGen /\ cart' = [cart EXCEPT !.bytes = b, !.gen = @ + 1]
    BY <1>1 DEF CartWrites
  <2>2. cart.gen + 1 \in 0 .. MaxGen
    BY <2>1, MaxGenAssumption DEF Cart
  <2>3. cart' \in Cart
    BY <2>1, <2>2 DEF Cart
  <2> QED
    BY <1>1, <2>3 DEF CartWrites
<1>2. CASE LoopCart
  <2>1. cart # None => cart.gen \in 0 .. MaxGen
    BY DEF Cart
  <2>2. CASE Moving /\ LoopSees
    BY <1>2, <2>1, <2>2 DEF LoopCart, LoopSees, Moving, Dirty
  <2>3. CASE Due /\ LoopWrites
    <3>1. host' \in [File -> Bytes] /\ failures' \in 0 .. MaxFailures
      BY <2>3, CartsAreMedia, WriteOutcome DEF LoopWrites
    <3> QED
      BY <1>2, <2>1, <2>3, <3>1 DEF LoopCart, LoopWrites, Due, Dirty
  <2> QED
    BY <1>2, <2>2, <2>3 DEF LoopCart
<1>3. CASE Settle
  BY <1>3 DEF Settle
<1>4. ASSUME NEW kind \in {"mount", "ingress"}, NEW f \in File, ReadCart(kind, f)
      PROVE  TypeOK'
  <2>1. HostTypeOK'
    BY <1>4, ReadTyped DEF ReadCart
  <2> QED
    BY <1>4, <2>1 DEF ReadCart
<1>5. CASE InsertCart
  <2>1. New(request.file, request.bytes) \in Cart
    BY <1>5, NewTyped DEF InsertCart, Request
  <2> QED
    BY <1>5, <2>1 DEF InsertCart, PowerCycledTo
<1>6. CASE IngressFile
  <2>1. New(request.file, request.bytes) \in Cart
    BY <1>6, NewTyped DEF IngressFile, Request
  <2> QED
    BY <1>6, <2>1 DEF IngressFile, IngressCart, PowerCycledTo
<1>7. ASSUME NEW b \in Bytes, IngressUpload(b) PROVE TypeOK'
  BY <1>7, NewTyped DEF IngressUpload, IngressCart, PowerCycledTo
<1>8. CASE EjectCart
  <2>1. host' \in [File -> Bytes] /\ failures' \in 0 .. MaxFailures
    BY <1>8, CartsAreMedia, PersistOutcome DEF EjectCart
  <2> QED
    BY <1>8, <2>1 DEF EjectCart, PowerCycledTo
<1>9. CASE PersistTake
  <2>1. [kind |-> "persist", file |-> cart.file, bytes |-> cart.bytes] \in Request
    BY <1>9 DEF PersistTake, Backed, Cart, Request
  <2> QED
    BY <1>9, <2>1 DEF PersistTake, Taken
<1>10. CASE PersistWrite
  <2>1. host' \in [File -> Bytes] /\ failures' \in 0 .. MaxFailures
    BY <1>10, CartsAreMedia, WriteOutcome DEF PersistWrite
  <2> QED
    BY <1>10, <2>1 DEF PersistWrite
<1>11. CASE PowerOff
  BY <1>11 DEF PowerOff
<1>12. CASE PowerOn
  BY <1>12 DEF PowerOn
<1>13. CASE ProjectSet
  <2>1. IsMedium(CartInside)
    BY CartsAreMedia DEF CartInside
  <2>2. host' \in [File -> Bytes] /\ failures' \in 0 .. MaxFailures
    BY <1>13, <2>1, PersistOutcome DEF ProjectSet
  <2> QED
    BY <1>13, <2>2 DEF ProjectSet, PowerCycledTo
<1>14. CASE Shutdown
  <2>1. host' \in [File -> Bytes] /\ failures' \in 0 .. MaxFailures
    BY <1>14, CartsAreMedia, PersistOutcome DEF Shutdown
  <2> QED
    BY <1>14, <2>1 DEF Shutdown
<1>15. CASE UNCHANGED vars
  BY <1>15 DEF vars
<1> QED
  BY <1>1, <1>2, <1>3, <1>4, <1>5, <1>6, <1>7, <1>8, <1>9, <1>10, <1>11, <1>12, <1>13,
     <1>14, <1>15 DEF Next

(* Every door, poll and power cycle keeps the types.                       *)
THEOREM CartTypeCorrect == Spec => []TypeOK
BY InitTyped, NextTyped, PTL DEF Spec

-----------------------------------------------------------------------------
(* Where a cartridge can be, and that its flash is on somebody's list.     *)

(* The registry is for a machine that is off.                              *)
RegistryWhenOff == IF powered THEN inserted_cart = None ELSE cart = None

(* The writer's last generation is none the cartridge has yet to reach,    *)
(* unless another cartridge left it.                                       *)
DoneIsBehind ==
    ~done_is_older /\ CartInside # None => cart_ap_done_gen <= CartInside.gen

(* A clean cartridge has nothing its file has not.                         *)
CleanIsSaved == ~parted /\ ~Dirty(CartInside) => Saved(CartInside)

IInv == TypeOK /\ RegistryWhenOff /\ DoneIsBehind /\ CleanIsSaved /\ NoFlashForgotten

LEMMA PartedStays == [Next]_vars /\ ~parted' => ~parted
BY Zenon DEF Next, vars, CartWrites, LoopCart, LoopSees, LoopWrites, Settle, ReadCart, ReadFile,
       InsertCart, IngressFile, IngressUpload, IngressCart, EjectCart, PersistTake, Taken,
       PersistWrite, PowerOff, PowerOn, ProjectSet, Shutdown

LEMMA NextRegistry == TypeOK /\ RegistryWhenOff /\ [Next]_vars => RegistryWhenOff'
<1> SUFFICES ASSUME TypeOK, RegistryWhenOff, [Next]_vars PROVE RegistryWhenOff'
  OBVIOUS
<1> USE DEF RegistryWhenOff
<1>1. ASSUME InsertCart \/ IngressFile \/ EjectCart \/ ProjectSet
             \/ \E b \in Bytes : IngressUpload(b)
      PROVE  RegistryWhenOff'
  BY <1>1 DEF InsertCart, IngressFile, IngressUpload, IngressCart, EjectCart, ProjectSet,
              PowerCycledTo
<1>2. CASE PowerOff
  BY <1>2 DEF PowerOff
<1>3. CASE PowerOn
  BY <1>3 DEF PowerOn
<1>4. ASSUME NEW b \in Bytes, CartWrites(b) PROVE RegistryWhenOff'
  BY <1>4 DEF CartWrites
<1>5. ASSUME NEW kind \in {"mount", "ingress"}, NEW f \in File, ReadCart(kind, f)
      PROVE  RegistryWhenOff'
  BY <1>5 DEF ReadCart, ReadFile
<1>6. CASE LoopCart \/ Settle \/ PersistTake \/ PersistWrite \/ Shutdown \/ UNCHANGED vars
  BY <1>6 DEF LoopCart, Settle, PersistTake, Taken, PersistWrite, Shutdown, vars
<1> QED
  BY <1>1, <1>2, <1>3, <1>4, <1>5, <1>6 DEF Next

LEMMA NextDone == TypeOK /\ RegistryWhenOff /\ DoneIsBehind /\ [Next]_vars => DoneIsBehind'
<1> SUFFICES ASSUME TypeOK, RegistryWhenOff, DoneIsBehind, [Next]_vars PROVE DoneIsBehind'
  OBVIOUS
<1> USE DEF DoneIsBehind, CartInside, writer
<1>1. ASSUME InsertCart \/ IngressFile \/ EjectCart \/ ProjectSet
             \/ \E b \in Bytes : IngressUpload(b)
      PROVE  DoneIsBehind'
  BY <1>1 DEF InsertCart, IngressFile, IngressUpload, IngressCart, EjectCart, ProjectSet,
              PowerCycledTo
<1>2. CASE PowerOff
  BY <1>2 DEF PowerOff
<1>3. CASE PowerOn
  BY <1>3 DEF PowerOn
<1>4. ASSUME NEW b \in Bytes, CartWrites(b) PROVE DoneIsBehind'
  <2>1. cart \in Cart /\ cart' = [cart EXCEPT !.bytes = b, !.gen = @ + 1] /\ powered
    BY <1>4 DEF CartWrites, TypeOK, RegistryWhenOff
  <2>2. cart.gen \in Nat /\ cart_ap_done_gen \in Nat /\ cart'.gen = cart.gen + 1
    BY <2>1, MaxGenAssumption DEF Cart, TypeOK
  <2>3. ~done_is_older => cart_ap_done_gen <= cart.gen
    BY <1>4, <2>1 DEF CartWrites
  <2>4. ~done_is_older => cart_ap_done_gen <= cart'.gen
    BY <2>2, <2>3
  <2> QED
    BY <1>4, <2>1, <2>4 DEF CartWrites
<1>5. CASE LoopCart
  <2>1. CASE LoopSees
    BY <1>5, <2>1 DEF LoopCart, LoopSees
  <2>2. CASE Due /\ LoopWrites
    <3>1. cart # None /\ cart.gen \in Nat /\ powered
      BY <2>2, MaxGenAssumption DEF Due, Dirty, TypeOK, Cart, RegistryWhenOff
    <3>2. UNCHANGED <<powered, cart>> /\ cart_ap_done_gen' = cart.gen
      BY <1>5, <2>2 DEF LoopCart, LoopWrites
    <3>3. cart.gen <= cart.gen
      BY <3>1
    <3> QED
      BY <3>1, <3>2, <3>3
  <2> QED
    BY <1>5, <2>1, <2>2 DEF LoopCart
<1>6. ASSUME NEW kind \in {"mount", "ingress"}, NEW f \in File, ReadCart(kind, f)
      PROVE  DoneIsBehind'
  BY <1>6 DEF ReadCart, ReadFile
<1>7. CASE Settle \/ PersistTake \/ PersistWrite \/ Shutdown \/ UNCHANGED vars
  BY <1>7 DEF Settle, PersistTake, Taken, PersistWrite, Shutdown, vars
<1> QED
  BY <1>1, <1>2, <1>3, <1>4, <1>5, <1>6, <1>7 DEF Next

(* A write of the loop or of media/persist leaves a cartridge that was     *)
(* saved as it was.                                                        *)
LEMMA LateWriteKeepsSaved ==
    ASSUME TypeOK, RegistryWhenOff, ~parted', PersistWrite
    PROVE  /\ Saved(CartInside) \/ BeingSaved(CartInside) => Saved(CartInside)'
           /\ UNCHANGED <<powered, cart, inserted_cart, cart_ap_done_gen, done_is_older>>
           /\ ~parted
<1>1. ~parted /\ ~Failed /\ ~NewerThan(request)
  BY DEF PersistWrite
<1>2. WriteOut(request) /\ HostTypeOK /\ IsMedium(request) /\ Backed(request)
  BY CartsAreMedia, HostAssumption DEF PersistWrite, TypeOK, HostTypeOK, Request, Backed
<1>3. /\ host'[request.file] = request.bytes
      /\ \A f \in File : request.file # f => host'[f] = host[f]
  BY <1>1, <1>2, WriteOutcome
<1>4. CartInside # None /\ CartInside.file = request.file => CartInside.bytes = request.bytes
  BY <1>1 DEF NewerThan
<1>5. Backed(CartInside) => CartInside.file \in File
  BY DEF Backed, CartInside, TypeOK, Cart
<1>6. UNCHANGED <<powered, cart, inserted_cart, writer, done_is_older>>
  BY DEF PersistWrite
<1>7. Saved(CartInside) \/ BeingSaved(CartInside) =>
        (Backed(CartInside) => host'[CartInside.file] = CartInside.bytes)
  BY <1>3, <1>4, <1>5 DEF Saved, BeingSaved, Backed
<1> QED
  BY <1>1, <1>6, <1>7 DEF CartInside, Saved, Backed, writer

LEMMA LoopSaves ==
    ASSUME TypeOK, RegistryWhenOff, ~parted', Due, LoopCart, LoopWrites
    PROVE  /\ powered /\ powered' /\ inserted_cart' = None /\ cart' = cart
           /\ Saved(cart)' /\ Dirty(cart)
<1>1. Dirty(cart) /\ powered /\ inserted_cart = None
  BY DEF Due, Dirty, RegistryWhenOff, TypeOK, HostTypeOK
<1>2. WriteOut(cart) /\ ~Failed /\ HostTypeOK /\ IsMedium(cart)
  BY CartsAreMedia DEF LoopWrites, TypeOK
<1> QED
  BY <1>1, <1>2, WriteOutcome DEF LoopCart, Saved, Backed

LEMMA NextClean ==
    TypeOK /\ RegistryWhenOff /\ CleanIsSaved /\ [Next]_vars => CleanIsSaved'
<1> SUFFICES ASSUME TypeOK, RegistryWhenOff, CleanIsSaved, [Next]_vars, ~parted'
             PROVE  CleanIsSaved'
  BY DEF CleanIsSaved
<1>0. ~parted
  BY PartedStays
<1> USE DEF CleanIsSaved, CartInside, RegistryWhenOff, Saved, Backed, Dirty, writer
<1>1. CASE InsertCart
  BY <1>1 DEF InsertCart, PowerCycledTo
<1>2. ASSUME NEW c, IngressCart(c) PROVE CleanIsSaved'
  BY <1>0, <1>2 DEF IngressCart, PowerCycledTo
<1>3. CASE EjectCart \/ ProjectSet
  BY <1>3 DEF EjectCart, ProjectSet, PowerCycledTo
<1>4. CASE PowerOff
  BY <1>0, <1>4 DEF PowerOff
<1>5. CASE PowerOn
  BY <1>0, <1>5 DEF PowerOn
<1>6. ASSUME NEW b \in Bytes, CartWrites(b) PROVE CleanIsSaved'
  <2>1. cart \in Cart /\ cart' = [cart EXCEPT !.bytes = b, !.gen = @ + 1] /\ powered
    BY <1>6 DEF CartWrites, TypeOK
  <2>2. cart.gen \in Nat /\ cart'.gen = cart.gen + 1
    BY <2>1, MaxGenAssumption DEF Cart
  <2>3. cart'.gen # 0
    BY <2>2
  <2>4. cart.gen + 1 \in 0 .. MaxGen
    BY <1>6, <2>2, MaxGenAssumption DEF CartWrites
  <2>5. cart' \in Cart
    BY <2>1, <2>4 DEF Cart
  <2>6. cart' # None
    BY <2>5, CartAssumption
  <2> QED
    BY <1>6, <2>1, <2>3, <2>6 DEF CartWrites
<1>7. CASE LoopCart
  <2>1. CASE LoopSees
    BY <1>0, <1>7, <2>1 DEF LoopCart, LoopSees
  <2>2. CASE Due /\ LoopWrites
    BY <1>7, <2>2, LoopSaves
  <2> QED
    BY <1>7, <2>1, <2>2 DEF LoopCart
<1>8. ASSUME NEW kind \in {"mount", "ingress"}, NEW f \in File, ReadCart(kind, f)
      PROVE  CleanIsSaved'
  BY <1>0, <1>8 DEF ReadCart, ReadFile
<1>9. CASE PersistWrite
  BY <1>9, LateWriteKeepsSaved
<1>10. CASE Settle \/ PersistTake \/ UNCHANGED vars
  BY <1>0, <1>10 DEF Settle, PersistTake, Taken, vars
<1>11. CASE Shutdown
  <2>1. PersistCart(cart) /\ IsMedium(cart) /\ UNCHANGED <<powered, cart, inserted_cart>>
    BY <1>11, CartsAreMedia DEF Shutdown
  <2>2. ~Dirty(cart) => host' = host
    BY <2>1, PersistOutcome
  <2>3. CASE powered
    BY <1>0, <2>1, <2>2, <2>3
  <2>4. CASE ~powered
    <3>1. host' = host
      BY <2>2, <2>4
    <3> QED
      BY <1>0, <2>1, <2>4, <3>1
  <2> QED
    BY <2>3, <2>4
<1> QED
  BY <1>1, <1>2, <1>3, <1>4, <1>5, <1>6, <1>7, <1>8, <1>9, <1>10, <1>11
  DEF Next, IngressFile, IngressUpload

LEMMA NextForgetsNothing == IInv /\ [Next]_vars => NoFlashForgotten'
<1> SUFFICES ASSUME IInv, [Next]_vars, ~parted' PROVE NoFlashForgotten'
  BY DEF NoFlashForgotten
<1>0. ~parted /\ TypeOK /\ RegistryWhenOff /\ CleanIsSaved /\ DoneIsBehind
  BY PartedStays DEF IInv
<1>a. \A c \in {cart, inserted_cart} :
          Saved(c) \/ NotDone(c) \/ BeingSaved(c) \/ LooksDone(c)
  BY <1>0 DEF IInv, NoFlashForgotten
<1> USE DEF NoFlashForgotten, RegistryWhenOff, Saved, Backed, NotDone, LooksDone, Dirty, BeingSaved, writer
<1>1. CASE InsertCart
  BY <1>1 DEF InsertCart, PowerCycledTo
<1>2. ASSUME NEW c, IngressCart(c), UNCHANGED request \/ request.kind # "persist"
      PROVE  NoFlashForgotten'
  BY <1>0, <1>2, <1>a DEF IngressCart, PowerCycledTo
<1>3. CASE EjectCart \/ ProjectSet
  BY <1>3 DEF EjectCart, ProjectSet, PowerCycledTo
<1>4. CASE PowerOff
  BY <1>4, <1>a DEF PowerOff
<1>5. CASE PowerOn
  BY <1>5, <1>a DEF PowerOn
<1>6. ASSUME NEW b \in Bytes, CartWrites(b) PROVE NoFlashForgotten'
  <2>1. /\ cart \in Cart /\ cart' = [cart EXCEPT !.bytes = b, !.gen = @ + 1]
        /\ powered /\ inserted_cart = None
    BY <1>0, <1>6 DEF CartWrites, TypeOK
  <2>2. cart.gen \in Nat /\ cart'.gen = cart.gen + 1 /\ cart_ap_done_gen \in Nat
    BY <1>0, <2>1, MaxGenAssumption DEF Cart, TypeOK
  <2>3. ~done_is_older => cart_ap_done_gen <= cart.gen
    BY <1>0, <1>6, <2>1 DEF DoneIsBehind, CartInside, CartWrites
  <2>4. cart'.gen # 0 /\ (~done_is_older => cart'.gen # cart_ap_done_gen)
    BY <2>2, <2>3
  <2> QED
    BY <1>6, <2>1, <2>4 DEF CartWrites
<1>7. CASE LoopCart
  <2>1. CASE LoopSees
    BY <1>7, <1>a, <2>1 DEF LoopCart, LoopSees
  <2>2. CASE Due /\ LoopWrites
    BY <1>0, <1>7, <2>2, LoopSaves
  <2> QED
    BY <1>7, <2>1, <2>2 DEF LoopCart
<1>8. ASSUME NEW kind \in {"mount", "ingress"}, NEW f \in File, ReadCart(kind, f)
      PROVE  NoFlashForgotten'
  BY <1>8, <1>a DEF ReadCart, ReadFile
<1>9. CASE PersistWrite
  BY <1>0, <1>9, <1>a, LateWriteKeepsSaved DEF CartInside
<1>10. CASE Settle \/ UNCHANGED vars
  BY <1>10, <1>a DEF Settle, vars
<1>11. CASE PersistTake
  <2>1. request = None /\ UNCHANGED <<cart, inserted_cart, host, writer, done_is_older>>
    BY <1>11 DEF PersistTake, Taken
  <2>2. \A c \in {cart, inserted_cart} : Saved(c) \/ NotDone(c) \/ LooksDone(c)
    BY <1>a, <2>1
  <2> QED
    BY <2>1, <2>2
<1>12. CASE Shutdown
  <2>1. PersistCart(cart) /\ IsMedium(cart)
    BY <1>0, <1>12, CartsAreMedia DEF Shutdown
  <2>2. /\ ~Failed /\ Dirty(cart) /\ Backed(cart) => host'[cart.file] = cart.bytes
        /\ ~Dirty(cart) => host' = host
    BY <1>0, <2>1, PersistOutcome
  <2>3. UNCHANGED <<powered, cart, inserted_cart, writer, done_is_older, request>> /\ ~Failed
    BY <1>12 DEF Shutdown
  <2>4. CASE Dirty(cart)
    <3>1. powered /\ inserted_cart = None
      BY <1>0, <2>4
    <3> QED
      BY <2>2, <2>3, <2>4, <3>1
  <2>5. CASE ~Dirty(cart)
    <3>1. host' = host
      BY <2>2, <2>5
    <3> QED
      BY <1>a, <2>3, <3>1
  <2> QED
    BY <2>4, <2>5
<1>13. CASE IngressFile
  BY <1>2, <1>13 DEF IngressFile
<1>14. ASSUME NEW b \in Bytes, IngressUpload(b) PROVE NoFlashForgotten'
  BY <1>2, <1>14 DEF IngressUpload
<1> QED
  BY <1>1, <1>3, <1>4, <1>5, <1>6, <1>7, <1>8, <1>9, <1>10, <1>11, <1>12, <1>13, <1>14
  DEF Next

LEMMA InitInvariant == Init => IInv
BY InitTyped DEF Init, HostInit, IInv, RegistryWhenOff, DoneIsBehind, CleanIsSaved,
   NoFlashForgotten, CartInside, Saved, Backed

LEMMA NextInvariant == IInv /\ [Next]_vars => IInv'
BY NextTyped, NextRegistry, NextDone, NextClean, NextForgetsNothing DEF IInv

(* stream_maybe_autopersist_cart and the doors: a cartridge whose flash is *)
(* not in its file is one the writer does not take for written, is being   *)
(* saved, or stands at the generation last written for a cartridge before  *)
(* it -- the one case in which the writer does take it for written.        *)
THEOREM NoFlashIsForgotten == Spec => []NoFlashForgotten
<1>1. IInv => NoFlashForgotten
  BY DEF IInv
<1> QED
  BY <1>1, InitInvariant, NextInvariant, PTL DEF Spec

-----------------------------------------------------------------------------
(* The exit and the doors.                                                 *)

LEMMA NextExitSaves == IInv /\ ExitSavesCart /\ [Next]_vars => ExitSavesCart'
<1> SUFFICES ASSUME IInv, ExitSavesCart, [Next]_vars, exited', powered', ~parted'
             PROVE  Saved(cart)'
  BY DEF ExitSavesCart
<1>0. ~parted /\ TypeOK /\ CleanIsSaved
  BY PartedStays DEF IInv
<1>1. CASE Shutdown
  <2>1. PersistCart(cart) /\ IsMedium(cart) /\ ~Failed /\ UNCHANGED <<powered, cart>>
    BY <1>0, <1>1, CartsAreMedia DEF Shutdown
  <2>2. /\ Dirty(cart) /\ Backed(cart) => host'[cart.file] = cart.bytes
        /\ ~Dirty(cart) => host' = host
    BY <1>0, <2>1, PersistOutcome
  <2>3. ~Dirty(cart) => Saved(cart)
    BY <1>0, <2>1 DEF CleanIsSaved, CartInside
  <2> QED
    BY <2>1, <2>2, <2>3 DEF Saved, Backed
<1>2. CASE UNCHANGED vars
  BY <1>2 DEF vars, ExitSavesCart, Saved, Backed
<1>3. Next => ~exited
  BY DEF Next, CartWrites, LoopCart, Settle, ReadCart, ReadFile, InsertCart, IngressFile,
     IngressUpload, EjectCart, PersistTake, PersistWrite, PowerOff, PowerOn, ProjectSet, Shutdown
<1>4. Next /\ ~Shutdown => exited' = exited
  BY DEF Next, CartWrites, LoopCart, Settle, ReadCart, ReadFile, InsertCart, IngressFile,
     IngressUpload, IngressCart, EjectCart, PersistTake, Taken, PersistWrite, PowerOff, PowerOn,
     ProjectSet
<1> QED
  BY <1>1, <1>2, <1>3, <1>4

(* shutdown_now: a daemon that ends with its machine on has kept the flash.*)
THEOREM DaemonExitSavesCart == Spec => []ExitSavesCart
<1>1. Init => ExitSavesCart
  BY DEF Init, HostInit, ExitSavesCart
<1> QED
  BY <1>1, InitInvariant, NextInvariant, NextExitSaves, PTL DEF Spec

LEMMA LeavingIsSaved ==
    ASSUME IInv, [Next]_vars, ~parted', NEW f \in File, Inside(f), ~Inside(f)'
    PROVE  host'[f] = CartInside.bytes
<1> DEFINE c == CartInside
<1>0. ~parted /\ TypeOK /\ RegistryWhenOff /\ CleanIsSaved
  BY PartedStays DEF IInv
<1>1. c # None /\ c.file = f /\ Backed(c) /\ IsMedium(c)
  BY <1>0, CartsAreMedia, HostAssumption DEF Inside, CartInside, Backed
<1>2. ~Dirty(c) => Saved(c)
  BY <1>0 DEF CleanIsSaved
<1>3. ASSUME PersistCart(c), ~Failed PROVE host'[f] = c.bytes
  BY <1>0, <1>1, <1>2, <1>3, PersistOutcome DEF Saved
<1>4. ASSUME host' = host, Saved(c) PROVE host'[f] = c.bytes
  BY <1>1, <1>4 DEF Saved
<1>5. ASSUME CartInside' = c PROVE FALSE
  BY <1>5 DEF Inside
<1> USE DEF CartInside, writer
<1>6. CASE InsertCart
  BY <1>4, <1>6 DEF InsertCart
<1>7. ASSUME NEW d, IngressCart(d) PROVE host'[f] = c.bytes
  <2>1. CASE powered
    BY <1>4, <1>7, <2>1 DEF IngressCart
  <2>2. CASE ~powered
    BY <1>5, <1>7, <2>2 DEF IngressCart, PowerCycledTo
  <2> QED
    BY <2>1, <2>2
<1>8. CASE EjectCart
  <2>1. CASE powered
    BY <1>3, <1>8, <2>1 DEF EjectCart
  <2>2. CASE ~powered
    <3>1. cart = None /\ Saved(inserted_cart)
      BY <1>0, <1>8, <2>2 DEF EjectCart, RegistryWhenOff
    <3>2. host' = host
      BY <1>8, <3>1 DEF EjectCart, PersistCart, Dirty
    <3> QED
      BY <1>4, <2>2, <3>1, <3>2
  <2> QED
    BY <2>1, <2>2
<1>9. CASE ProjectSet
  BY <1>3, <1>9 DEF ProjectSet
<1>10. CASE PowerOff
  BY <1>5, <1>10 DEF PowerOff
<1>11. CASE PowerOn
  BY <1>5, <1>11 DEF PowerOn
<1>12. ASSUME NEW b \in Bytes, CartWrites(b) PROVE FALSE
  <2>1. /\ cart \in Cart /\ cart' = [cart EXCEPT !.bytes = b, !.gen = @ + 1]
        /\ powered /\ powered'
    BY <1>0, <1>12 DEF CartWrites, TypeOK, HostTypeOK, RegistryWhenOff
  <2>2. cart.gen \in 0 .. MaxGen /\ cart.gen < MaxGen /\ MaxGen \in Nat
    BY <1>12, <2>1, MaxGenAssumption DEF CartWrites, Cart
  <2>3. cart.gen + 1 \in 0 .. MaxGen
    BY <2>2
  <2>4. cart' \in Cart /\ cart'.file = cart.file
    BY <2>1, <2>3 DEF Cart
  <2> QED
    BY <1>1, <2>1, <2>4, CartAssumption DEF Inside
<1>13. ASSUME NEW kind \in {"mount", "ingress"}, NEW g \in File, ReadCart(kind, g) PROVE FALSE
  BY <1>5, <1>13 DEF ReadCart, ReadFile
<1>14. CASE LoopCart \/ Settle \/ PersistTake \/ PersistWrite \/ Shutdown \/ UNCHANGED vars
  BY <1>5, <1>14 DEF LoopCart, Settle, PersistTake, Taken, PersistWrite, Shutdown, vars
<1> QED
  BY <1>6, <1>7, <1>8, <1>9, <1>10, <1>11, <1>12, <1>13, <1>14
  DEF Next, IngressFile, IngressUpload

(* unmount, project/set and the power switch: a cartridge that is nowhere  *)
(* any more left its flash in its file.                                    *)
THEOREM CartsLeaveSaved == Spec => CartLeavesSaved
<1>1. IInv /\ [Next]_vars =>
        [\A f \in File : (~parted' /\ Inside(f) /\ ~Inside(f)')
            => host'[f] = CartInside.bytes]_vars
  BY LeavingIsSaved
<1> QED
  BY <1>1, InitInvariant, NextInvariant, PTL DEF Spec, CartLeavesSaved

(* No flash is lost to a generation of its own cartridge that was taken    *)
(* for written, nor to the end of the daemon.                              *)
THEOREM NoFlashIsLost == Spec => []NoFlashLost
<1>1. NoFlashForgotten /\ ExitSavesCart => NoFlashLost
  BY DEF NoFlashLost
<1> QED
  BY <1>1, NoFlashIsForgotten, DaemonExitSavesCart, PTL

-----------------------------------------------------------------------------
(* Numbers.                                                                *)

(* A set of numbers that is not empty has a least element: what stands for *)
(* induction here.                                                         *)
LEMMA LeastElement ==
    ASSUME NEW T \in SUBSET Nat, T # {}
    PROVE  \E x \in T : \A y \in T : x <= y
<1> DEFINE Less == OpToRel(<, Nat)
<1>1. \A x, y \in Nat : <<y, x>> \in Less <=> y < x
  BY DEF OpToRel
<1>2. IsWellFoundedOn(Less, Nat) /\ T \subseteq Nat /\ \E t : t \in T
  BY NatLessThanWellFounded
<1> HIDE DEF Less
<1>3. PICK x \in T : \A y \in T : ~(<<y, x>> \in Less)
  BY <1>2, WFMin
<1>4. ASSUME NEW y \in T PROVE x <= y
  <2>1. x \in Nat /\ y \in Nat /\ ~(y < x)
    BY <1>1, <1>3
  <2> QED
    BY <2>1
<1> QED
  BY <1>4

(* Induction over the numbers up to a bound, as a fact about a set of      *)
(* them.                                                                   *)
LEMMA Counting ==
    ASSUME NEW m \in Nat, NEW S, 0 \in S, \A n \in 0 .. m - 1 : n \in S => n + 1 \in S
    PROVE  \A n \in 0 .. m : n \in S
<1> DEFINE T == {n \in 0 .. m : n \notin S}
<1>1. SUFFICES ASSUME T # {} PROVE FALSE
  OBVIOUS
<1>2. PICK k \in T : \A y \in T : k <= y
  <2>1. T \in SUBSET Nat
    OBVIOUS
  <2> QED
    BY <1>1, <2>1, LeastElement
<1>3. k # 0 /\ k \in 0 .. m
  BY <1>2
<1>4. k - 1 \in 0 .. m - 1 /\ k - 1 \in 0 .. m /\ ~(k <= k - 1)
  BY <1>3
<1>5. k - 1 \in S
  BY <1>2, <1>4
<1>6. k - 1 + 1 \in S
  BY <1>4, <1>5
<1> QED
  BY <1>2, <1>3, <1>6

(* A number by a divisor: its quotient and its remainder, and no others.   *)
LEMMA Divided ==
    ASSUME NEW w \in Nat \ {0}, NEW k \in Nat
    PROVE  k % w \in 0 .. w - 1 /\ k \div w \in Nat /\ k = w * (k \div w) + (k % w)
<1>1. k % w \in 0 .. w - 1 /\ k = w * (k \div w) + (k % w)
  OBVIOUS
<1>2. k \div w \in Int
  OBVIOUS
<1>3. PICK d \in Int : d = k \div w
  BY <1>2
<1>4. ~(d <= -1)
  <2>1. d <= -1 => w * d <= -w
    BY <1>3
  <2>2. k = w * d + (k % w)
    BY <1>1, <1>3
  <2> QED
    BY <1>1, <2>1, <2>2
<1> QED
  BY <1>1, <1>3, <1>4

(* What is w times q and r more has that quotient and that remainder.      *)
LEMMA DividedBy ==
    ASSUME NEW w \in Nat \ {0}, NEW k \in Nat, NEW q \in Nat, NEW r \in 0 .. w - 1,
           k = w * q + r
    PROVE  k % w = r /\ k \div w = q
OBVIOUS

(* Going round: one further than a place that is reduced already.          *)
LEMMA Around ==
    ASSUME NEW n \in Nat \ {0}, NEW x \in Nat
    PROVE  ((x % n) + 1) % n = (x + 1) % n
<1>1. PICK q, r : q = x \div n /\ r = x % n
  OBVIOUS
<1>2. q \in Nat /\ r \in 0 .. n - 1 /\ x = n * q + r
  BY <1>1, Divided
<1>3. CASE r + 1 < n
  <2>1. x + 1 = n * q + (r + 1) /\ r + 1 \in 0 .. n - 1 /\ r + 1 = n * 0 + (r + 1)
    BY <1>2, <1>3
  <2>2. (x + 1) % n = r + 1
    BY <1>2, <2>1, DividedBy
  <2>3. (r + 1) % n = r + 1
    BY <1>2, <2>1, DividedBy
  <2> QED
    BY <1>1, <2>2, <2>3
<1>4. CASE r + 1 = n
  <2>1. n * (q + 1) = n * q + n
    BY <1>2
  <2>2. x + 1 = n * (q + 1) + 0 /\ q + 1 \in Nat /\ 0 \in 0 .. n - 1 /\ n = n * 1 + 0
    BY <1>2, <1>4, <2>1
  <2>3. (x + 1) % n = 0
    BY <2>2, DividedBy
  <2>4. n % n = 0
    BY <2>2, DividedBy
  <2> QED
    BY <1>1, <1>4, <2>3, <2>4
<1> QED
  BY <1>2, <1>3, <1>4

(* The bits of n words of w, one after the other and from the last to the  *)
(* first again: which bit of which word comes after bit k, if the words    *)
(* are counted from a on.                                                  *)
ComesNext(w, n, a, k, m) ==
    /\ m \in 0 .. n * w - 1 /\ (m - 1) % (n * w) = k
    /\ k % w \in 0 .. w - 1 /\ k \div w \in Nat
    /\ (k % w) + 1 < w => m % w = (k % w) + 1 /\ m \div w = k \div w
    /\ (k % w) + 1 = w => m % w = 0 /\ (a + m \div w) % n = (((a + k \div w) % n) + 1) % n

LEMMA NextBit ==
    ASSUME NEW w \in Nat \ {0}, NEW n \in Nat \ {0}, NEW a \in Nat, NEW k \in 0 .. n * w - 1
    PROVE  ComesNext(w, n, a, k, (k + 1) % (n * w))
<1> DEFINE m == (k + 1) % (n * w)
<1>0. PICK t : t = n * w
  OBVIOUS
<1>1. PICK q, r : q = k \div w /\ r = k % w
  OBVIOUS
<1>2. t \in Nat \ {0} /\ k \in 0 .. t - 1 /\ k \in Nat
  BY <1>0
<1>3. q \in Nat /\ r \in 0 .. w - 1 /\ k = w * q + r
  BY <1>1, <1>2, Divided
<1>4. m = (k + 1) % t
  BY <1>0
<1> HIDE DEF m
<1>5. m = IF k + 1 = t THEN 0 ELSE k + 1
  <2>1. k + 1 # t => k + 1 \in 0 .. t - 1 /\ k + 1 = t * 0 + (k + 1)
    BY <1>2
  <2>2. k + 1 = t => k + 1 = t * 1 + 0 /\ 0 \in 0 .. t - 1
    BY <1>2
  <2> QED
    BY <1>2, <1>4, <2>1, <2>2, DividedBy
<1>6. m \in 0 .. t - 1 /\ (m - 1) % t = k
  <2>1. CASE k + 1 # t
    <3>1. m - 1 = k /\ k = t * 0 + k
      BY <1>2, <1>5, <2>1
    <3>2. k % t = k
      BY <1>2, <3>1, DividedBy
    <3> QED
      BY <1>2, <1>5, <2>1, <3>1, <3>2
  <2>2. CASE k + 1 = t
    <3>1. m - 1 = -1 /\ k = t - 1 /\ -1 = t * (-1) + (t - 1)
      BY <1>2, <1>5, <2>2
    <3>2. (-1) % t = t - 1
      BY <1>2
    <3> QED
      BY <1>2, <1>5, <2>2, <3>1, <3>2
  <2> QED
    BY <2>1, <2>2
<1>7. r + 1 < w => m % w = r + 1 /\ m \div w = q
  <2>0. SUFFICES ASSUME r + 1 < w PROVE m % w = r + 1 /\ m \div w = q
    OBVIOUS
  <2>1. k + 1 # t
    <3>1. SUFFICES ASSUME k + 1 = t PROVE FALSE
      OBVIOUS
    <3>2. w * n = w * q + (r + 1) /\ w * n = n * w
      BY <1>0, <1>2, <1>3, <3>1
    <3>3. w * n = w * n + 0 /\ n \in Nat /\ 0 \in 0 .. w - 1 /\ r + 1 \in 0 .. w - 1
      BY <1>3, <2>0
    <3>4. w * n \in Nat
      OBVIOUS
    <3>5. (w * n) % w = 0 /\ (w * n) % w = r + 1
      BY <1>3, <3>2, <3>3, <3>4, DividedBy
    <3> QED
      BY <1>3, <3>5
  <2>2. m = w * q + (r + 1) /\ m \in Nat /\ r + 1 \in 0 .. w - 1
    BY <1>2, <1>3, <1>5, <2>0, <2>1
  <2>3. m % w = r + 1 /\ m \div w = q
    BY <1>3, <2>2, DividedBy
  <2> QED
    BY <2>3
<1>8. r + 1 = w => m % w = 0 /\ (a + m \div w) % n = (((a + q) % n) + 1) % n
  <2>0. SUFFICES ASSUME r + 1 = w
                 PROVE  m % w = 0 /\ (a + m \div w) % n = (((a + q) % n) + 1) % n
    OBVIOUS
  <2>1. k + 1 = w * (q + 1) + 0 /\ q + 1 \in Nat /\ 0 \in 0 .. w - 1
    <3>1. w * (q + 1) = w * q + w
      BY <1>3
    <3> QED
      BY <1>2, <1>3, <2>0, <3>1
  <2>2. a + q \in Nat
    BY <1>3
  <2>3. (((a + q) % n) + 1) % n = (a + q + 1) % n
    BY <2>2, Around
  <2>4. CASE k + 1 # t
    <3>1. m % w = 0 /\ m \div w = q + 1
      BY <1>2, <1>5, <2>1, <2>4, DividedBy
    <3>2. a + (q + 1) = a + q + 1
      BY <1>3
    <3> QED
      BY <2>3, <3>1, <3>2
  <2>5. CASE k + 1 = t
    <3>1. m = w * 0 + 0 /\ m = 0
      BY <1>5, <2>5
    <3>2. m % w = 0 /\ m \div w = 0
      BY <2>1, <3>1, DividedBy
    <3>3. q + 1 = n
      <4>1. PICK j : j = t
        OBVIOUS
      <4>2. j \in Nat /\ j = w * n + 0 /\ j = w * (q + 1) + 0
        BY <1>0, <1>2, <2>1, <2>5, <4>1
      <4>3. j \div w = n /\ j \div w = q + 1
        BY <2>1, <4>2, DividedBy
      <4> QED
        BY <4>3
    <3>4. (a + n) % n = a % n
      <4>1. PICK p, s : p = a \div n /\ s = a % n
        OBVIOUS
      <4>2. p \in Nat /\ s \in 0 .. n - 1 /\ a = n * p + s
        BY <4>1, Divided
      <4>3. n * (p + 1) = n * p + n
        BY <4>2
      <4>4. a + n = n * (p + 1) + s /\ p + 1 \in Nat
        BY <4>2, <4>3
      <4>5. (a + n) % n = s
        BY <4>2, <4>4, DividedBy
      <4> QED
        BY <4>1, <4>5
    <3>5. a + q + 1 = a + n /\ a + 0 = a
      BY <1>3, <3>3
    <3>6. (a + m \div w) % n = (((a + q) % n) + 1) % n
      BY <2>3, <3>2, <3>4, <3>5
    <3> QED
      BY <3>2, <3>6
  <2> QED
    BY <2>4, <2>5
<1>9. ComesNext(w, n, a, k, m)
  BY <1>0, <1>1, <1>3, <1>6, <1>7, <1>8 DEF ComesNext
<1> QED
  BY <1>9 DEF m

-----------------------------------------------------------------------------
(* The serial EEPROM: what is stored.                                      *)

(* A chip with its fields, and the types the frames need.                  *)
IsEeprom(c) ==
    /\ DOMAIN c = {"cs", "clock", "data_out", "input", "output", "output_count",
                   "command", "addr", "write_enable", "data", "generation"}
    /\ c.cs \in {0, 1} /\ c.clock \in {0, 1} /\ c.input \in Seq({0, 1})
    /\ c.write_enable \in BOOLEAN

(* The commands under which a chip gives bits, and a frame that asks it to. *)
GivesBits == {"readdummy", "readdata"}
IsRead(f) == Serial!Whole(f) /\ Serial!Command(f) = "read"

(* A chip holds a frame until it is whole, and knows by its command how    *)
(* far that has come.                                                      *)
Follows(c, f) ==
    /\ c.input = IF Serial!Whole(f) THEN << >> ELSE f
    /\ Len(f) <= Serial!DataFrame
    /\ c.command \in GivesBits <=> IsRead(f)
    /\ ~Serial!Whole(f) /\ Len(f) \in {3, 4} => c.command = Serial!Opcode(SubSeq(f, 1, 3))
    /\ ~Serial!Whole(f) /\ Len(f) >= 5 =>
         /\ c.command = Serial!Command(f)
         /\ c.command = "enable" => c.write_enable

SerialInv ==
    /\ IsEeprom(eeprom)
    /\ frame \in Seq({0, 1}) /\ cut \in BOOLEAN
    /\ unlocked = eeprom.write_enable
    /\ cut => frame = << >>
    /\ eeprom.cs = 0 => eeprom.command \notin Serial!Reads /\ frame = << >>
    /\ ~cut => Follows(eeprom, frame)

(* How long the frames of an address and of data are (MAX bits).           *)
LEMMA Sizes == /\ Serial!AddressFrame \in Nat /\ Serial!AddressFrame > 5
               /\ Serial!DataFrame \in Nat /\ Serial!DataFrame > Serial!AddressFrame + 1
               /\ Serial!Reads = {"read"} \cup GivesBits
BY ChipsAssumption DEF Serial!ChipAssumption, Serial!AddressFrame, Serial!DataFrame,
   Serial!WordBits, Serial!Reads, GivesBits

(* One more bit changes no part of what came before it.                    *)
LEMMA SubSeqOfAppend ==
    ASSUME NEW f \in Seq({0, 1}), NEW b \in {0, 1}, NEW m \in Nat \ {0}, NEW n \in 0 .. Len(f)
    PROVE  SubSeq(Append(f, b), m, n) = SubSeq(f, m, n)
OBVIOUS

(* So the command of a frame stays while the frame grows.                  *)
LEMMA CommandStays ==
    ASSUME NEW f \in Seq({0, 1}), NEW b \in {0, 1}
    PROVE  /\ Len(f) >= 3 => SubSeq(Append(f, b), 1, 3) = SubSeq(f, 1, 3)
           /\ Len(f) >= 5 => Serial!Command(Append(f, b)) = Serial!Command(f)
<1>1. Len(f) >= 3 => SubSeq(Append(f, b), 1, 3) = SubSeq(f, 1, 3)
  BY SubSeqOfAppend
<1>2. Len(f) >= 5 => SubSeq(Append(f, b), 4, 5) = SubSeq(f, 4, 5)
  BY SubSeqOfAppend
<1>3. Len(f) >= 5 => Serial!SubOpcode(Append(f, b)) = Serial!SubOpcode(f)
  BY <1>2 DEF Serial!SubOpcode
<1>4. Len(f) >= 5 => Len(f) >= 3
  OBVIOUS
<1> QED
  BY <1>1, <1>3, <1>4 DEF Serial!Command

(* The commands a frame can give; none of them is a state of a busy chip.  *)
LEMMA Opcodes ==
    ASSUME NEW f
    PROVE  /\ Serial!Opcode(f) \in {"cmd00", "write", "read", "erase"}
           /\ Serial!SubOpcode(f) \in {"disable", "writeall", "eraseall", "enable"}
           /\ Serial!Command(f) \in {"write", "read", "erase", "disable", "writeall",
                                     "eraseall", "enable"}
<1>1. Serial!Opcode(f) \in {"cmd00", "write", "read", "erase"}
  BY DEF Serial!Opcode
<1>2. Serial!SubOpcode(f) \in {"disable", "writeall", "eraseall", "enable"}
  BY DEF Serial!SubOpcode
<1>3. Serial!Opcode(SubSeq(f, 1, 3)) \in {"cmd00", "write", "read", "erase"}
  BY DEF Serial!Opcode
<1> QED
  BY <1>1, <1>2, <1>3 DEF Serial!Command

(* d obeys a frame g as c did f.                                           *)
Obeys(c, f, d, g) ==
    /\ IsEeprom(d) /\ g \in Seq({0, 1}) /\ Follows(d, g)
    /\ d.cs = c.cs /\ d.clock = c.clock
    /\ d.data = IF Serial!Whole(g) /\ g # f /\ c.write_enable
                THEN Serial!Effect(g, c.data) ELSE c.data
    /\ d.write_enable = IF Serial!Whole(g) /\ g # f /\ Serial!Command(g) = "disable" THEN FALSE
                        ELSE c.write_enable \/ (Len(g) = 5 /\ Serial!Command(g) = "enable")

(* A bit shifted in extends the frame and does what the whole one says.    *)
LEMMA ShiftInObeys ==
    ASSUME NEW c, IsEeprom(c), NEW f \in Seq({0, 1}), Follows(c, f), c.command \notin GivesBits,
           NEW b \in {0, 1}
    PROVE  Obeys(c, f, Serial!ShiftIn(c, b), Serial!Extended(f, b))
<1> DEFINE h == c.input
           x == Append(h, b)
           d == [c EXCEPT !.input = x]
<1>1. ~IsRead(f) /\ h \in Seq({0, 1}) /\ x \in Seq({0, 1}) /\ Len(x) = Len(h) + 1 /\ Len(h) \in Nat
  BY DEF Follows, IsEeprom
<1>2. Serial!Extended(f, b) = IF h = << >> /\ b = 0 THEN << >> ELSE x
  <2>1. ~(Serial!Whole(f) /\ Serial!Command(f) = "read")
    BY <1>1 DEF IsRead
  <2>2. h = IF Serial!Whole(f) THEN << >> ELSE f
    BY DEF Follows
  <2> QED
    BY <2>1, <2>2 DEF Serial!Extended
<1>3. ~Serial!Whole(<< >>) /\ ~IsRead(<< >>) /\ Len(<< >>) = 0
  BY Sizes DEF Serial!Whole, IsRead
<1>4. Follows(c, h) /\ ~Serial!Whole(h) /\ Len(h) < Serial!DataFrame
  <2>1. ~Serial!Whole(h)
    BY <1>3 DEF Follows
  <2>2. Follows(c, h)
    BY <1>3, <2>1, Sizes DEF Follows
  <2>3. Len(h) # Serial!DataFrame
    BY <2>1, Sizes DEF Serial!Whole
  <2> QED
    BY <1>1, <2>1, <2>2, <2>3, Sizes DEF Follows
<1>5. Serial!Whole(x) => x # f
  <2>1. CASE Serial!Whole(f)
    <3>1. Len(x) = 1
      BY <1>1, <1>3, <2>1 DEF Follows
    <3> QED
      BY <3>1, Sizes DEF Serial!Whole
  <2>2. CASE ~Serial!Whole(f)
    BY <2>2
  <2> QED
    BY <2>1, <2>2
<1>6. /\ IsEeprom(d) /\ d.input = x /\ d.cs = c.cs /\ d.clock = c.clock /\ d.data = c.data
      /\ d.command = c.command /\ d.write_enable = c.write_enable
  BY <1>1 DEF IsEeprom
<1>7. CASE h = << >> /\ b = 0
  <2>1. Serial!ShiftIn(c, b) = c
    <3>1. Len(d.input) = 1
      BY <1>1, <1>6, <1>7
    <3> QED
      BY <3>1, <1>7, Sizes DEF Serial!ShiftIn
  <2>2. Serial!Extended(f, b) = << >> /\ << >> \in Seq({0, 1})
    BY <1>2, <1>7
  <2>3. Follows(c, << >>)
    BY <1>4, <1>7
  <2>4. c.write_enable = (c.write_enable \/ (Len(<< >>) = 5 /\ Serial!Command(<< >>) = "enable"))
    <3>1. Len(<< >>) # 5
      BY <1>3
    <3>2. c.write_enable \in BOOLEAN
      BY DEF IsEeprom
    <3> QED
      BY <3>1, <3>2
  <2> QED
    BY <1>3, <2>1, <2>2, <2>3, <2>4 DEF Obeys
<1>8. Len(h) >= 3 => SubSeq(x, 1, 3) = SubSeq(h, 1, 3)
  BY <1>1, CommandStays
<1>9. Len(h) >= 5 => Serial!Command(x) = Serial!Command(h)
  BY <1>1, CommandStays
<1>10. Len(x) = 3 => SubSeq(x, 1, 3) = x
  BY <1>1
<1>11. Len(x) = 1 => h = << >>
  BY <1>1
<1>12. Len(h) = Len(x) - 1 /\ Len(h) \in Nat /\ Len(x) \in Nat
  BY <1>1
<1> HIDE DEF h, x, d
<1>13. CASE ~(h = << >> /\ b = 0)
  <2>1. Serial!Extended(f, b) = x
    BY <1>2, <1>13
  <2>2. Len(h) >= 5 => Serial!Command(x) = Serial!Command(h) /\ c.command = Serial!Command(x)
    BY <1>12, <1>4, <1>9 DEF Follows
  <2>3. ASSUME Serial!ShiftIn(c, b) = d, ~Serial!Whole(x), Len(x) # 3, Len(x) # 5
        PROVE  Obeys(c, f, Serial!ShiftIn(c, b), Serial!Extended(f, b))
    <3>1. Follows(d, x)
      <4>1. ~IsRead(x)
        BY <2>3 DEF IsRead
      <4>2. Len(x) = 4 => d.command = Serial!Opcode(SubSeq(x, 1, 3))
        <5>1. SUFFICES ASSUME Len(x) = 4 PROVE d.command = Serial!Opcode(SubSeq(x, 1, 3))
          OBVIOUS
        <5>2. Len(h) = 3
          BY <1>12, <5>1
        <5>3. c.command = Serial!Opcode(SubSeq(h, 1, 3))
          BY <1>4, <5>2 DEF Follows
        <5>4. SubSeq(x, 1, 3) = SubSeq(h, 1, 3)
          BY <1>8, <5>2
        <5> QED
          BY <1>6, <5>3, <5>4
      <4>3. Len(x) > 5 => d.command = Serial!Command(x) /\ (d.command = "enable" => d.write_enable)
        <5>1. Len(x) > 5 => Len(h) >= 5
          BY <1>12
        <5> QED
          BY <5>1, <1>4, <1>6, <2>2 DEF Follows
      <4> QED
        BY <1>12, <1>4, <1>6, <2>3, <4>1, <4>2, <4>3, Sizes, SMTT(30) DEF Follows
    <3>2. d.write_enable = (c.write_enable \/ (Len(x) = 5 /\ Serial!Command(x) = "enable"))
      <4>1. c.write_enable \in BOOLEAN
        BY DEF IsEeprom
      <4> QED
        BY <1>6, <2>3, <4>1
    <3> QED
      BY <1>1, <1>6, <2>1, <2>3, <3>1, <3>2 DEF Obeys
  <2>4. CASE Len(x) \in {1, 2, 4}
    <3>1. Serial!ShiftIn(c, b) = d
      <4>1. Len(x) = 1 => b # 0
        BY <1>11, <1>13
      <4> QED
        BY <1>6, <2>4, <4>1, Sizes DEF Serial!ShiftIn, d, x, h
    <3>2. Len(x) # 3 /\ Len(x) # 5 /\ Len(x) < 5
      <4>1. \A n \in Nat : n \in {1, 2, 4} => n # 3 /\ n # 5 /\ n < 5
        OBVIOUS
      <4> QED
        BY <1>12, <2>4, <4>1
    <3>3. ~Serial!Whole(x)
      BY <1>12, <3>2, Sizes DEF Serial!Whole
    <3> QED
      BY <2>3, <3>1, <3>2, <3>3
  <2>5. CASE Len(x) = 3
    <3> DEFINE e == [d EXCEPT !.command = Serial!Opcode(x)]
    <3>1. Serial!ShiftIn(c, b) = e
      BY <1>6, <2>5, Sizes DEF Serial!ShiftIn, d, x, h
    <3>2. /\ IsEeprom(e) /\ e.input = x /\ e.cs = c.cs /\ e.clock = c.clock /\ e.data = c.data
          /\ e.command = Serial!Opcode(x) /\ e.write_enable = c.write_enable
      BY <1>6 DEF IsEeprom
    <3> HIDE DEF e
    <3>3. ~Serial!Whole(x) /\ ~IsRead(x)
      BY <2>5, Sizes DEF Serial!Whole, IsRead
    <3>4. Follows(e, x)
      <4>1. e.command \notin GivesBits
        BY <3>2, Opcodes DEF GivesBits
      <4>2. Len(x) <= Serial!DataFrame /\ ~(Len(x) >= 5)
        BY <2>5, Sizes
      <4>3. e.command = Serial!Opcode(SubSeq(x, 1, 3))
        BY <1>10, <2>5, <3>2
      <4> QED
        BY <3>2, <3>3, <4>1, <4>2, <4>3 DEF Follows
    <3>5. e.write_enable = (c.write_enable \/ (Len(x) = 5 /\ Serial!Command(x) = "enable"))
      <4>1. c.write_enable \in BOOLEAN
        BY DEF IsEeprom
      <4> QED
        BY <3>2, <2>5, <4>1
    <3> QED
      BY <1>1, <2>1, <3>1, <3>2, <3>3, <3>4, <3>5 DEF Obeys
  <2>6. CASE Len(x) = 5
    <3>1. ~Serial!Whole(x) /\ ~IsRead(x)
      BY <2>6, Sizes DEF Serial!Whole, IsRead
    <3>2. Len(h) = 4 /\ SubSeq(x, 1, 3) = SubSeq(h, 1, 3)
      BY <1>8, <1>12, <2>6
    <3>3. c.command = Serial!Opcode(SubSeq(x, 1, 3))
      BY <1>4, <3>2 DEF Follows
    <3>4. c.write_enable \in BOOLEAN /\ Len(x) <= Serial!DataFrame
      BY <1>12, <2>6, Sizes DEF IsEeprom
    <3>5. CASE c.command = "cmd00"
      <4> DEFINE e == [d EXCEPT !.command = Serial!SubOpcode(x),
                                !.write_enable = @ \/ Serial!SubOpcode(x) = "enable"]
      <4>1. Serial!ShiftIn(c, b) = e
        <5>1. Serial!ShiftIn(c, b) = Serial!SubCommanded(d)
          BY <1>6, <2>6, <3>5, Sizes DEF Serial!ShiftIn, d, x, h
        <5> QED
          BY <5>1, <1>6 DEF Serial!SubCommanded
      <4>2. Serial!Command(x) = Serial!SubOpcode(x)
        BY <3>3, <3>5 DEF Serial!Command
      <4>3. /\ IsEeprom(e) /\ e.input = x /\ e.cs = c.cs /\ e.clock = c.clock /\ e.data = c.data
            /\ e.command = Serial!Command(x)
            /\ e.write_enable = (c.write_enable \/ Serial!Command(x) = "enable")
        BY <1>6, <3>4, <4>2 DEF IsEeprom
      <4> HIDE DEF e
      <4>4. Follows(e, x)
        <5>1. e.command \notin GivesBits
          BY <4>3, Opcodes DEF GivesBits
        <5>2. Serial!Command(x) = "enable" => e.write_enable
          BY <4>3
        <5> QED
          BY <2>6, <3>1, <3>4, <4>3, <5>1, <5>2 DEF Follows
      <4>5. e.write_enable = (c.write_enable \/ (Len(x) = 5 /\ Serial!Command(x) = "enable"))
        BY <2>6, <4>3
      <4> QED
        BY <1>1, <2>1, <3>1, <4>1, <4>3, <4>4, <4>5 DEF Obeys
    <3>6. CASE c.command # "cmd00"
      <4>1. Serial!ShiftIn(c, b) = d
        BY <1>6, <2>6, <3>6, Sizes DEF Serial!ShiftIn, d, x, h
      <4>2. Serial!Command(x) = c.command /\ c.command # "enable"
        BY <3>3, <3>6, Opcodes DEF Serial!Command
      <4>3. Follows(d, x)
        BY <1>6, <2>6, <3>1, <3>4, <4>2 DEF Follows
      <4>4. d.write_enable = (c.write_enable \/ (Len(x) = 5 /\ Serial!Command(x) = "enable"))
        BY <1>6, <3>4, <4>2
      <4> QED
        BY <1>1, <1>6, <2>1, <3>1, <4>1, <4>3, <4>4 DEF Obeys
    <3> QED
      BY <3>5, <3>6
  <2> DEFINE Took(e) ==
        /\ IsEeprom(e) /\ e.input = << >> /\ e.cs = c.cs /\ e.clock = c.clock
        /\ e.command \in GivesBits <=> Serial!Command(x) = "read"
        /\ e.data = IF c.write_enable THEN Serial!Effect(x, c.data) ELSE c.data
        /\ e.write_enable = IF Serial!Command(x) = "disable" THEN FALSE ELSE c.write_enable
  <2>7. ASSUME Serial!Whole(x), Took(Serial!ShiftIn(c, b)), Len(x) <= Serial!DataFrame
         PROVE  Obeys(c, f, Serial!ShiftIn(c, b), Serial!Extended(f, b))
    <3>1. PICK e : e = Serial!ShiftIn(c, b)
      OBVIOUS
    <3>2. Took(e) /\ x # f
      BY <1>5, <2>7, <3>1
    <3>3. Len(x) # 5
      BY <1>12, <2>7, Sizes DEF Serial!Whole
    <3>4. Follows(e, x)
      BY <2>7, <3>2 DEF Follows, IsRead
    <3>5. e.write_enable = IF Serial!Command(x) = "disable" THEN FALSE
                           ELSE c.write_enable \/ (Len(x) = 5 /\ Serial!Command(x) = "enable")
      <4>1. c.write_enable \in BOOLEAN
        BY DEF IsEeprom
      <4> QED
        BY <3>2, <3>3, <4>1
    <3> QED
      BY <1>1, <2>1, <2>7, <3>1, <3>2, <3>4, <3>5 DEF Obeys
  <2>8. CASE 5 < Len(x) /\ Len(x) < Serial!DataFrame /\ Len(x) # Serial!AddressFrame
    <3>1. Serial!ShiftIn(c, b) = d
      BY <1>12, <1>6, <2>8, Sizes DEF Serial!ShiftIn, d, x, h
    <3>2. ~Serial!Whole(x)
      <4>1. Serial!Command(x) = Serial!Command(h)
        BY <1>12, <2>2, <2>8
      <4>2. Len(x) > Serial!AddressFrame => Serial!Command(h) \in {"write", "writeall"}
        BY <1>12, <1>4, Sizes DEF Serial!Whole
      <4> QED
        BY <1>12, <2>8, <4>1, <4>2, Sizes DEF Serial!Whole
    <3> QED
      BY <1>12, <2>3, <2>8, <3>1, <3>2
  <2>9. CASE Len(x) = Serial!AddressFrame
    <3> DEFINE a == Serial!AddressOf(x)
    <3>1. /\ c.command = Serial!Command(x) /\ Len(x) <= Serial!DataFrame
          /\ Serial!Command(x) = "enable" => c.write_enable
          /\ Len(x) # 5
      <4>1. Len(h) >= 5
        BY <1>12, <2>9, Sizes
      <4>2. c.command = Serial!Command(x) /\ c.command = Serial!Command(h)
        BY <2>2, <4>1
      <4> QED
        BY <1>4, <1>12, <2>9, <4>1, <4>2, Sizes DEF Follows
    <3>2. Serial!ShiftIn(c, b) = Serial!Addressed(d)
      BY <1>6, <2>9, Sizes DEF Serial!ShiftIn, d, x, h
    <3>3. CASE c.command \in {"write", "writeall"}
      <4>1. Serial!Addressed(d) = d
        BY <1>6, <3>3 DEF Serial!Addressed
      <4>2. ~Serial!Whole(x)
        BY <1>12, <2>9, <3>1, <3>3, Sizes DEF Serial!Whole
      <4>3. Len(x) # 3
        BY <2>9, Sizes
      <4> QED
        BY <2>3, <3>1, <3>2, <4>1, <4>2, <4>3
    <3>4. CASE c.command \notin {"write", "writeall"}
      <4>1. Serial!Whole(x)
        BY <1>12, <2>9, <3>1, <3>4, Sizes DEF Serial!Whole
      <4>2. /\ DOMAIN d = {"cs", "clock", "data_out", "input", "output", "output_count",
                           "command", "addr", "write_enable", "data", "generation"}
            /\ d.input = x /\ d.cs = c.cs /\ d.clock = c.clock /\ d.data = c.data
            /\ d.command = Serial!Command(x) /\ d.write_enable = c.write_enable
            /\ c.cs \in {0, 1} /\ c.clock \in {0, 1} /\ c.write_enable \in BOOLEAN
            /\ << >> \in Seq({0, 1})
        BY <1>6, <3>1 DEF IsEeprom
      <4>3. Took(Serial!Addressed(d))
        <5>1. CASE Serial!Command(x) = "read"
          <6>1. Serial!Addressed(d) = [d EXCEPT !.input = << >>, !.command = "readdummy",
                                               !.addr = a]
            BY <4>2, <5>1, <3>1 DEF Serial!Addressed, Serial!Emptied
          <6> QED
            BY <4>2, <5>1, <6>1, <3>1 DEF IsEeprom, GivesBits, Serial!Effect, Serial!Fill
        <5>2. CASE Serial!Command(x) = "disable"
          <6>1. Serial!Addressed(d) = [d EXCEPT !.input = << >>, !.command = "none",
                                               !.write_enable = FALSE]
            BY <4>2, <5>2, <3>1 DEF Serial!Addressed, Serial!Refuses, Serial!Emptied
          <6> QED
            BY <4>2, <5>2, <6>1, <3>1 DEF IsEeprom, GivesBits, Serial!Effect, Serial!Fill
        <5>3. CASE Serial!Command(x) = "enable"
          <6>1. Serial!Addressed(d) = [d EXCEPT !.input = << >>, !.command = "none",
                                               !.write_enable = TRUE]
            BY <4>2, <5>3, <3>1 DEF Serial!Addressed, Serial!Refuses, Serial!Emptied
          <6> QED
            BY <4>2, <5>3, <6>1, <3>1 DEF IsEeprom, GivesBits, Serial!Effect, Serial!Fill
        <5>4. CASE Serial!Command(x) \in {"erase", "eraseall"} /\ ~c.write_enable
          <6>1. Serial!Addressed(d) = [d EXCEPT !.input = << >>, !.command = "none"]
            <7>1. d.command \in {"erase", "eraseall"} /\ ~d.write_enable
              BY <4>2, <5>4
            <7>2. Serial!Addressed(d) = Serial!Refuses(d)
              BY <7>1 DEF Serial!Addressed
            <7> QED
              BY <4>2, <7>2 DEF Serial!Refuses, Serial!Emptied
          <6> QED
            BY <4>2, <5>4, <6>1, <3>1 DEF IsEeprom, GivesBits, Serial!Effect, Serial!Fill
        <5>5. CASE Serial!Command(x) = "erase" /\ c.write_enable
          <6>1. Serial!Addressed(d) = [d EXCEPT !.input = << >>,
                                                    !.data = [c.data EXCEPT ![a] = Serial!Erased],
                                                    !.generation = @ + 1]
            BY <4>2, <5>5, <3>1 DEF Serial!Addressed, Serial!Stores, Serial!Emptied
          <6> QED
            BY <4>2, <5>5, <6>1, <3>1 DEF IsEeprom, GivesBits, Serial!Effect, Serial!Fill
        <5>6. CASE Serial!Command(x) = "eraseall" /\ c.write_enable
          <6>1. Serial!Addressed(d) = [d EXCEPT !.input = << >>,
                                                    !.data = Serial!Fill(Serial!Erased),
                                                    !.generation = @ + 1]
            BY <4>2, <5>6, <3>1 DEF Serial!Addressed, Serial!Stores, Serial!Emptied
          <6> QED
            BY <4>2, <5>6, <6>1, <3>1 DEF IsEeprom, GivesBits, Serial!Effect, Serial!Fill
        <5> QED
          BY <3>1, <3>4, <5>1, <5>2, <5>3, <5>4, <5>5, <5>6, Opcodes
      <4> QED
        BY <2>7, <3>1, <3>2, <4>1, <4>3
    <3> QED
      BY <3>3, <3>4
  <2>10. CASE Len(x) = Serial!DataFrame
    <3>1. /\ c.command = Serial!Command(x) /\ Len(x) <= Serial!DataFrame
          /\ Serial!Command(x) \in {"write", "writeall"}
      <4>1. Len(h) >= 5 /\ Len(h) >= Serial!AddressFrame /\ Len(h) # Serial!DataFrame
        BY <1>12, <2>10, Sizes
      <4>2. c.command = Serial!Command(x) /\ c.command = Serial!Command(h)
        BY <1>4, <2>2, <4>1 DEF Follows
      <4> QED
        BY <1>4, <1>12, <2>10, <4>1, <4>2, Sizes DEF Serial!Whole
    <3>2. Serial!ShiftIn(c, b) = Serial!Loaded(d)
      BY <1>6, <2>10, Sizes DEF Serial!ShiftIn, d, x, h
    <3>3. Serial!Whole(x)
      BY <1>12, <2>10, Sizes DEF Serial!Whole
    <3>4. /\ DOMAIN d = {"cs", "clock", "data_out", "input", "output", "output_count",
                         "command", "addr", "write_enable", "data", "generation"}
          /\ d.input = x /\ d.cs = c.cs /\ d.clock = c.clock /\ d.data = c.data
          /\ d.command = Serial!Command(x) /\ d.write_enable = c.write_enable
          /\ c.cs \in {0, 1} /\ c.clock \in {0, 1} /\ c.write_enable \in BOOLEAN
          /\ << >> \in Seq({0, 1})
      BY <1>6, <3>1 DEF IsEeprom
    <3>5. Took(Serial!Loaded(d))
      <4>1. CASE ~c.write_enable /\ Serial!Command(x) \in {"write", "writeall"}
        <5>1. Serial!Loaded(d) = [d EXCEPT !.input = << >>, !.command = "none"]
          <6>1. d.command \in {"write", "writeall"} /\ ~d.write_enable
            BY <3>4, <4>1
          <6>2. Serial!Loaded(d) = Serial!Refuses(d)
            BY <6>1 DEF Serial!Loaded
          <6> QED
            BY <3>4, <6>2 DEF Serial!Refuses, Serial!Emptied
        <5> QED
          BY <3>4, <4>1, <5>1, <3>1 DEF IsEeprom, GivesBits, Serial!Effect, Serial!Fill
      <4>2. CASE Serial!Command(x) = "write" /\ c.write_enable
        <5>1. Serial!Loaded(d) = [d EXCEPT !.input = << >>,
                                          !.data = [c.data EXCEPT ![Serial!AddressOf(x)] =
                                                                    Serial!WordOf(x)],
                                          !.generation = @ + 1]
          BY <3>4, <4>2 DEF Serial!Loaded, Serial!Stores, Serial!Emptied
        <5> QED
          BY <3>4, <4>2, <5>1, <3>1 DEF IsEeprom, GivesBits, Serial!Effect, Serial!Fill
      <4>3. CASE Serial!Command(x) = "writeall" /\ c.write_enable
        <5>1. Serial!Loaded(d) = [d EXCEPT !.input = << >>,
                                          !.data = Serial!Fill(Serial!WordOf(x)),
                                          !.generation = @ + 1]
          BY <3>4, <4>3 DEF Serial!Loaded, Serial!Stores, Serial!Emptied
        <5> QED
          BY <3>4, <4>3, <5>1, <3>1 DEF IsEeprom, GivesBits, Serial!Effect, Serial!Fill
      <4> QED
        BY <3>1, <4>1, <4>2, <4>3
    <3> QED
      BY <2>7, <3>1, <3>2, <3>3, <3>5
  <2>11. Len(x) >= 1 /\ Len(x) <= Serial!DataFrame
    BY <1>12, <1>4, Sizes
  <2>12. \A n, a, t \in Nat :
           n >= 1 /\ n <= t /\ a > 5 /\ t > a + 1 =>
             \/ n \in {1, 2, 4} \/ n = 3 \/ n = 5
             \/ 5 < n /\ n < t /\ n # a
             \/ n = a \/ n = t
    OBVIOUS
  <2> QED
    BY <1>12, <2>4, <2>5, <2>6, <2>8, <2>9, <2>10, <2>11, <2>12, Sizes
<1> QED
  BY <1>7, <1>13

(* So does a rising clock, which while reading shifts in nothing.          *)
LEMMA ClockedObeys ==
    ASSUME NEW c, IsEeprom(c), NEW f \in Seq({0, 1}), Follows(c, f), NEW b \in {0, 1}
    PROVE  Obeys(c, f, Serial!Clocked(c, b), Serial!Extended(f, b))
<1>1. CASE c.command \notin GivesBits
  BY <1>1, ShiftInObeys DEF Serial!Clocked, GivesBits
<1>2. CASE c.command \in GivesBits
  <2>1. Serial!Extended(f, b) = f
    BY <1>2 DEF Serial!Extended, Follows, IsRead
  <2>2. ASSUME NEW d, DOMAIN d = DOMAIN c, d.input = c.input, d.cs = c.cs, d.clock = c.clock,
               d.data = c.data, d.write_enable = c.write_enable, d.command = "readdata"
        PROVE  Obeys(c, f, d, f)
    <3>1. IsEeprom(d)
      BY <2>2 DEF IsEeprom
    <3>2. IsRead(f) /\ Serial!Whole(f) /\ d.command \in GivesBits
      BY <1>2, <2>2 DEF Follows, IsRead, GivesBits
    <3>3. Len(f) # 5
      <4>1. Len(f) \in Nat /\ Len(f) >= Serial!AddressFrame
        BY <3>2 DEF Serial!Whole
      <4>2. \A n, a \in Nat : n >= a /\ a > 5 => n # 5
        OBVIOUS
      <4> QED
        BY <4>1, <4>2, Sizes
    <3>4. Follows(d, f)
      BY <2>2, <3>2 DEF Follows
    <3>5. d.write_enable = (c.write_enable \/ (Len(f) = 5 /\ Serial!Command(f) = "enable"))
      <4>1. c.write_enable \in BOOLEAN
        BY DEF IsEeprom
      <4> QED
        BY <2>2, <3>3, <4>1
    <3> QED
      BY <2>2, <3>1, <3>2, <3>4, <3>5 DEF Obeys
  <2>3. CASE c.command = "readdummy"
    <3>1. PICK d : d = Serial!Clocked(c, b)
      OBVIOUS
    <3>2. /\ DOMAIN d = DOMAIN c /\ d.input = c.input /\ d.cs = c.cs /\ d.clock = c.clock
          /\ d.data = c.data /\ d.write_enable = c.write_enable /\ d.command = "readdata"
      BY <2>3, <3>1 DEF Serial!Clocked, Serial!ShiftOut, IsEeprom
    <3> QED
      BY <2>1, <2>2, <3>1, <3>2
  <2>4. CASE c.command = "readdata"
    <3>1. PICK d : d = Serial!ShiftOut(c)
      OBVIOUS
    <3>2. /\ DOMAIN d = DOMAIN c /\ d.input = c.input /\ d.cs = c.cs /\ d.clock = c.clock
          /\ d.data = c.data /\ d.write_enable = c.write_enable /\ d.command = "readdata"
      BY <2>4, <3>1 DEF Serial!ShiftOut, IsEeprom
    <3>3. PICK e : e = Serial!NextByte(d)
      OBVIOUS
    <3>4. /\ DOMAIN e = DOMAIN c /\ e.input = c.input /\ e.cs = c.cs /\ e.clock = c.clock
          /\ e.data = c.data /\ e.write_enable = c.write_enable /\ e.command = "readdata"
      BY <3>2, <3>3 DEF Serial!NextByte, IsEeprom
    <3>5. Serial!Clocked(c, b) = e
      BY <2>4, <3>1, <3>3 DEF Serial!Clocked
    <3> QED
      BY <2>1, <2>2, <3>4, <3>5
  <2> QED
    BY <1>2, <2>3, <2>4 DEF GivesBits
<1> QED
  BY <1>1, <1>2

(* A falling select ends what was under way.                               *)
LEMMA SelectLow ==
    ASSUME NEW c, IsEeprom(c)
    PROVE  LET d == Serial!WriteSelect(c, 0)
           IN  /\ IsEeprom(d) /\ d.cs = 0 /\ d.command \notin Serial!Reads
               /\ d.input = c.input /\ d.data = c.data /\ d.write_enable = c.write_enable
<1>1. PICK e : e = Serial!Deselected(c)
  OBVIOUS
<1>2. /\ IsEeprom(e) /\ e.input = c.input /\ e.data = c.data /\ e.clock = c.clock
      /\ e.write_enable = c.write_enable /\ e.command \notin Serial!Reads
  <2>1. CASE c.cs = 1 /\ c.command \in Serial!BecomesBusy
    <3>1. e = [c EXCEPT !.command = "isbusy"]
      BY <1>1, <2>1 DEF Serial!Deselected, Serial!BecomesBusy, Serial!Reads
    <3> QED
      BY <3>1 DEF IsEeprom, Serial!Reads
  <2>2. CASE c.command \in Serial!Reads
    <3>1. e = [c EXCEPT !.command = "none", !.addr = 0, !.output = << >>, !.output_count = 0]
      BY <1>1, <2>2 DEF Serial!Deselected, Serial!ReadEnded, Serial!BecomesBusy, Serial!Reads
    <3> QED
      BY <3>1 DEF IsEeprom, Serial!Reads
  <2>3. CASE ~(c.cs = 1 /\ c.command \in Serial!BecomesBusy) /\ c.command \notin Serial!Reads
    BY <1>1, <2>3 DEF Serial!Deselected
  <2> QED
    BY <2>1, <2>2, <2>3
<1>3. Serial!WriteSelect(c, 0) = [e EXCEPT !.cs = 0]
  BY <1>1 DEF Serial!WriteSelect
<1> QED
  BY <1>2, <1>3 DEF IsEeprom

(* A store that lowers the select line, or a reset.                        *)
LEMMA LowStep ==
    ASSUME SerialInv, eeprom' = Serial!WriteSelect(eeprom, 0),
           NEW b \in {0, 1}, NEW v \in {0, 1}, Serial!NoteStore(0, b, v)
    PROVE  SerialInv' /\ eeprom'.data = eeprom.data /\ ~Serial!Completed
<1>1. /\ IsEeprom(eeprom') /\ eeprom'.cs = 0 /\ eeprom'.command \notin Serial!Reads
      /\ eeprom'.input = eeprom.input /\ eeprom'.data = eeprom.data
      /\ eeprom'.write_enable = eeprom.write_enable
  BY SelectLow DEF SerialInv
<1>2. ~Serial!Rising([eeprom EXCEPT !.cs = 0], v)
  BY DEF Serial!Rising, SerialInv, IsEeprom
<1>3. ~Serial!Whole(<< >>) /\ ~IsRead(<< >>) /\ Len(<< >>) = 0 /\ << >> \in Seq({0, 1})
  BY Sizes DEF Serial!Whole, IsRead
<1>4. cut' = (cut \/ (eeprom.cs = 1 /\ Serial!Kept(0) # << >>)) /\ cut' \in BOOLEAN
  BY DEF Serial!NoteStore, SerialInv
<1>5. frame' = IF cut' THEN << >> ELSE Serial!Kept(0)
  BY <1>2 DEF Serial!NoteStore
<1>6. frame' = << >>
  <2>1. eeprom.cs = 0 => Serial!Kept(0) = << >>
    BY DEF Serial!Kept, SerialInv
  <2>2. eeprom.cs \in {0, 1}
    BY DEF SerialInv, IsEeprom
  <2> QED
    BY <1>4, <1>5, <2>1, <2>2
<1>7. unlocked' = eeprom.write_enable
  <2>1. unlocked = eeprom.write_enable /\ eeprom.write_enable \in BOOLEAN
    BY DEF SerialInv, IsEeprom
  <2>2. ~(Len(frame') = 5 /\ Serial!Command(frame') = "enable") /\ ~Serial!Completed
    BY <1>3, <1>6 DEF Serial!Completed
  <2>3. CASE cut'
    BY <1>1, <2>3 DEF Serial!NoteStore
  <2>4. CASE ~cut'
    BY <2>1, <2>2, <2>4 DEF Serial!NoteStore
  <2> QED
    BY <2>3, <2>4
<1>8. ~cut' => Follows(eeprom', << >>)
  <2>1. SUFFICES ASSUME ~cut' PROVE Follows(eeprom', << >>)
    OBVIOUS
  <2>2. Follows(eeprom, frame) /\ Serial!Kept(0) = << >>
    BY <1>4, <1>5, <1>6, <2>1 DEF SerialInv
  <2>3. eeprom.input = << >>
    BY <2>2 DEF Follows, Serial!Kept
  <2> QED
    BY <1>1, <1>3, <2>3, Sizes DEF Follows
<1>9. ~Serial!Completed
  BY <1>3, <1>6 DEF Serial!Completed
<1> QED
  BY <1>1, <1>3, <1>4, <1>6, <1>7, <1>8, <1>9 DEF SerialInv

(* Whatever the chip holds, an edge leaves it a chip that is selected.     *)
LEMMA ClockedKeeps ==
    ASSUME NEW c, IsEeprom(c), NEW b \in {0, 1}
    PROVE  IsEeprom(Serial!Clocked(c, b)) /\ Serial!Clocked(c, b).cs = c.cs
<1> DEFINE Kept(d) == IsEeprom(d) /\ d.cs = c.cs
<1>1. ASSUME NEW d, Kept(d)
      PROVE  /\ Kept(Serial!ShiftOut(d)) /\ Kept(Serial!NextByte(d))
             /\ Kept(Serial!SubCommanded(d)) /\ Kept(Serial!Emptied(d))
             /\ \A w, a : Kept([d EXCEPT !.command = w]) /\ Kept([d EXCEPT !.addr = a])
             /\ \A t \in BOOLEAN : Kept([d EXCEPT !.write_enable = t])
             /\ \A a : Kept([d EXCEPT !.data = a, !.generation = @ + 1])
             /\ \A w, o, n : Kept([d EXCEPT !.output = o, !.output_count = n, !.command = w])
  <2>1. /\ Kept(Serial!ShiftOut(d)) /\ Kept(Serial!Emptied(d))
        /\ \A w, a : Kept([d EXCEPT !.command = w]) /\ Kept([d EXCEPT !.addr = a])
        /\ \A t \in BOOLEAN : Kept([d EXCEPT !.write_enable = t])
        /\ \A a : Kept([d EXCEPT !.data = a, !.generation = @ + 1])
        /\ \A w, o, n : Kept([d EXCEPT !.output = o, !.output_count = n, !.command = w])
    BY <1>1 DEF IsEeprom, Serial!ShiftOut, Serial!Emptied
  <2>2. Kept(Serial!NextByte(d))
    BY <1>1 DEF IsEeprom, Serial!NextByte
  <2>3. Kept(Serial!SubCommanded(d))
    BY <1>1 DEF IsEeprom, Serial!SubCommanded
  <2> QED
    BY <2>1, <2>2, <2>3
<1>2. Kept(c) /\ Kept([c EXCEPT !.input = Append(@, b)])
  BY DEF IsEeprom
<1>3. ASSUME NEW d, Kept(d)
      PROVE  Kept(Serial!Refuses(d)) /\ \A data : Kept(Serial!Stores(d, data))
  <2>1. Kept(Serial!Emptied(d))
    BY <1>1, <1>3
  <2> HIDE DEF Kept
  <2> QED
    BY <1>1, <2>1 DEF Serial!Refuses, Serial!Stores
<1>4. ASSUME NEW d, Kept(d)
      PROVE  Kept(Serial!Addressed(d)) /\ Kept(Serial!Loaded(d))
  <2>1. /\ Kept(Serial!Emptied(d)) /\ Kept(Serial!Refuses(d))
        /\ \A data : Kept(Serial!Stores(d, data))
    BY <1>1, <1>3, <1>4
  <2>2. \A a : /\ Kept([Serial!Emptied(d) EXCEPT !.command = "readdummy", !.addr = a])
              /\ \A t \in BOOLEAN : Kept([Serial!Refuses(d) EXCEPT !.write_enable = t])
    BY <2>1 DEF IsEeprom
  <2> HIDE DEF Kept
  <2>3. Kept(Serial!Addressed(d))
    BY <1>4, <2>1, <2>2 DEF Serial!Addressed
  <2>4. Kept(Serial!Loaded(d))
    BY <1>4, <2>1, <2>2 DEF Serial!Loaded
  <2> QED
    BY <2>3, <2>4
<1>5. Kept(Serial!ShiftIn(c, b))
  <2>1. PICK d : d = [c EXCEPT !.input = Append(@, b)]
    OBVIOUS
  <2>2. Serial!ShiftIn(c, b) \in {c, d, [d EXCEPT !.command = Serial!Opcode(d.input)],
                                  Serial!SubCommanded(d), Serial!Addressed(d), Serial!Loaded(d)}
    BY <2>1 DEF Serial!ShiftIn
  <2>3. Kept(d)
    BY <1>2, <2>1
  <2>4. /\ Kept([d EXCEPT !.command = Serial!Opcode(d.input)])
        /\ Kept(Serial!SubCommanded(d)) /\ Kept(Serial!Addressed(d)) /\ Kept(Serial!Loaded(d))
    BY <1>1, <1>4, <2>3
  <2> HIDE DEF Kept
  <2> QED
    BY <1>2, <2>2, <2>3, <2>4
<1>6. Kept(Serial!ShiftOut([c EXCEPT !.output = Serial!ByteOf(c, c.addr, 0), !.output_count = 0,
                                     !.command = "readdata"]))
  <2>1. PICK d : d = [c EXCEPT !.output = Serial!ByteOf(c, c.addr, 0), !.output_count = 0,
                               !.command = "readdata"]
    OBVIOUS
  <2>2. Kept(d)
    BY <2>1 DEF IsEeprom
  <2> HIDE DEF Kept
  <2> QED
    BY <1>1, <2>1, <2>2
<1>7. Kept(Serial!NextByte(Serial!ShiftOut(c)))
  <2> HIDE DEF Kept
  <2> QED
    BY <1>1, <1>2
<1>8. Kept(Serial!Clocked(c, b))
  <2> HIDE DEF Kept
  <2> QED
    BY <1>5, <1>6, <1>7 DEF Serial!Clocked
<1> QED
  BY <1>8

(* A select line that is high leaves the chip what it was, or empties it,  *)
(* and the frame with it.                                                  *)
LEMMA SelectHigh ==
    ASSUME SerialInv
    PROVE  LET d == Serial!WriteSelect(eeprom, 1)
               k == Serial!Kept(1)
               emptied == eeprom.cs = 0 /\ eeprom.clock = 0
           IN  /\ IsEeprom(d) /\ d.cs = 1 /\ d.clock = eeprom.clock /\ d.data = eeprom.data
               /\ d.write_enable = eeprom.write_enable /\ d.command = eeprom.command
               /\ d.input = IF emptied THEN << >> ELSE eeprom.input
               /\ d.addr = eeprom.addr /\ d.output = eeprom.output
               /\ d.output_count = eeprom.output_count /\ d.data_out = eeprom.data_out
               /\ k = frame /\ k \in Seq({0, 1})
               /\ emptied \/ ~cut => Follows(d, k)
<1> DEFINE emptied == eeprom.cs = 0 /\ eeprom.clock = 0
<1>1. PICK d : d = Serial!WriteSelect(eeprom, 1)
  OBVIOUS
<1>2. /\ IsEeprom(d) /\ d.cs = 1 /\ d.clock = eeprom.clock /\ d.data = eeprom.data
      /\ d.write_enable = eeprom.write_enable /\ d.command = eeprom.command
      /\ d.input = IF emptied THEN << >> ELSE eeprom.input
      /\ d.addr = eeprom.addr /\ d.output = eeprom.output
      /\ d.output_count = eeprom.output_count /\ d.data_out = eeprom.data_out
  <2>1. IsEeprom(eeprom) /\ << >> \in Seq({0, 1})
    BY DEF SerialInv
  <2>2. CASE emptied
    <3>1. d = [[eeprom EXCEPT !.input = << >>] EXCEPT !.cs = 1]
      BY <1>1, <2>2 DEF Serial!WriteSelect, Serial!Emptied
    <3> QED
      BY <2>1, <2>2, <3>1 DEF IsEeprom
  <2>3. CASE ~emptied
    <3>1. d = [eeprom EXCEPT !.cs = 1]
      BY <1>1, <2>3 DEF Serial!WriteSelect
    <3> QED
      BY <2>1, <2>3, <3>1 DEF IsEeprom
  <2> QED
    BY <2>2, <2>3
<1>3. PICK k : k = Serial!Kept(1)
  OBVIOUS
<1>4. k = frame /\ k \in Seq({0, 1}) /\ (emptied => k = << >>)
  BY <1>3 DEF Serial!Kept, SerialInv
<1>5. ASSUME emptied \/ ~cut PROVE Follows(d, k)
  <2>1. CASE emptied
    <3>1. d.command \notin GivesBits
      BY <1>2, <2>1, Sizes DEF SerialInv
    <3>2. d.input = << >> /\ k = << >>
      BY <1>2, <1>4, <2>1
    <3>3. ~Serial!Whole(<< >>) /\ ~IsRead(<< >>) /\ Len(<< >>) = 0
      BY Sizes DEF Serial!Whole, IsRead
    <3>4. Follows(d, << >>)
      BY <3>1, <3>2, <3>3, Sizes DEF Follows
    <3> QED
      BY <3>2, <3>4
  <2>2. CASE ~emptied
    <3>1. Follows(eeprom, frame)
      BY <1>5, <2>2 DEF SerialInv
    <3>2. /\ d.input = eeprom.input /\ d.command = eeprom.command
          /\ d.write_enable = eeprom.write_enable
      BY <1>2, <2>2
    <3>3. Follows(d, frame)
      BY <3>1, <3>2 DEF Follows
    <3> QED
      BY <1>4, <3>3
  <2> QED
    BY <2>1, <2>2
<1> QED
  BY <1>1, <1>2, <1>3, <1>4, <1>5

(* A store with the select line high.                                      *)
LEMMA HighStep ==
    ASSUME SerialInv, NEW b \in {0, 1}, NEW v \in {0, 1},
           eeprom' = Serial!WriteClock(Serial!WriteSelect(eeprom, 1), b, v),
           Serial!NoteStore(1, b, v)
    PROVE  /\ SerialInv'
           /\ ~cut' => eeprom'.data = IF Serial!Completed /\ unlocked
                                      THEN Serial!Effect(frame', eeprom.data) ELSE eeprom.data
<1> DEFINE emptied == eeprom.cs = 0 /\ eeprom.clock = 0
           k == Serial!Kept(1)
           edge == v = 1 /\ eeprom.clock = 0
<1>1. PICK d : d = Serial!WriteSelect(eeprom, 1)
  OBVIOUS
<1>2. /\ IsEeprom(d) /\ d.cs = 1 /\ d.clock = eeprom.clock /\ d.data = eeprom.data
      /\ d.write_enable = eeprom.write_enable /\ d.command = eeprom.command
      /\ k = frame /\ k \in Seq({0, 1})
      /\ emptied \/ ~cut => Follows(d, k)
  BY <1>1, SelectHigh
<1>3. << >> \in Seq({0, 1}) /\ ~Serial!Whole(<< >>)
  BY Sizes DEF Serial!Whole
<1>4. /\ Serial!Rising([eeprom EXCEPT !.cs = 1], v) <=> edge
      /\ Serial!Rising(d, v) <=> edge
  BY <1>2 DEF Serial!Rising, SerialInv, IsEeprom
<1>5. /\ cut' = (~emptied /\ cut) /\ cut' \in BOOLEAN
      /\ frame' = IF cut' THEN << >> ELSE IF edge THEN Serial!Extended(k, b) ELSE k
  <2>1. cut' = (~emptied /\ cut)
    BY DEF Serial!NoteStore
  <2>2. cut \in BOOLEAN
    BY DEF SerialInv
  <2>3. frame' = IF cut' THEN << >> ELSE IF edge THEN Serial!Extended(k, b) ELSE k
    BY <1>4 DEF Serial!NoteStore
  <2> QED
    BY <2>1, <2>2, <2>3
<1>6. ~cut' => Follows(d, k)
  BY <1>2, <1>5
<1>7. PICK e : e = IF edge THEN Serial!Clocked(d, b) ELSE d
  OBVIOUS
<1>8. eeprom' = [e EXCEPT !.clock = v]
  BY <1>1, <1>4, <1>7 DEF Serial!WriteClock
<1>9. IsEeprom(e) /\ e.cs = 1
  BY <1>2, <1>7, ClockedKeeps
<1>10. /\ IsEeprom(eeprom') /\ eeprom'.cs = 1 /\ eeprom'.input = e.input
       /\ eeprom'.command = e.command /\ eeprom'.data = e.data
       /\ eeprom'.write_enable = e.write_enable
  BY <1>8, <1>9 DEF IsEeprom
<1>11. CASE cut'
  <2>1. frame' = << >> /\ unlocked' = eeprom'.write_enable
    BY <1>5, <1>11 DEF Serial!NoteStore
  <2> QED
    BY <1>3, <1>5, <1>10, <1>11, <2>1 DEF SerialInv
<1>12. CASE ~cut'
  <2>1. Obeys(d, k, e, frame')
    <3>1. CASE edge
      BY <1>2, <1>5, <1>6, <1>7, <1>12, <3>1, ClockedObeys
    <3>2. CASE ~edge
      <4>1. e = d /\ frame' = k /\ Follows(d, k)
        BY <1>5, <1>6, <1>7, <1>12, <3>2
      <4>2. Len(k) = 5 /\ Serial!Command(k) = "enable" => d.write_enable
        <5>1. Len(k) = 5 => ~Serial!Whole(k) /\ Len(k) >= 5
          <6>1. \A n, a \in Nat : n = 5 /\ a > 5 => ~(n >= a) /\ n >= 5
            OBVIOUS
          <6>2. Len(k) \in Nat
            BY <1>2
          <6> QED
            BY <6>1, <6>2, Sizes DEF Serial!Whole
        <5> QED
          BY <4>1, <5>1 DEF Follows
      <4>3. d.write_enable = (d.write_enable \/ (Len(k) = 5 /\ Serial!Command(k) = "enable"))
        <5>1. d.write_enable \in BOOLEAN
          BY <1>2 DEF IsEeprom
        <5> QED
          BY <4>2, <5>1
      <4> QED
        BY <1>2, <4>1, <4>3 DEF Obeys
    <3> QED
      BY <3>1, <3>2
  <2>2. Serial!Completed <=> Serial!Whole(frame') /\ frame' # k
    <3>1. k = frame
      BY <1>2 DEF SerialInv
    <3> QED
      BY <3>1 DEF Serial!Completed
  <2>3. unlocked = eeprom.write_enable /\ eeprom.write_enable \in BOOLEAN
    BY DEF SerialInv, IsEeprom
  <2>4. unlocked' = eeprom'.write_enable
    <3>1. unlocked' = IF Serial!Completed /\ Serial!Command(frame') = "disable" THEN FALSE
                      ELSE unlocked \/ (Len(frame') = 5 /\ Serial!Command(frame') = "enable")
      BY <1>12 DEF Serial!NoteStore
    <3>2. e.write_enable = IF Serial!Completed /\ Serial!Command(frame') = "disable" THEN FALSE
                           ELSE d.write_enable
                                  \/ (Len(frame') = 5 /\ Serial!Command(frame') = "enable")
      BY <2>1, <2>2 DEF Obeys
    <3>3. d.write_enable = unlocked
      BY <1>2, <2>3
    <3> QED
      BY <1>10, <3>1, <3>2, <3>3
  <2>5. SerialInv'
    <3>1. Follows(e, frame') /\ frame' \in Seq({0, 1})
      BY <2>1 DEF Obeys
    <3>2. Follows(eeprom', frame')
      BY <1>10, <3>1 DEF Follows
    <3>3. eeprom'.cs # 0
      BY <1>10
    <3> QED
      BY <1>5, <1>10, <1>12, <2>4, <3>1, <3>2, <3>3 DEF SerialInv
  <2> QED
    BY <1>2, <1>10, <2>1, <2>2, <2>3, <2>5 DEF Obeys
<1> QED
  BY <1>11, <1>12

(* A chip that was just made holds no frame.                               *)
LEMMA SerialInitInv == Serial!Init => SerialInv
<1>1. SUFFICES ASSUME Serial!Init PROVE SerialInv
  OBVIOUS
<1>2. << >> \in Seq({0, 1}) /\ Len(<< >>) = 0 /\ ~Serial!Whole(<< >>) /\ ~IsRead(<< >>)
  BY Sizes DEF Serial!Whole, IsRead
<1>3. /\ IsEeprom(eeprom) /\ eeprom.command = "none"
      /\ eeprom.input = << >> /\ eeprom.write_enable = FALSE
  BY <1>1, <1>2 DEF Serial!Init, IsEeprom
<1>4. Follows(eeprom, << >>)
  BY <1>2, <1>3, Sizes DEF Follows, GivesBits
<1> QED
  BY <1>1, <1>2, <1>3, <1>4, Sizes DEF Serial!Init, SerialInv, GivesBits

(* The array changes by whole frames, in every step.                       *)
Obedient ==
    ~cut' => eeprom'.data = IF Serial!Completed /\ unlocked
                            THEN Serial!Effect(frame', eeprom.data) ELSE eeprom.data

(* A store, a poll and a reset keep the invariant and obey.                *)
LEMMA SerialStep ==
    ASSUME SerialInv, [Serial!Next]_(Serial!vars)
    PROVE  SerialInv' /\ Obedient
<1>1. ASSUME NEW cs \in Serial!Bit, NEW din \in Serial!Bit, NEW clk \in Serial!Bit,
             Serial!Store(cs, din, clk)
      PROVE  SerialInv' /\ Obedient
  <2>1. CASE cs = 0
    <3>1. eeprom' = Serial!WriteSelect(eeprom, 0) /\ Serial!NoteStore(0, din, clk)
      BY <1>1, <2>1 DEF Serial!Store, Serial!Lines
    <3> QED
      BY <1>1, <3>1, LowStep DEF Obedient, Serial!Bit
  <2>2. CASE cs = 1
    <3>1. /\ eeprom' = Serial!WriteClock(Serial!WriteSelect(eeprom, 1), din, clk)
          /\ Serial!NoteStore(1, din, clk)
      BY <1>1, <2>2 DEF Serial!Store, Serial!Lines
    <3> QED
      BY <1>1, <3>1, HighStep DEF Obedient, Serial!Bit
  <2> QED
    BY <2>1, <2>2 DEF Serial!Bit
<1>2. CASE Serial!Poll
  <2>1. UNCHANGED <<frame, cut, unlocked>> /\ eeprom' = Serial!Polled(eeprom) /\ eeprom.cs = 1
    BY <1>2 DEF Serial!Poll
  <2>2. /\ IsEeprom(eeprom') /\ eeprom'.cs = eeprom.cs /\ eeprom'.input = eeprom.input
        /\ eeprom'.data = eeprom.data /\ eeprom'.write_enable = eeprom.write_enable
        /\ \/ eeprom'.command = eeprom.command
           \/ /\ eeprom.command \in {"isbusy", "isready"}
              /\ eeprom'.command \in {"isready", "none"}
    <3>1. CASE eeprom.command = "isbusy"
      BY <2>1, <3>1 DEF Serial!Polled, SerialInv, IsEeprom
    <3>2. CASE eeprom.command = "isready"
      BY <2>1, <3>2 DEF Serial!Polled, SerialInv, IsEeprom
    <3>3. CASE eeprom.command \notin {"isbusy", "isready"}
      BY <2>1, <3>3 DEF Serial!Polled, SerialInv
    <3> QED
      BY <3>1, <3>2, <3>3
  <2>3. ~cut => Follows(eeprom', frame)
    <3>1. SUFFICES ASSUME ~cut PROVE Follows(eeprom', frame)
      OBVIOUS
    <3>2. Follows(eeprom, frame)
      BY <3>1 DEF SerialInv
    <3>3. CASE eeprom'.command = eeprom.command
      BY <2>2, <3>2, <3>3 DEF Follows
    <3>4. CASE eeprom.command \in {"isbusy", "isready"} /\ eeprom'.command \in {"isready", "none"}
      <4>1. ~IsRead(frame) /\ eeprom'.command \notin GivesBits
        BY <3>2, <3>4 DEF Follows, GivesBits
      <4>2. \/ Serial!Whole(frame)
            \/ Len(frame) \notin {3, 4} /\ ~(Len(frame) >= 5)
        <5>1. /\ Serial!Opcode(SubSeq(frame, 1, 3)) \notin {"isbusy", "isready"}
              /\ Serial!Command(frame) \notin {"isbusy", "isready"}
          BY Opcodes
        <5> QED
          BY <3>2, <3>4, <5>1 DEF Follows
      <4> QED
        BY <2>2, <3>2, <4>1, <4>2 DEF Follows
    <3> QED
      BY <2>2, <3>3, <3>4
  <2> QED
    BY <2>1, <2>2, <2>3 DEF SerialInv, Obedient, Serial!Completed
<1>3. CASE Serial!Reset
  <2>1. /\ eeprom' = Serial!WriteSelect(eeprom, 0) /\ Serial!NoteStore(0, 0, eeprom.clock)
        /\ eeprom.clock \in {0, 1}
    BY <1>3 DEF Serial!Reset, SerialInv, IsEeprom
  <2> QED
    BY <2>1, LowStep DEF Obedient
<1>4. CASE UNCHANGED Serial!vars
  BY <1>4 DEF Serial!vars, SerialInv, Obedient, Serial!Completed, IsEeprom, Follows
<1> QED
  BY <1>1, <1>2, <1>3, <1>4 DEF Serial!Next

(* What EepromObeys says of the chip on its own holds of it in a cartridge. *)
LEMMA CartsHaveEeproms == ChipSpec => Serial!Spec
<1>1. ChipInit => Serial!Init
  BY DEF ChipInit
<1>2. [ChipNext]_chips => [Serial!Next]_(Serial!vars)
  BY DEF ChipNext, chips, serial, Serial!vars, FlashIsIn, EepromIsIn
<1> QED
  BY <1>1, <1>2, PTL DEF ChipSpec, Serial!Spec

(* The array of the EEPROM changes by whole frames, all of them, and by    *)
(* nothing else (m93c86.rs, write_clock).                                  *)
LEMMA EepromObeys == Serial!Spec => FramesAreObeyed
<1>1. Serial!Init => SerialInv
  BY SerialInitInv
<1>2. SerialInv /\ [Serial!Next]_(Serial!vars) => SerialInv'
  BY SerialStep
<1>3. SerialInv /\ [Serial!Next]_(Serial!vars) => [Obedient]_(Serial!vars)
  BY SerialStep
<1> QED
  BY <1>1, <1>2, <1>3, PTL DEF Serial!Spec, FramesAreObeyed, Serial!FramesAreObeyed, Obedient

(* FramesAreObeyed: and so in every cartridge that has one.                *)
THEOREM FramesAreAlwaysObeyed == ChipSpec => FramesAreObeyed
  BY CartsHaveEeproms, EepromObeys, PTL

-----------------------------------------------------------------------------
(* The serial EEPROM: what a read gives.                                   *)

(* What a frame's bits say is a number.                                    *)
LEMMA NumberIsNat ==
    ASSUME NEW bits \in Seq({0, 1})
    PROVE  Serial!Number(bits) \in Nat
<1> DEFINE Def(g, m) == [i \in 0 .. m |-> IF i = 0 THEN 0 ELSE 2 * g[i - 1] + bits[i]]
           S == {m \in Nat : \E g : g = Def(g, m)}
<1>1. PICK len \in Nat : len = Len(bits)
  OBVIOUS
<1>2. \A m \in 0 .. len : m \in S
  <2>1. 0 \in S
    <3>1. PICK g : g = [i \in 0 .. 0 |-> 0]
      OBVIOUS
    <3>2. g = Def(g, 0)
      BY <3>1
    <3> QED
      BY <3>2
  <2>2. ASSUME NEW m \in 0 .. len - 1, m \in S
        PROVE  m + 1 \in S
    <3>1. PICK g : g = Def(g, m)
      BY <2>2
    <3>2. PICK h : h = [i \in 0 .. m + 1 |-> IF i = m + 1 THEN 2 * g[m] + bits[m + 1] ELSE g[i]]
      OBVIOUS
    <3>3. ASSUME NEW i \in 0 .. m + 1
          PROVE  h[i] = IF i = 0 THEN 0 ELSE 2 * h[i - 1] + bits[i]
      <4>1. CASE i = m + 1
        <5>1. h[i] = 2 * g[m] + bits[m + 1] /\ h[i - 1] = g[m]
          BY <2>2, <3>2, <4>1
        <5> QED
          BY <2>2, <4>1, <5>1
      <4>2. CASE i = 0
        BY <2>2, <3>1, <3>2, <4>2
      <4>3. CASE i # 0 /\ i # m + 1
        <5>1. i \in 0 .. m /\ i - 1 \in 0 .. m + 1 /\ i - 1 # m + 1
          BY <2>2, <4>3
        <5>2. h[i] = g[i] /\ h[i - 1] = g[i - 1]
          BY <3>2, <4>3, <5>1
        <5>3. g[i] = 2 * g[i - 1] + bits[i]
          BY <3>1, <4>3, <5>1
        <5> QED
          BY <4>3, <5>2, <5>3
      <4> QED
        BY <4>1, <4>2, <4>3
    <3>4. h = Def(h, m + 1)
      BY <3>2, <3>3
    <3> QED
      BY <2>2, <3>4, SMTT(30)
  <2> HIDE DEF S
  <2> QED
    BY <2>1, <2>2, Counting
<1> DEFINE A == CHOOSE g : g = Def(g, len)
<1>3. A = Def(A, len)
  <2>1. \E g : g = Def(g, len)
    BY <1>1, <1>2
  <2> QED
    BY <2>1
<1>4. Serial!Number(bits) = A[len]
  BY <1>1 DEF Serial!Number
<1> HIDE DEF A
<1>5. \A i \in 0 .. len : i \in {j \in 0 .. len : A[j] \in Nat}
  <2> DEFINE N == {j \in 0 .. len : A[j] \in Nat}
  <2>1. 0 \in N
    BY <1>3
  <2>2. ASSUME NEW i \in 0 .. len - 1, i \in N PROVE i + 1 \in N
    <3>1. i + 1 \in 0 .. len /\ i + 1 # 0 /\ i + 1 - 1 = i
      BY <2>2
    <3>2. A[i + 1] = 2 * A[i] + bits[i + 1]
      BY <1>3, <3>1
    <3>3. bits[i + 1] \in {0, 1}
      BY <1>1, <2>2
    <3> QED
      BY <2>2, <3>1, <3>2, <3>3
  <2> HIDE DEF N
  <2>3. \A i \in 0 .. len : i \in N
    BY <2>1, <2>2, Counting
  <2> QED
    BY <2>3 DEF N
<1> QED
  BY <1>4, <1>5

(* An address is one of a word there is.                                   *)
LEMMA AddressIsAWord ==
    ASSUME NEW f \in Seq({0, 1}), Len(f) >= Serial!AddressFrame
    PROVE  Serial!AddressOf(f) \in Serial!Addresses
<1>1. PICK bits : bits = SubSeq(f, 4, Serial!AddressFrame)
  OBVIOUS
<1>2. bits \in Seq({0, 1})
  BY <1>1, Sizes
<1>3. PICK n \in Nat : n = Serial!Number(bits)
  BY <1>2, NumberIsNat
<1>4. n % Words \in 0 .. Words - 1
  BY <1>3, ChipsAssumption, Divided DEF Serial!ChipAssumption
<1> QED
  BY <1>1, <1>3, <1>4 DEF Serial!AddressOf, Serial!Addresses
(* All of the bits; an array with its words; and the n-th bit from the     *)
(* first one of a word on.                                                 *)
TotalBits == Words * Serial!WordBits
IsArray(data) == data \in [Serial!Addresses -> [1 .. Serial!WordBits -> {0, 1}]]
StoredBit(data, first, n) == data[(first + n \div Serial!WordBits) % Words][(n % Serial!WordBits) + 1]

(* A chip that gave k bits of a read from a first address on, counted      *)
(* round: the word it is in, and what is left to give of one byte of it.   *)
Gives(c, first, k) ==
    LET at == k % Serial!WordBits IN
    /\ k \in 0 .. TotalBits - 1
    /\ c.output_count = at
    /\ c.addr = (first + k \div Serial!WordBits) % Words
    /\ c.output = SubSeq(c.data[c.addr], at + 1, IF at < ByteBits THEN ByteBits ELSE Serial!WordBits)

(* What a chip that is asked for bits answers to a read.                   *)
Answers(c, r) ==
    /\ c.command \in GivesBits => r.first \in Serial!Addresses
    /\ c.command = "readdummy" => r.bits = 0 /\ c.addr = r.first
    /\ c.command = "readdata" =>
         /\ Gives(c, r.first, r.bits)
         /\ c.data_out = StoredBit(c.data, r.first, (r.bits - 1) % TotalBits)

(* The array keeps the size of its words, and a chip that was not          *)
(* deselected in the middle of a frame answers as the history says.        *)
ReadInv ==
    /\ IsArray(eeprom.data) /\ DOMAIN read = {"first", "bits"}
    /\ ~cut => Answers(eeprom, read)

(* How many bits there are.                                                *)
LEMMA ArraySizes ==
    /\ ByteBits \in Nat /\ ByteBits > 1 /\ Words \in Nat \ {0}
    /\ Serial!WordBits \in Nat \ {0} /\ Serial!WordBits = 2 * ByteBits
    /\ Serial!Addresses = 0 .. Words - 1
    /\ Serial!DataFrame = Serial!AddressFrame + Serial!WordBits
BY ChipsAssumption DEF Serial!ChipAssumption, Serial!WordBits, Serial!Addresses, Serial!DataFrame

(* A part of a word, its first bit, and the rest.                          *)
LEMMA PartOfWord ==
    ASSUME NEW w \in Nat, NEW word \in [1 .. w -> {0, 1}], NEW lo \in 1 .. w, NEW hi \in lo .. w
    PROVE  /\ Head(SubSeq(word, lo, hi)) = word[lo]
           /\ Tail(SubSeq(word, lo, hi)) = SubSeq(word, lo + 1, hi)
<1>1. word \in Seq({0, 1}) /\ Len(word) = w
  OBVIOUS
<1>2. PICK s : s = SubSeq(word, lo, hi)
  OBVIOUS
<1>3. s \in Seq({0, 1}) /\ Len(s) = hi - lo + 1 /\ \A i \in 1 .. hi - lo + 1 : s[i] = word[lo + i - 1]
  BY <1>1, <1>2
<1>4. Head(s) = word[lo]
  BY <1>3
<1>5. PICK t : t = SubSeq(word, lo + 1, hi)
  OBVIOUS
<1>6. t \in Seq({0, 1}) /\ Len(t) = hi - lo /\ \A i \in 1 .. hi - lo : t[i] = word[lo + i]
  BY <1>1, <1>5
<1>7. Tail(s) \in Seq({0, 1}) /\ Len(Tail(s)) = hi - lo /\ \A i \in 1 .. hi - lo : Tail(s)[i] = word[lo + i]
  BY <1>3
<1>8. Tail(s) = t
  BY <1>6, <1>7
<1> QED
  BY <1>2, <1>4, <1>5, <1>8

(* One bit more: the second byte after the first, the next word after the  *)
(* second, and the first word after the last.                              *)
LEMMA OneBitMore ==
    ASSUME NEW d, IsEeprom(d), IsArray(d.data), NEW first \in Serial!Addresses, NEW k,
           Gives(d, first, k)
    PROVE  LET e == Serial!NextByte(Serial!ShiftOut(d))
           IN  /\ e.command = d.command /\ e.data = d.data
               /\ Gives(e, first, (k + 1) % TotalBits)
               /\ (((k + 1) % TotalBits) - 1) % TotalBits = k
               /\ e.data_out = StoredBit(d.data, first, k)
<1>1. PICK w, n, by : w = Serial!WordBits /\ n = Words /\ by = ByteBits
  OBVIOUS
<1>2. by \in Nat /\ by > 1 /\ n \in Nat \ {0} /\ w \in Nat \ {0} /\ w = 2 * by
  BY <1>1, ArraySizes
<1>3. PICK at, m, a : at = k % w /\ m = (k + 1) % (n * w) /\ a = d.addr
  OBVIOUS
<1>4. k \in 0 .. n * w - 1 /\ first \in Nat /\ a = (first + k \div w) % n
  BY <1>1, <1>2, <1>3, ArraySizes DEF Gives, TotalBits
<1>5. /\ m \in 0 .. n * w - 1 /\ (m - 1) % (n * w) = k /\ at \in 0 .. w - 1
      /\ k \div w \in Nat
      /\ at + 1 < w => m % w = at + 1 /\ m \div w = k \div w
      /\ at + 1 = w => m % w = 0 /\ (first + m \div w) % n = (a + 1) % n
  <2>1. ComesNext(w, n, first, k, m)
    BY <1>2, <1>3, <1>4, NextBit
  <2> QED
    BY <1>3, <1>4, <2>1 DEF ComesNext
<1>6. a \in Serial!Addresses /\ (a + 1) % n \in Serial!Addresses
  <2>1. first + k \div w \in Nat
    BY <1>4, <1>5
  <2>2. a \in 0 .. n - 1
    BY <1>2, <1>4, <2>1, Divided
  <2>3. (a + 1) % n \in 0 .. n - 1
    BY <1>2, <2>2, Divided
  <2> QED
    BY <1>1, <2>2, <2>3, ArraySizes
<1>7. PICK word : word = d.data[a]
  OBVIOUS
<1>8. word \in [1 .. w -> {0, 1}]
  BY <1>1, <1>6, <1>7 DEF IsArray
<1>9. PICK hi : hi = IF at < by THEN by ELSE w
  OBVIOUS
<1>10. /\ d.output = SubSeq(word, at + 1, hi) /\ d.output_count = at
       /\ at + 1 \in 1 .. w /\ hi \in at + 1 .. w
  <2>1. d.output = SubSeq(word, at + 1, hi) /\ d.output_count = at
    BY <1>1, <1>3, <1>7, <1>9 DEF Gives
  <2>2. at + 1 \in 1 .. w /\ hi \in at + 1 .. w
    BY <1>2, <1>5, <1>9
  <2> QED
    BY <2>1, <2>2
<1>11. Head(d.output) = word[at + 1] /\ Tail(d.output) = SubSeq(word, at + 2, hi)
  <2>1. at + 1 + 1 = at + 2
    BY <1>5
  <2> QED
    BY <1>2, <1>8, <1>10, <2>1, PartOfWord, SMTT(30)
<1>12. PICK s : s = Serial!ShiftOut(d)
  OBVIOUS
<1>13. /\ IsEeprom(s) /\ s.command = d.command /\ s.data = d.data /\ s.addr = a
       /\ s.data_out = word[at + 1] /\ s.output = SubSeq(word, at + 2, hi)
       /\ s.output_count = at + 1
  BY <1>3, <1>10, <1>11, <1>12 DEF IsEeprom, Serial!ShiftOut
<1>14. PICK e : e = Serial!NextByte(s)
  OBVIOUS
<1>15. /\ e.command = d.command /\ e.data = d.data /\ e.data_out = word[at + 1]
       /\ e.output_count = m % w
       /\ e.addr = (first + m \div w) % n
       /\ e.output = SubSeq(e.data[e.addr], (m % w) + 1, IF m % w < by THEN by ELSE w)
  <2>1. CASE at + 1 = by
    <3>1. e = [s EXCEPT !.output = Serial!ByteOf(s, a, 1)]
      <4>1. s.output_count = ByteBits /\ s.output_count # Serial!WordBits
        BY <1>1, <1>2, <1>13, <2>1
      <4> QED
        BY <1>13, <1>14, <4>1 DEF Serial!NextByte
    <3>2. at + 1 < w /\ ~(at + 1 < by) /\ 1 * by + 1 = at + 1 + 1 /\ (1 + 1) * by = w
      BY <1>2, <1>5, <2>1
    <3>3. m % w = at + 1 /\ (first + m \div w) % n = a
      BY <1>4, <1>5, <3>2
    <3>4. Serial!ByteOf(s, a, 1) = SubSeq(word, at + 1 + 1, w)
      BY <1>1, <1>7, <1>13, <3>2 DEF Serial!ByteOf
    <3>5. /\ e.command = d.command /\ e.data = d.data /\ e.data_out = word[at + 1]
          /\ e.output_count = at + 1 /\ e.addr = a /\ e.output = SubSeq(word, at + 1 + 1, w)
      BY <1>13, <3>1, <3>4 DEF IsEeprom
    <3> QED
      BY <1>7, <3>2, <3>3, <3>5
  <2>2. CASE at + 1 # by /\ at + 1 < w
    <3>1. e = s
      BY <1>1, <1>2, <1>5, <1>13, <1>14, <2>2 DEF Serial!NextByte
    <3>2. m % w = at + 1 /\ (first + m \div w) % n = a
      BY <1>4, <1>5, <2>2
    <3>3. at + 2 = at + 1 + 1 /\ hi = IF at + 1 < by THEN by ELSE w
      BY <1>2, <1>5, <1>9, <2>2
    <3> QED
      BY <1>7, <1>13, <3>1, <3>2, <3>3
  <2>3. CASE at + 1 = w
    <3>1. PICK x : x = (a + 1) % n
      OBVIOUS
    <3>2. at + 1 # by /\ 0 < by /\ 0 * by + 1 = 0 + 1 /\ (0 + 1) * by = by
      BY <1>2, <1>5, <2>3
    <3>3. e = [s EXCEPT !.addr = x, !.output = Serial!ByteOf(s, x, 0), !.output_count = 0]
      BY <1>1, <1>13, <1>14, <2>3, <3>1, <3>2 DEF Serial!NextByte
    <3>4. m % w = 0 /\ (first + m \div w) % n = x
      BY <1>5, <2>3, <3>1
    <3>5. Serial!ByteOf(s, x, 0) = SubSeq(d.data[x], 0 + 1, by)
      BY <1>1, <1>13, <3>2 DEF Serial!ByteOf
    <3>6. /\ e.command = d.command /\ e.data = d.data /\ e.data_out = word[at + 1]
          /\ e.output_count = 0 /\ e.addr = x /\ e.output = SubSeq(d.data[x], 0 + 1, by)
      BY <1>13, <3>3, <3>5 DEF IsEeprom
    <3> QED
      BY <3>2, <3>4, <3>6
  <2>4. at + 1 < w \/ at + 1 = w
    BY <1>5, <1>2
  <2> QED
    BY <2>1, <2>2, <2>3, <2>4
<1>16. Gives(e, first, m)
  BY <1>1, <1>5, <1>15 DEF Gives, TotalBits
<1>17. word[at + 1] = StoredBit(d.data, first, k)
  BY <1>1, <1>3, <1>4, <1>7 DEF StoredBit
<1> QED
  BY <1>1, <1>3, <1>5, <1>12, <1>14, <1>15, <1>16, <1>17 DEF TotalBits

(* Whatever an edge does, the array keeps the size of its words.           *)
LEMMA ArrayKept ==
    ASSUME NEW c, IsEeprom(c), IsArray(c.data), NEW b \in {0, 1}
    PROVE  IsArray(Serial!Clocked(c, b).data)
<1>1. PICK d : d = [c EXCEPT !.input = Append(@, b)]
  OBVIOUS
<1>2. /\ IsEeprom(d) /\ d.data = c.data /\ d.input \in Seq({0, 1})
  BY <1>1 DEF IsEeprom
<1>3. Serial!Erased \in [1 .. Serial!WordBits -> {0, 1}]
  BY DEF Serial!Erased
<1>4. \A word \in [1 .. Serial!WordBits -> {0, 1}] :
         IsArray(Serial!Fill(word)) /\ \A a : IsArray([d.data EXCEPT ![a] = word])
  BY <1>2 DEF IsArray, Serial!Fill
<1>5. \A data : /\ Serial!Stores(d, data).data = data
                /\ Serial!Refuses(d).data = d.data
                /\ Serial!Emptied(d).data = d.data
                /\ [Serial!Refuses(d) EXCEPT !.write_enable = TRUE].data = d.data
                /\ [Serial!Refuses(d) EXCEPT !.write_enable = FALSE].data = d.data
                /\ \A a : [Serial!Emptied(d) EXCEPT !.command = "readdummy", !.addr = a].data = d.data
  <2>1. PICK x : x = Serial!Emptied(d)
    OBVIOUS
  <2>2. DOMAIN x = DOMAIN d /\ x.data = d.data
    BY <1>2, <2>1 DEF IsEeprom, Serial!Emptied
  <2>3. PICK y : y = Serial!Refuses(d)
    OBVIOUS
  <2>4. DOMAIN y = DOMAIN d /\ y.data = d.data
    BY <1>2, <2>1, <2>2, <2>3 DEF IsEeprom, Serial!Refuses
  <2>5. \A data : Serial!Stores(d, data).data = data
    BY <1>2, <2>1, <2>2 DEF IsEeprom, Serial!Stores
  <2>6. /\ [y EXCEPT !.write_enable = TRUE].data = d.data
        /\ [y EXCEPT !.write_enable = FALSE].data = d.data
    BY <1>2, <2>4 DEF IsEeprom
  <2>7. \A a : [x EXCEPT !.command = "readdummy", !.addr = a].data = d.data
    BY <1>2, <2>2 DEF IsEeprom
  <2> QED
    BY <2>1, <2>2, <2>3, <2>4, <2>5, <2>6, <2>7
<1>6. IsArray(Serial!Addressed(d).data)
  <2>1. Serial!Addressed(d).data
          \in {d.data, Serial!Fill(Serial!Erased),
               [d.data EXCEPT ![Serial!AddressOf(d.input)] = Serial!Erased]}
    BY <1>5 DEF Serial!Addressed
  <2>2. IsArray(d.data)
    BY <1>2
  <2> QED
    BY <1>3, <1>4, <2>1, <2>2
<1>7. Len(d.input) = Serial!DataFrame => IsArray(Serial!Loaded(d).data)
  <2>1. SUFFICES ASSUME Len(d.input) = Serial!DataFrame PROVE IsArray(Serial!Loaded(d).data)
    OBVIOUS
  <2>2. PICK word : word = Serial!WordOf(d.input)
    OBVIOUS
  <2>3. word \in [1 .. Serial!WordBits -> {0, 1}]
    <3>1. PICK s, l, h : s = d.input /\ l = Serial!AddressFrame /\ h = Serial!WordBits
      OBVIOUS
    <3>2. s \in Seq({0, 1}) /\ l \in Nat /\ h \in Nat \ {0} /\ Len(s) = l + h /\ Serial!DataFrame = l + h
      BY <1>2, <2>1, <3>1, Sizes, ArraySizes
    <3>3. PICK t : t = SubSeq(s, l + 1, l + h)
      OBVIOUS
    <3>4. t \in Seq({0, 1}) /\ Len(t) = h
      BY <3>2, <3>3
    <3>5. t \in [1 .. h -> {0, 1}]
      BY <3>4
    <3> QED
      BY <2>2, <3>1, <3>2, <3>3, <3>5 DEF Serial!WordOf
  <2>4. IsArray(d.data)
    BY <1>2
  <2>5. Serial!Loaded(d).data
          \in {d.data, Serial!Fill(word), [d.data EXCEPT ![Serial!AddressOf(d.input)] = word]}
    BY <1>5, <2>2 DEF Serial!Loaded
  <2> QED
    BY <1>4, <2>3, <2>4, <2>5
<1>8. /\ [d EXCEPT !.command = Serial!Opcode(d.input)].data = d.data
      /\ Serial!SubCommanded(d).data = d.data
  BY <1>2 DEF IsEeprom, Serial!SubCommanded
<1>9. IsArray(Serial!ShiftIn(c, b).data)
  BY <1>1, <1>2, <1>6, <1>7, <1>8 DEF Serial!ShiftIn
<1>10. \A x : /\ Serial!ShiftOut(c).data = c.data
             /\ Serial!ShiftOut([c EXCEPT !.output = x, !.output_count = 0,
                                          !.command = "readdata"]).data = c.data
  BY DEF IsEeprom, Serial!ShiftOut
<1>11. IsEeprom(Serial!ShiftOut(c))
  BY DEF IsEeprom, Serial!ShiftOut
<1>12. Serial!NextByte(Serial!ShiftOut(c)).data = c.data
  BY <1>10, <1>11 DEF IsEeprom, Serial!NextByte
<1> QED
  BY <1>9, <1>10, <1>12 DEF Serial!Clocked

(* A chip begins to answer a read when all of its address has arrived.     *)
LEMMA ReadBegins ==
    ASSUME NEW c, IsEeprom(c), NEW f \in Seq({0, 1}), Follows(c, f), NEW b \in {0, 1},
           c.command \notin GivesBits, Serial!Clocked(c, b).command \in GivesBits
    PROVE  /\ Serial!Clocked(c, b).command = "readdummy"
           /\ Serial!Clocked(c, b).addr = Serial!AddressOf(Serial!Extended(f, b))
           /\ Serial!Extended(f, b) # f /\ Serial!Extended(f, b) \in Seq({0, 1})
           /\ IsRead(Serial!Extended(f, b))
<1>1. PICK e, d : e = Serial!Clocked(c, b) /\ d = [c EXCEPT !.input = Append(@, b)]
  OBVIOUS
<1>2. e = Serial!ShiftIn(c, b)
  BY <1>1 DEF Serial!Clocked, GivesBits
<1>3. /\ IsEeprom(d) /\ d.command = c.command /\ d.input = Append(c.input, b)
      /\ d.input \in Seq({0, 1}) /\ c.input \in Seq({0, 1})
  BY <1>1 DEF IsEeprom
<1>4. /\ Serial!Opcode(d.input) \notin GivesBits
      /\ Serial!SubOpcode(d.input) \notin GivesBits
  BY Opcodes DEF GivesBits
<1>5. /\ [d EXCEPT !.command = Serial!Opcode(d.input)].command \notin GivesBits
      /\ Serial!SubCommanded(d).command \notin GivesBits
  BY <1>3, <1>4 DEF IsEeprom, Serial!SubCommanded
<1>6. \A data : Serial!Stores(d, data).command = c.command /\ Serial!Refuses(d).command = "none"
  BY <1>3 DEF IsEeprom, Serial!Stores, Serial!Refuses, Serial!Emptied
<1>7. Serial!Loaded(d).command \notin GivesBits
  BY <1>3, <1>6 DEF Serial!Loaded, GivesBits
<1>8. Len(d.input) = Serial!AddressFrame /\ e = Serial!Addressed(d) /\ e.command \in GivesBits
  BY <1>1, <1>2, <1>3, <1>5, <1>7 DEF Serial!ShiftIn
<1>9. d.command = "read"
  <2>1. SUFFICES ASSUME d.command # "read" PROVE FALSE
    OBVIOUS
  <2>2. /\ [Serial!Refuses(d) EXCEPT !.write_enable = TRUE].command = "none"
        /\ [Serial!Refuses(d) EXCEPT !.write_enable = FALSE].command = "none"
    BY <1>3 DEF IsEeprom, Serial!Refuses, Serial!Emptied
  <2> QED
    BY <1>3, <1>6, <1>8, <2>1, <2>2 DEF Serial!Addressed, GivesBits
<1>10. e.command = "readdummy" /\ e.addr = Serial!AddressOf(d.input)
  <2>1. e = [Serial!Emptied(d) EXCEPT !.command = "readdummy", !.addr = Serial!AddressOf(d.input)]
    BY <1>8, <1>9 DEF Serial!Addressed
  <2> QED
    BY <1>3, <2>1 DEF IsEeprom, Serial!Emptied
<1>11. Len(d.input) = Len(c.input) + 1
  BY <1>3
<1>12. c.input # << >>
  <2>1. \A n \in Nat : n > 5 => n # 0 + 1
    OBVIOUS
  <2> QED
    BY <1>8, <1>11, <2>1, Sizes
<1>13. ~Serial!Whole(f) /\ c.input = f
  BY <1>12 DEF Follows
<1>14. Serial!Extended(f, b) = d.input
  BY <1>3, <1>12, <1>13 DEF Serial!Extended
<1>15. d.input # f
  BY <1>3, <1>11, <1>13
<1>16. IsRead(d.input)
  <2>1. Obeys(c, f, e, d.input)
    BY <1>1, <1>14, ClockedObeys
  <2> QED
    BY <1>8, <2>1 DEF Obeys, Follows
<1> QED
  BY <1>1, <1>3, <1>10, <1>14, <1>15, <1>16

(* And goes on with it, a bit at an edge.                                  *)
LEMMA ReadGoesOn ==
    ASSUME NEW c, IsEeprom(c), IsArray(c.data), NEW b \in {0, 1}, NEW r,
           c.command \in GivesBits, Answers(c, r),
           NEW s, s.first = r.first, s.bits = (r.bits + 1) % TotalBits
    PROVE  Answers(Serial!Clocked(c, b), s)
<1>1. PICK d : d = IF c.command = "readdata" THEN c
                   ELSE [c EXCEPT !.output = Serial!ByteOf(c, c.addr, 0), !.output_count = 0,
                                  !.command = "readdata"]
  OBVIOUS
<1>2. /\ IsEeprom(d) /\ d.data = c.data /\ d.command = "readdata"
  BY <1>1 DEF IsEeprom
<1>3. r.first \in Serial!Addresses /\ Gives(d, r.first, r.bits)
  <2>1. r.first \in Serial!Addresses
    BY DEF Answers
  <2>2. CASE c.command = "readdata"
    BY <1>1, <2>1, <2>2 DEF Answers
  <2>3. CASE c.command = "readdummy"
    <3>1. r.bits = 0 /\ c.addr = r.first
      BY <2>3 DEF Answers
    <3>2. /\ d.addr = r.first /\ d.output_count = 0
          /\ d.output = Serial!ByteOf(c, r.first, 0)
      BY <1>1, <2>3, <3>1 DEF IsEeprom
    <3>3. 0 \in 0 .. TotalBits - 1
      <4>1. Words * Serial!WordBits >= 1 /\ Words * Serial!WordBits \in Nat
        BY ArraySizes
      <4> QED
        BY <4>1 DEF TotalBits
    <3>4. PICK w, n, f : w = Serial!WordBits /\ n = Words /\ f = r.first
      OBVIOUS
    <3>5. w \in Nat \ {0} /\ n \in Nat \ {0} /\ f \in 0 .. n - 1
      BY <2>1, <3>4, ArraySizes
    <3>6. 0 % w = 0 /\ 0 \div w = 0
      BY <3>5
    <3>7. (f + 0 \div w) % n = f
      <4>1. f + 0 = f /\ f % n = f
        BY <3>5
      <4> QED
        BY <3>6, <4>1
    <3>10. 0 % Serial!WordBits = 0 /\ (r.first + 0 \div Serial!WordBits) % Words = r.first
      BY <3>4, <3>6, <3>7
    <3>8. 0 < ByteBits /\ 0 * ByteBits + 1 = 0 + 1 /\ (0 + 1) * ByteBits = ByteBits
      BY ArraySizes
    <3>9. d.output = SubSeq(d.data[d.addr], 0 + 1, ByteBits)
      BY <1>2, <3>2, <3>8 DEF Serial!ByteOf
    <3>11. d.output = SubSeq(d.data[d.addr], 0 + 1, IF 0 < ByteBits THEN ByteBits ELSE Serial!WordBits)
      BY <3>8, <3>9
    <3>12. Gives(d, r.first, 0)
      BY <3>2, <3>3, <3>10, <3>11 DEF Gives
    <3> QED
      BY <2>1, <3>1, <3>12
  <2> QED
    BY <2>1, <2>2, <2>3 DEF GivesBits
<1>4. PICK k : k = r.bits
  OBVIOUS
<1>5. Gives(d, r.first, k) /\ IsArray(d.data)
  BY <1>2, <1>3, <1>4
<1>6. PICK e : e = Serial!NextByte(Serial!ShiftOut(d))
  OBVIOUS
<1>7. /\ e.command = "readdata" /\ e.data = c.data
      /\ Gives(e, r.first, s.bits) /\ (s.bits - 1) % TotalBits = k
      /\ e.data_out = StoredBit(c.data, r.first, k)
  BY <1>2, <1>3, <1>4, <1>5, <1>6, OneBitMore
<1>8. Answers(e, s)
  BY <1>3, <1>7 DEF Answers
<1>9. Serial!Clocked(c, b) = e
  <2>1. CASE c.command = "readdata"
    BY <1>1, <1>6, <2>1 DEF Serial!Clocked
  <2>2. CASE c.command = "readdummy"
    <3>1. Serial!Clocked(c, b) = Serial!ShiftOut(d)
      BY <1>1, <2>2 DEF Serial!Clocked
    <3>2. Serial!ShiftOut(d).output_count = 1
      <4>1. d.output_count = 0
        BY <1>1, <2>2 DEF IsEeprom
      <4> QED
        BY <1>2, <4>1 DEF IsEeprom, Serial!ShiftOut
    <3>3. 1 # ByteBits /\ 1 # Serial!WordBits
      BY ArraySizes
    <3>4. e = Serial!ShiftOut(d)
      BY <1>6, <3>2, <3>3 DEF Serial!NextByte
    <3> QED
      BY <3>1, <3>4
  <2> QED
    BY <2>1, <2>2 DEF GivesBits
<1> QED
  BY <1>8, <1>9

(* A read that is answered is so after a store with the select line high.  *)
LEMMA HighReads ==
    ASSUME SerialInv, ReadInv, SerialInv', NEW b \in {0, 1}, NEW v \in {0, 1},
           eeprom' = Serial!WriteClock(Serial!WriteSelect(eeprom, 1), b, v),
           Serial!NoteStore(1, b, v)
    PROVE  ReadInv'
<1> DEFINE emptied == eeprom.cs = 0 /\ eeprom.clock = 0
           edge == v = 1 /\ eeprom.clock = 0
<1>1. PICK d, k : d = Serial!WriteSelect(eeprom, 1) /\ k = Serial!Kept(1)
  OBVIOUS
<1>2. /\ IsEeprom(d) /\ d.cs = 1 /\ d.clock = eeprom.clock /\ d.data = eeprom.data
      /\ d.command = eeprom.command /\ d.addr = eeprom.addr /\ d.output = eeprom.output
      /\ d.output_count = eeprom.output_count /\ d.data_out = eeprom.data_out
      /\ k = frame /\ k \in Seq({0, 1})
      /\ emptied \/ ~cut => Follows(d, k)
  BY <1>1, SelectHigh
<1>3. /\ Serial!Rising([eeprom EXCEPT !.cs = 1], v) <=> edge
      /\ Serial!Rising(d, v) <=> edge
  BY <1>2 DEF Serial!Rising, SerialInv, IsEeprom
<1>4. PICK e : e = IF edge THEN Serial!Clocked(d, b) ELSE d
  OBVIOUS
<1>5. eeprom' = [e EXCEPT !.clock = v]
  BY <1>1, <1>3, <1>4 DEF Serial!WriteClock
<1>6. IsEeprom(e) /\ IsArray(e.data) /\ IsArray(d.data)
  <2>1. IsArray(d.data)
    BY <1>2 DEF ReadInv
  <2> QED
    BY <1>2, <1>4, <2>1, ClockedKeeps, ArrayKept
<1>7. /\ eeprom'.command = e.command /\ eeprom'.data = e.data /\ eeprom'.addr = e.addr
      /\ eeprom'.output = e.output /\ eeprom'.output_count = e.output_count
      /\ eeprom'.data_out = e.data_out
  BY <1>5, <1>6 DEF IsEeprom
<1>8. /\ cut' = (~emptied /\ cut)
      /\ frame' = IF cut' THEN << >> ELSE IF edge THEN Serial!Extended(k, b) ELSE k
  <2>1. cut' = (~emptied /\ cut)
    BY DEF Serial!NoteStore
  <2>2. frame' = IF cut' THEN << >> ELSE IF edge THEN Serial!Extended(k, b) ELSE k
    BY <1>1, <1>3 DEF Serial!NoteStore
  <2> QED
    BY <2>1, <2>2
<1>9. read' = IF ~IsRead(frame') THEN Serial!NoRead
              ELSE IF Serial!Completed THEN [Serial!NoRead EXCEPT !.first = Serial!AddressOf(frame')]
              ELSE IF edge THEN [read EXCEPT !.bits = (@ + 1) % TotalBits]
              ELSE read
  BY <1>3 DEF Serial!NoteStore, IsRead, TotalBits
<1>10. DOMAIN read' = {"first", "bits"}
  <2>1. DOMAIN read = {"first", "bits"}
    BY DEF ReadInv
  <2> QED
    BY <1>9, <2>1 DEF Serial!NoRead
<1>11. ASSUME ~cut' PROVE Answers(e, read')
  <2>1. Follows(d, k)
    BY <1>2, <1>8, <1>11
  <2>2. CASE e.command \notin GivesBits
    BY <2>2 DEF Answers, GivesBits
  <2>3. CASE e.command \in GivesBits /\ d.command \notin GivesBits
    <3>1. edge /\ e = Serial!Clocked(d, b) /\ frame' = Serial!Extended(k, b)
      BY <1>4, <1>8, <1>11, <2>3
    <3>2. /\ e.command = "readdummy" /\ e.addr = Serial!AddressOf(frame')
          /\ frame' # k /\ frame' \in Seq({0, 1}) /\ IsRead(frame')
      BY <1>2, <2>1, <2>3, <3>1, ReadBegins
    <3>3. Serial!Completed
      BY <1>2, <3>2 DEF Serial!Completed, IsRead
    <3>4. read'.first = Serial!AddressOf(frame') /\ read'.bits = 0
      BY <1>9, <3>2, <3>3 DEF Serial!NoRead
    <3>5. Serial!AddressOf(frame') \in Serial!Addresses
      <4>1. Len(frame') >= Serial!AddressFrame
        BY <3>2 DEF IsRead, Serial!Whole
      <4> QED
        BY <3>2, <4>1, AddressIsAWord
    <3> QED
      BY <3>2, <3>4, <3>5 DEF Answers
  <2>4. CASE e.command \in GivesBits /\ d.command \in GivesBits
    <3>1. ~emptied /\ ~cut
      <4>1. ~emptied
        BY <1>2, <2>4, Sizes DEF SerialInv
      <4> QED
        BY <1>8, <1>11, <4>1 DEF SerialInv
    <3>2. Answers(d, read)
      BY <1>2, <3>1 DEF ReadInv, Answers, Gives
    <3>3. IsRead(k) /\ ~Serial!Completed /\ frame' = k
      <4>1. IsRead(k)
        BY <2>1, <2>4 DEF Follows
      <4>2. Serial!Extended(k, b) = k
        BY <4>1 DEF Serial!Extended, IsRead
      <4>3. frame' = k
        BY <1>8, <1>11, <4>2
      <4> QED
        BY <1>2, <4>1, <4>3 DEF Serial!Completed
    <3>4. CASE edge
      <4>1. read'.first = read.first /\ read'.bits = (read.bits + 1) % TotalBits
        <5>1. DOMAIN read = {"first", "bits"}
          BY DEF ReadInv
        <5> QED
          BY <1>9, <3>3, <3>4, <5>1
      <4>2. e = Serial!Clocked(d, b)
        BY <1>4, <3>4
      <4> QED
        BY <1>2, <1>6, <2>4, <3>2, <4>1, <4>2, ReadGoesOn
    <3>5. CASE ~edge
      <4>1. e = d /\ read' = read
        BY <1>4, <1>9, <3>3, <3>5
      <4> QED
        BY <3>2, <4>1
    <3> QED
      BY <3>4, <3>5
  <2> QED
    BY <2>2, <2>3, <2>4
<1>12. ~cut' => Answers(eeprom', read')
  BY <1>7, <1>11 DEF Answers, Gives
<1> QED
  BY <1>6, <1>7, <1>10, <1>12 DEF ReadInv

(* And it has ended after one with the line low.                           *)
LEMMA LowReads ==
    ASSUME SerialInv, ReadInv, SerialInv', NEW b \in {0, 1}, NEW v \in {0, 1},
           eeprom' = Serial!WriteSelect(eeprom, 0), Serial!NoteStore(0, b, v)
    PROVE  ReadInv'
<1>1. eeprom'.command \notin Serial!Reads /\ eeprom'.data = eeprom.data
  BY SelectLow DEF SerialInv
<1>2. DOMAIN read = {"first", "bits"} /\ IsArray(eeprom.data)
  BY DEF ReadInv
<1>3. DOMAIN read' = {"first", "bits"}
  BY <1>2 DEF Serial!NoteStore, Serial!NoRead
<1>4. Answers(eeprom', read')
  BY <1>1, Sizes DEF Answers, GivesBits
<1> QED
  BY <1>1, <1>2, <1>3, <1>4 DEF ReadInv

(* Every step keeps what a read answers.                                   *)
LEMMA ReadStep ==
    ASSUME SerialInv, ReadInv, SerialInv', [Serial!Next]_(Serial!vars)
    PROVE  ReadInv'
<1>1. ASSUME NEW cs \in Serial!Bit, NEW din \in Serial!Bit, NEW clk \in Serial!Bit,
             Serial!Store(cs, din, clk)
      PROVE  ReadInv'
  <2>1. CASE cs = 0
    <3>1. eeprom' = Serial!WriteSelect(eeprom, 0) /\ Serial!NoteStore(0, din, clk)
      BY <1>1, <2>1 DEF Serial!Store, Serial!Lines
    <3> QED
      BY <1>1, <3>1, LowReads DEF Serial!Bit
  <2>2. CASE cs = 1
    <3>1. /\ eeprom' = Serial!WriteClock(Serial!WriteSelect(eeprom, 1), din, clk)
          /\ Serial!NoteStore(1, din, clk)
      BY <1>1, <2>2 DEF Serial!Store, Serial!Lines
    <3> QED
      BY <1>1, <3>1, HighReads DEF Serial!Bit
  <2> QED
    BY <2>1, <2>2 DEF Serial!Bit
<1>2. CASE Serial!Poll
  <2>1. UNCHANGED <<cut, read>> /\ eeprom' = Serial!Polled(eeprom) /\ IsEeprom(eeprom)
    BY <1>2 DEF Serial!Poll, SerialInv
  <2>2. eeprom'.data = eeprom.data
    BY <2>1 DEF Serial!Polled, IsEeprom
  <2>3. eeprom' = eeprom \/ eeprom'.command \in {"isready", "none"}
    BY <2>1 DEF Serial!Polled, IsEeprom
  <2>4. ~cut' => Answers(eeprom', read')
    <3>1. CASE eeprom' = eeprom
      BY <2>1, <3>1 DEF ReadInv
    <3>2. CASE eeprom'.command \in {"isready", "none"}
      BY <3>2 DEF Answers, GivesBits
    <3> QED
      BY <2>3, <3>1, <3>2
  <2> QED
    BY <2>1, <2>2, <2>4 DEF ReadInv
<1>3. CASE Serial!Reset
  <2>1. /\ eeprom' = Serial!WriteSelect(eeprom, 0) /\ Serial!NoteStore(0, 0, eeprom.clock)
        /\ eeprom.clock \in {0, 1}
    BY <1>3 DEF Serial!Reset, SerialInv, IsEeprom
  <2> QED
    BY <2>1, LowReads
<1>4. CASE UNCHANGED Serial!vars
  BY <1>4 DEF Serial!vars, ReadInv
<1> QED
  BY <1>1, <1>2, <1>3, <1>4 DEF Serial!Next

(* A chip that was just made has an array, and nothing to answer.          *)
LEMMA ReadInitInv == Serial!Init => ReadInv
<1>1. SUFFICES ASSUME Serial!Init PROVE ReadInv
  OBVIOUS
<1>2. Serial!Erased \in [1 .. Serial!WordBits -> {0, 1}]
  BY DEF Serial!Erased
<1>3. IsArray(eeprom.data) /\ eeprom.command = "none"
  BY <1>1, <1>2 DEF Serial!Init, IsArray
<1> QED
  BY <1>1, <1>3 DEF Serial!Init, Serial!NoRead, ReadInv, Answers, GivesBits

(* A read of the EEPROM gives the words from its address on, first bit     *)
(* first, and goes round (m93c86.rs, write_clock).                         *)
LEMMA EepromAnswers == Serial!Spec => []ReadsAreStored
<1>1. Serial!Init => SerialInv /\ ReadInv
  BY SerialInitInv, ReadInitInv
<1>2. SerialInv /\ ReadInv /\ [Serial!Next]_(Serial!vars) => SerialInv' /\ ReadInv'
  BY SerialStep, ReadStep
<1>3. ReadInv => ReadsAreStored
  BY DEF ReadInv, Answers, ReadsAreStored, Serial!ReadsAreStored, Serial!BitAt, StoredBit,
     TotalBits, GivesBits
<1> QED
  BY <1>1, <1>2, <1>3, PTL DEF Serial!Spec

(* ReadsAreStored: and so in every cartridge that has one.                 *)
THEOREM ReadsAreAlwaysStored == ChipSpec => []ReadsAreStored
  BY CartsHaveEeproms, EepromAnswers, PTL

-----------------------------------------------------------------------------
(* The flash of a cartridge: what is erased.                               *)

(* A flash with its fields, and the types its erases need.                 *)
IsFlash(c) ==
    /\ DOMAIN c = {"data", "state", "base", "byte", "dirty", "mask", "armed", "wait",
                   "dq6", "cycles"}
    /\ DOMAIN c.data = Addrs /\ c.data = [a \in Addrs |-> c.data[a]]
    /\ c.base \in {"Read", "Autoselect"}

(* What a flash has still to erase was named, n being the sectors named.   *)
ErasesNamed(c, n) ==
    /\ IsFlash(c)
    /\ n \subseteq Flash!Sectors /\ c.mask \subseteq n
    /\ c.mask # {} =>
         c.state \in {"SectorEraseTimeout", "SectorErase", "SectorEraseSuspend"}
    /\ c.state = "ChipErase" => n = Flash!Sectors

(* d has come of c by alarm steps only.                                    *)
Later(c, d, n) ==
    /\ ErasesNamed(d, n)
    /\ Flash!Erasing(d) => Flash!Erasing(c)
    /\ \A a \in Addrs : d.data[a] \subseteq c.data[a] \/ (SectorOf[a] \in n /\ Flash!Erasing(c))

(* Sectors are numbers, and an address lies in one of them.                *)
LEMMA SectorsAreNumbers == Flash!Sectors \subseteq Nat /\ \A a \in Addrs : SectorOf[a] \in Flash!Sectors
  BY ChipsAssumption DEF Flash!FlashAssumption, Flash!Sectors

(* The first of some sectors is one of them.                               *)
LEMMA FirstIsOne ==
    ASSUME NEW s \in SUBSET Flash!Sectors, s # {} PROVE Flash!First(s) \in s
<1>1. \E x \in s : \A y \in s : x <= y
  BY SectorsAreNumbers, LeastElement
<1> QED
  BY <1>1 DEF Flash!First

(* An alarm step (alarm_fire) clears only what is named.                   *)
LEMMA FireIsLater ==
    ASSUME NEW c, NEW d, NEW n, Later(c, d, n) PROVE Later(c, Flash!Fire(d), n)
<1>1. /\ ErasesNamed(d, n) /\ IsFlash(d) /\ d.mask \subseteq n /\ n \subseteq Flash!Sectors
  BY DEF Later, ErasesNamed
<1> DEFINE f == Flash!Fire(d)
<1>2. ASSUME NEW e, IsFlash(e), e.data = d.data, e.mask = d.mask, e.mask = {} \/ e.state = "SectorErase",
             e.state \notin {"ChipErase", "SectorEraseTimeout"},
             e.state = "SectorErase" => Flash!Erasing(d)
      PROVE  Later(c, e, n)
  BY <1>1, <1>2 DEF Later, ErasesNamed, Flash!Erasing
<1>3. CASE d.state = "SectorEraseTimeout"
  <2>1. PICK e : e = f
    OBVIOUS
  <2>2. e = Flash!Armed([d EXCEPT !.state = "SectorErase"], Flash!Following(d))
    BY <1>3, <2>1 DEF Flash!Fire
  <2>3. IsFlash(e) /\ e.data = d.data /\ e.mask = d.mask /\ e.state = "SectorErase"
    BY <1>1, <2>2 DEF Flash!Armed, IsFlash
  <2>4. Flash!Erasing(d)
    BY <1>3 DEF Flash!Erasing
  <2> QED
    BY <1>2, <2>1, <2>3, <2>4
<1>4. CASE d.state = "SectorErase"
  <2>1. PICK x : x = Flash!EraseNext(d)
    OBVIOUS
  <2>2. /\ IsFlash(x) /\ x.mask \subseteq d.mask /\ x.state = d.state /\ x.base = d.base
        /\ \A a \in Addrs : x.data[a] \subseteq d.data[a] \/ SectorOf[a] \in n
    <3>1. CASE d.mask = {}
      <4>1. x = d
        BY <2>1, <3>1 DEF Flash!EraseNext
      <4> QED
        BY <1>1, <4>1
    <3>2. CASE d.mask # {}
      <4>1. PICK s : s = Flash!First(d.mask)
        OBVIOUS
      <4>2. s \in d.mask /\ s \in n
        BY <1>1, <3>2, <4>1, FirstIsOne
      <4>3. x = [Flash!EraseSectors(d, {s}) EXCEPT !.mask = @ \ {s}]
        BY <2>1, <3>2, <4>1 DEF Flash!EraseNext
      <4>4. /\ DOMAIN x = DOMAIN d /\ x.mask = d.mask \ {s} /\ x.state = d.state /\ x.base = d.base
            /\ x.data = [a \in Addrs |-> IF SectorOf[a] \in {s} THEN Flash!Erased ELSE d.data[a]]
        BY <1>1, <4>3 DEF Flash!EraseSectors, IsFlash
      <4>5. IsFlash(x)
        BY <1>1, <4>4 DEF IsFlash
      <4> QED
        BY <4>2, <4>4, <4>5
    <3> QED
      BY <3>1, <3>2
  <2>3. Flash!Erasing(d)
    BY <1>4 DEF Flash!Erasing
  <2>4. ASSUME NEW e, IsFlash(e), e.data = x.data, e.mask = x.mask, e.mask = {} \/ e.state = "SectorErase",
               e.state # "ChipErase"
        PROVE  Later(c, e, n)
    BY <1>1, <2>2, <2>3, <2>4 DEF Later, ErasesNamed
  <2>5. CASE x.mask # {}
    <3>1. PICK e : e = Flash!Armed(x, Flash!Following(d))
      OBVIOUS
    <3>2. f = e
      BY <1>4, <2>1, <2>5, <3>1 DEF Flash!Fire
    <3>3. IsFlash(e) /\ e.data = x.data /\ e.mask = x.mask /\ e.state = "SectorErase"
      BY <1>4, <2>2, <3>1 DEF Flash!Armed, IsFlash
    <3> QED
      BY <2>4, <3>2, <3>3
  <2>6. CASE x.mask = {}
    <3>1. PICK e : e = Flash!ToBase(Flash!Disarmed(x))
      OBVIOUS
    <3>2. f = e
      BY <1>4, <2>1, <2>6, <3>1 DEF Flash!Fire
    <3>3. IsFlash(e) /\ e.data = x.data /\ e.mask = x.mask /\ e.state = x.base
      BY <2>2, <3>1 DEF Flash!Disarmed, Flash!ToBase, IsFlash
    <3>4. e.state \in {"Read", "Autoselect"}
      BY <2>2, <3>3 DEF IsFlash
    <3> QED
      BY <2>4, <2>6, <3>2, <3>3, <3>4
  <2> QED
    BY <2>5, <2>6
<1>5. CASE d.state = "ChipErase"
  <2>1. PICK e : e = f
    OBVIOUS
  <2>2. e = Flash!ToBase(Flash!Disarmed(Flash!EraseSectors(d, Flash!Sectors)))
    BY <1>5, <2>1 DEF Flash!Fire
  <2>3. /\ DOMAIN e = DOMAIN d /\ e.mask = d.mask /\ e.state = d.base /\ e.base = d.base
        /\ e.data = [a \in Addrs |-> IF SectorOf[a] \in Flash!Sectors THEN Flash!Erased
                                     ELSE d.data[a]]
    BY <1>1, <2>2 DEF Flash!EraseSectors, Flash!Disarmed, Flash!ToBase, IsFlash
  <2>4. IsFlash(e) /\ e.state \in {"Read", "Autoselect"}
    BY <1>1, <2>3 DEF IsFlash
  <2>5. d.mask = {} /\ n = Flash!Sectors /\ Flash!Erasing(c)
    BY <1>5 DEF Later, ErasesNamed, Flash!Erasing
  <2>6. \A a \in Addrs : SectorOf[a] \in n
    BY <2>5, SectorsAreNumbers
  <2> QED
    BY <1>1, <2>1, <2>3, <2>4, <2>5, <2>6 DEF Later, ErasesNamed
<1>6. CASE d.state = "ProgramBusy"
  <2>1. PICK e : e = f
    OBVIOUS
  <2>2. e = Flash!ToBase(Flash!Disarmed(d))
    BY <1>6, <2>1 DEF Flash!Fire
  <2>3. IsFlash(e) /\ e.data = d.data /\ e.mask = d.mask /\ e.state = d.base
    BY <1>1, <2>2 DEF Flash!Disarmed, Flash!ToBase, IsFlash
  <2>4. e.state \in {"Read", "Autoselect"} /\ e.mask = {}
    BY <1>1, <1>6, <2>3 DEF IsFlash, ErasesNamed
  <2> QED
    BY <1>2, <2>1, <2>3, <2>4
<1>7. CASE d.state \notin {"SectorEraseTimeout", "SectorErase", "ChipErase", "ProgramBusy"}
  <2>1. PICK e : e = f
    OBVIOUS
  <2>2. e = Flash!Disarmed(d)
    BY <1>7, <2>1 DEF Flash!Fire
  <2>3. IsFlash(e) /\ e.data = d.data /\ e.mask = d.mask /\ e.state = d.state
    BY <1>1, <2>2 DEF Flash!Disarmed, IsFlash
  <2> QED
    BY <1>1, <1>7, <2>1, <2>3 DEF Later, ErasesNamed, Flash!Erasing
<1> QED
  BY <1>3, <1>4, <1>5, <1>6, <1>7

(* What catch_up_erase computes: so many alarm steps, one after the other. *)
Stepped(d) == IF Flash!Due(d) THEN Flash!Fire(d) ELSE d

(* catch_up_erase as the sequence of what its steps leave: the steps are   *)
(* defined by recursion, and there is a function that obeys it, for a      *)
(* least number that has none would be the successor of one that has.      *)
LEMMA CatchUpSteps ==
    ASSUME NEW c, GuardSteps \in Nat
    PROVE  \E g : /\ g[0] = c
                  /\ \A n \in 1 .. GuardSteps : g[n] = Stepped(g[n - 1])
                  /\ Flash!CatchUp(c) = IF Flash!Due(c) THEN g[GuardSteps] ELSE c
<1> DEFINE Def(g, m) == [n \in 0 .. m |-> IF n = 0 THEN c ELSE Stepped(g[n - 1])]
           T == {m \in Nat : ~(\E g : g = Def(g, m))}
<1>1. T = {}
  <2>1. SUFFICES ASSUME T # {} PROVE FALSE
    OBVIOUS
  <2>2. PICK m \in T : \A y \in T : m <= y
    BY <2>1, LeastElement
  <2>3. m # 0
    <3>1. PICK g : g = [n \in 0 .. 0 |-> c]
      OBVIOUS
    <3>2. g = Def(g, 0)
      BY <3>1
    <3> QED
      BY <3>2
  <2>4. m - 1 \in Nat /\ m - 1 \notin T
    BY <2>2, <2>3
  <2>5. PICK g : g = Def(g, m - 1)
    BY <2>4
  <2>6. PICK h : h = [n \in 0 .. m |-> IF n = m THEN Stepped(g[m - 1]) ELSE g[n]]
    OBVIOUS
  <2>7. h = Def(h, m)
    <3>1. ASSUME NEW n \in 0 .. m
          PROVE  h[n] = IF n = 0 THEN c ELSE Stepped(h[n - 1])
      <4>1. CASE n = 0
        BY <2>3, <2>4, <2>5, <2>6, <4>1
      <4>2. CASE n = m
        <5>1. h[n] = Stepped(g[m - 1]) /\ h[n - 1] = g[m - 1]
          BY <2>4, <2>6, <4>2
        <5> QED
          BY <2>3, <4>2, <5>1
      <4>3. CASE n # 0 /\ n # m
        <5>1. n \in 0 .. m - 1 /\ n - 1 \in 0 .. m /\ n - 1 # m
          BY <2>4, <4>3
        <5>2. h[n] = g[n] /\ h[n - 1] = g[n - 1]
          BY <2>6, <4>3, <5>1
        <5>3. g[n] = Stepped(g[n - 1])
          BY <2>5, <4>3, <5>1
        <5> QED
          BY <4>3, <5>2, <5>3
      <4> QED
        BY <4>1, <4>2, <4>3
    <3> QED
      BY <2>6, <3>1
  <2> QED
    BY <2>7
<1> DEFINE A == CHOOSE g : g = Def(g, GuardSteps)
<1>2. A = Def(A, GuardSteps)
  <2>1. \E g : g = Def(g, GuardSteps)
    BY <1>1
  <2> QED
    BY <2>1
<1>3. Flash!CatchUp(c) = IF Flash!Due(c) THEN A[GuardSteps] ELSE c
  BY DEF Flash!CatchUp, Stepped
<1> HIDE DEF A
<1>4. A[0] = c /\ \A n \in 1 .. GuardSteps : A[n] = Stepped(A[n - 1])
  BY <1>2
<1> QED
  BY <1>3, <1>4

(* g is what the alarm steps make of a chip c, one after the other.        *)
Steps(g, c) == g[0] = c /\ \A n \in 1 .. GuardSteps : g[n] = Stepped(g[n - 1])

(* Whether anything is due or not, the last of them is what is caught up.  *)
LEMMA CatchUpIsLast ==
    ASSUME NEW c
    PROVE  \E g : Steps(g, c) /\ Flash!CatchUp(c) = g[GuardSteps]
<1>1. GuardSteps \in Nat
  BY ChipsAssumption DEF Flash!FlashAssumption
<1>2. PICK g : /\ Steps(g, c)
               /\ Flash!CatchUp(c) = IF Flash!Due(c) THEN g[GuardSteps] ELSE c
  BY <1>1, CatchUpSteps DEF Steps
<1>3. CASE ~Flash!Due(c)
  <2> DEFINE S == {n \in 0 .. GuardSteps : g[n] = c}
  <2>1. 0 \in S
    BY <1>1, <1>2 DEF Steps
  <2>2. ASSUME NEW n \in 0 .. GuardSteps - 1, n \in S PROVE n + 1 \in S
    <3>1. n + 1 \in 1 .. GuardSteps /\ n + 1 \in 0 .. GuardSteps /\ (n + 1) - 1 = n
      BY <1>1
    <3>2. g[n + 1] = Stepped(g[n])
      BY <1>2, <3>1 DEF Steps
    <3> QED
      BY <1>3, <2>2, <3>1, <3>2 DEF Stepped
  <2> HIDE DEF S
  <2>3. GuardSteps \in S
    BY <1>1, <2>1, <2>2, Counting
  <2> QED
    BY <1>2, <1>3, <2>3 DEF S
<1> QED
  BY <1>2, <1>3

(* However many steps are made up for, only what is named is cleared.      *)
LEMMA CatchUpIsLater ==
    ASSUME NEW c, NEW n, ErasesNamed(c, n) PROVE Later(c, Flash!CatchUp(c), n)
<1>1. GuardSteps \in Nat
  BY ChipsAssumption DEF Flash!FlashAssumption
<1>2. PICK g : Steps(g, c) /\ Flash!CatchUp(c) = g[GuardSteps]
  BY CatchUpIsLast
<1> DEFINE S == {m \in 0 .. GuardSteps : Later(c, g[m], n)}
<1>3. 0 \in S
  BY <1>1, <1>2 DEF Steps, Later
<1>4. ASSUME NEW m \in 0 .. GuardSteps - 1, m \in S PROVE m + 1 \in S
  <2>1. m + 1 \in 1 .. GuardSteps /\ m + 1 \in 0 .. GuardSteps /\ (m + 1) - 1 = m
    BY <1>1
  <2>2. g[m + 1] = Stepped(g[m])
    BY <1>2, <2>1 DEF Steps
  <2>3. Later(c, Stepped(g[m]), n)
    BY <1>4, FireIsLater DEF Stepped
  <2> QED
    BY <2>1, <2>2, <2>3
<1> HIDE DEF S
<1>5. GuardSteps \in S
  BY <1>1, <1>3, <1>4, Counting
<1> QED
  BY <1>2, <1>5 DEF S

(* A store to a chip with no step due erases nothing, and has the sectors  *)
(* of an erase named.                                                      *)
LEMMA StoreNames ==
    ASSUME NEW c, NEW a \in Addrs, NEW b, ErasesNamed(c, named)
    PROVE  /\ ErasesNamed(Flash!Store(c, a, b), Flash!Names(c, a, b))
           /\ \A x \in Addrs : Flash!Store(c, a, b).data[x] \subseteq c.data[x]
<1> DEFINE Sector == {"SectorEraseTimeout", "SectorErase", "SectorEraseSuspend"}
           Same(e) == IsFlash(e) /\ e.data = c.data /\ e.mask = c.mask
           Ok(e, n) == ErasesNamed(e, n) /\ \A x \in Addrs : e.data[x] \subseteq c.data[x]
<1>1. /\ IsFlash(c) /\ named \subseteq Flash!Sectors /\ c.mask \subseteq named
      /\ c.mask # {} => c.state \in Sector
      /\ c.state = "ChipErase" => named = Flash!Sectors
      /\ c.base \in {"Read", "Autoselect"} /\ SectorOf[a] \in Flash!Sectors
  BY SectorsAreNumbers DEF ErasesNamed, IsFlash
<1>2. PICK e : e = Flash!Store(c, a, b)
  OBVIOUS
<1>3. ASSUME Same(e), e.state = c.state PROVE Ok(e, named)
  BY <1>1, <1>3 DEF ErasesNamed
<1>4. ASSUME Same(e), e.state # "ChipErase", c.mask = {} PROVE Ok(e, named)
  BY <1>1, <1>4 DEF ErasesNamed
<1>5. ASSUME NEW w PROVE /\ Same([c EXCEPT !.state = w])
                         /\ [c EXCEPT !.state = w].state = w
                         /\ [c EXCEPT !.state = w].base = c.base
  BY <1>1 DEF IsFlash
<1>6. /\ Same(Flash!ToBase(c)) /\ Flash!ToBase(c).state \in {"Read", "Autoselect"}
  BY <1>1, <1>5 DEF Flash!ToBase
<1>7. CASE c.state \in {"Read", "Magic1", "EraseMagic1", "EraseMagic2"}
  <2>1. c.mask = {} /\ Flash!Names(c, a, b) = named
    BY <1>1, <1>7 DEF Flash!Names
  <2>2. e \in {c, Flash!ToBase(c)} \cup
             {[c EXCEPT !.state = w] : w \in {"Magic1", "Magic2", "EraseMagic2", "EraseSelect"}}
    BY <1>2, <1>7 DEF Flash!Store, Flash!Unlock
  <2>3. Same(e) /\ e.state # "ChipErase"
    <3>1. CASE e = c
      BY <1>1, <1>7, <3>1
    <3>2. CASE e = Flash!ToBase(c)
      BY <1>6, <3>2
    <3>3. CASE \E w \in {"Magic1", "Magic2", "EraseMagic2", "EraseSelect"} :
                  e = [c EXCEPT !.state = w]
      BY <1>5, <3>3
    <3> QED
      BY <2>2, <3>1, <3>2, <3>3
  <2> QED
    BY <1>2, <1>4, <2>1, <2>3
<1>8. CASE c.state \in {"Magic2", "ByteProgramError", "Autoselect"}
  <2>1. c.mask = {} /\ Flash!Names(c, a, b) = named
    BY <1>1, <1>8 DEF Flash!Names
  <2>2. Same(e) /\ e.state # "ChipErase"
    <3>1. ASSUME NEW w, w \in {"Read", "Autoselect"}, e = [c EXCEPT !.state = w, !.base = w]
          PROVE  Same(e) /\ e.state # "ChipErase"
      BY <1>1, <3>1 DEF IsFlash
    <3>2. e \in {c, Flash!ToBase(c), [c EXCEPT !.state = "Read", !.base = "Read"],
                 [c EXCEPT !.state = "Autoselect", !.base = "Autoselect"]} \cup
                {[c EXCEPT !.state = w] : w \in {"ByteProgram", "EraseMagic1", "Magic1"}}
      <4>1. CASE c.state = "Magic2"
        <5>1. e = Flash!Command(c, a, b)
          BY <1>2, <4>1 DEF Flash!Store
        <5>2. /\ Flash!X90 # Flash!XF0 /\ Flash!X90 # Flash!XA0 /\ Flash!X90 # Flash!X80
              /\ Flash!XF0 # Flash!XA0 /\ Flash!XF0 # Flash!X80 /\ Flash!XA0 # Flash!X80
          BY DEF Flash!X90, Flash!XF0, Flash!XA0, Flash!X80
        <5> QED
          BY <5>1, <5>2 DEF Flash!Command
      <4>2. CASE c.state # "Magic2"
        <5>1. e = Flash!Leave(c, a, b)
          BY <1>2, <1>8, <4>2 DEF Flash!Store
        <5>2. Flash!XF0 # Flash!XAA
          BY DEF Flash!XF0, Flash!XAA
        <5> QED
          BY <5>1, <5>2 DEF Flash!Leave
      <4> QED
        BY <4>1, <4>2
    <3>3. CASE e \in {c, Flash!ToBase(c)}
      BY <1>1, <1>6, <1>8, <3>3
    <3>4. CASE \E w \in {"ByteProgram", "EraseMagic1", "Magic1"} : e = [c EXCEPT !.state = w]
      BY <1>5, <3>4
    <3> QED
      BY <3>1, <3>2, <3>3, <3>4
  <2> QED
    BY <1>2, <1>4, <2>1, <2>2
<1>9. CASE c.state = "ByteProgram"
  <2>1. c.mask = {} /\ Flash!Names(c, a, b) = named
    BY <1>1, <1>9 DEF Flash!Names
  <2>2. PICK p : p = [c EXCEPT !.data[a] = @ \cap b, !.byte = b, !.dirty = TRUE]
    OBVIOUS
  <2>3. /\ IsFlash(p) /\ p.mask = c.mask
        /\ \A x \in Addrs : p.data[x] = IF x = a THEN c.data[x] \cap b ELSE c.data[x]
    <3>1. /\ DOMAIN p = DOMAIN c /\ p.mask = c.mask /\ p.base = c.base
          /\ p.data = [c.data EXCEPT ![a] = @ \cap b]
      BY <1>1, <2>2 DEF IsFlash
    <3> QED
      BY <1>1, <3>1 DEF IsFlash
  <2>4. /\ IsFlash(e) /\ e.data = p.data /\ e.mask = p.mask /\ e.state # "ChipErase"
    <3>1. e \in {[p EXCEPT !.state = "ByteProgramError"],
                 Flash!Armed([p EXCEPT !.state = "ProgramBusy", !.dq6 = FALSE], c.cycles),
                 Flash!ToBase(p)}
      <4>1. e = Flash!Program(c, a, b)
        BY <1>2, <1>9 DEF Flash!Store
      <4>2. e = CASE p.data[a] # b -> [p EXCEPT !.state = "ByteProgramError"]
                  [] p.data[a] = b /\ c.cycles > 0 ->
                         Flash!Armed([p EXCEPT !.state = "ProgramBusy", !.dq6 = FALSE], c.cycles)
                  [] OTHER -> Flash!ToBase(p)
        BY <2>2, <4>1 DEF Flash!Program
      <4> QED
        BY <4>2
    <3> QED
      BY <2>3, <3>1 DEF IsFlash, Flash!Armed, Flash!ToBase
  <2> QED
    BY <1>1, <1>2, <2>1, <2>3, <2>4 DEF ErasesNamed
<1>10. CASE c.state = "EraseSelect"
  <2>1. c.mask = {}
    BY <1>1, <1>10
  <2>2. e = Flash!SelectErase(c, a, b)
    BY <1>2, <1>10 DEF Flash!Store
  <2>3. Flash!X10 # Flash!X30
    BY DEF Flash!X10, Flash!X30
  <2>4. CASE a = Magic1 /\ b = Flash!X10
    <3>1. Flash!Names(c, a, b) = Flash!Sectors
      BY <1>10, <2>4 DEF Flash!Names
    <3>2. e = Flash!Armed([c EXCEPT !.state = "ChipErase", !.byte = {}], EraseChipCycles)
      BY <2>2, <2>3, <2>4 DEF Flash!SelectErase
    <3>3. Same(e) /\ e.state = "ChipErase"
      BY <1>1, <3>2 DEF IsFlash, Flash!Armed
    <3> QED
      BY <1>1, <1>2, <2>1, <3>1, <3>3 DEF ErasesNamed
  <2>5. CASE b = Flash!X30
    <3>1. Flash!Names(c, a, b) = {SectorOf[a]}
      BY <1>10, <2>3, <2>5 DEF Flash!Names
    <3>2. e = Flash!Armed([Flash!AddSector(c, a) EXCEPT !.state = "SectorEraseTimeout",
                                                       !.byte = {}], EraseSectorTimeout)
      BY <2>2, <2>3, <2>5 DEF Flash!SelectErase
    <3>3. /\ IsFlash(e) /\ e.data = c.data /\ e.mask = {SectorOf[a]}
          /\ e.state = "SectorEraseTimeout"
      BY <1>1, <2>1, <3>2 DEF IsFlash, Flash!Armed, Flash!AddSector
    <3> QED
      BY <1>1, <1>2, <3>1, <3>3 DEF ErasesNamed
  <2>6. CASE ~(a = Magic1 /\ b = Flash!X10) /\ b # Flash!X30
    <3>1. Flash!Names(c, a, b) = named
      BY <1>10, <2>6 DEF Flash!Names
    <3>2. e = Flash!ToBase(c)
      BY <2>2, <2>6 DEF Flash!SelectErase
    <3> QED
      BY <1>2, <1>4, <1>6, <2>1, <3>1, <3>2
  <2> QED
    BY <2>4, <2>5, <2>6
<1>11. CASE c.state = "SectorEraseTimeout"
  <2>1. e = Flash!NameMore(c, a, b)
    BY <1>2, <1>11 DEF Flash!Store
  <2>2. CASE b = Flash!X30
    <3>1. Flash!Names(c, a, b) = named \cup {SectorOf[a]}
      BY <1>11, <2>2 DEF Flash!Names
    <3>2. e = Flash!AddSector(c, a)
      BY <2>1, <2>2 DEF Flash!NameMore
    <3>3. /\ IsFlash(e) /\ e.data = c.data /\ e.mask = c.mask \cup {SectorOf[a]}
          /\ e.state = "SectorEraseTimeout"
      BY <1>1, <1>11, <3>2 DEF IsFlash, Flash!AddSector
    <3> QED
      BY <1>1, <1>2, <3>1, <3>3 DEF ErasesNamed
  <2>3. CASE b # Flash!X30
    <3>1. Flash!Names(c, a, b) = {}
      BY <1>11, <2>3 DEF Flash!Names
    <3>2. e = Flash!ToBase(Flash!Disarmed([c EXCEPT !.mask = {}]))
      BY <2>1, <2>3 DEF Flash!NameMore
    <3>3. IsFlash(e) /\ e.data = c.data /\ e.mask = {} /\ e.state = c.base
      BY <1>1, <3>2 DEF IsFlash, Flash!Disarmed, Flash!ToBase
    <3> QED
      BY <1>1, <1>2, <3>1, <3>3 DEF ErasesNamed
  <2> QED
    BY <2>2, <2>3
<1>12. CASE c.state \in {"SectorErase", "SectorEraseSuspend"}
  <2>1. Flash!Names(c, a, b) = named
    BY <1>12 DEF Flash!Names
  <2>2. e \in {c, Flash!Disarmed([c EXCEPT !.state = "SectorEraseSuspend"]),
               Flash!Armed([c EXCEPT !.state = "SectorErase"], EraseSectorCycles)}
    BY <1>2, <1>12 DEF Flash!Store, Flash!Suspend, Flash!Resume
  <2>3. Same(e) /\ e.state \in {"SectorErase", "SectorEraseSuspend"}
    BY <1>1, <1>12, <2>2 DEF IsFlash, Flash!Armed, Flash!Disarmed
  <2> QED
    BY <1>1, <1>2, <2>1, <2>3 DEF ErasesNamed
<1>13. CASE c.state \notin Sector \cup {"Read", "Magic1", "EraseMagic1", "EraseMagic2", "Magic2",
                       "ByteProgramError", "Autoselect", "ByteProgram", "EraseSelect"}
  <2>1. Flash!Names(c, a, b) = named /\ e = c
    BY <1>2, <1>13 DEF Flash!Store, Flash!Names
  <2> QED
    BY <1>1, <1>2, <1>3, <2>1
<1> QED
  BY <1>7, <1>8, <1>9, <1>10, <1>11, <1>12, <1>13

(* Other calls leave the array of a chip they caught up.                   *)
LEMMA OthersKeepFlash ==
    ASSUME NEW c, NEW n, ErasesNamed(c, n)
    PROVE  /\ ErasesNamed(Flash!Elapse(c), n) /\ Flash!Elapse(c).data = c.data
           /\ ErasesNamed(Flash!AfterRead(c), n) /\ Flash!AfterRead(c).data = c.data
           /\ LET d == Flash!Restored(c.data, c.cycles, Flash!Snapshot(c))
              IN  ErasesNamed(d, n) /\ d.data = c.data
<1>1. IsFlash(c)
  BY DEF ErasesNamed
<1>2. ASSUME NEW e, IsFlash(e), e.data = c.data, e.mask = c.mask, e.state = c.state
      PROVE  ErasesNamed(e, n) /\ e.data = c.data
  BY <1>2 DEF ErasesNamed
<1>3. ErasesNamed(Flash!Elapse(c), n) /\ Flash!Elapse(c).data = c.data
  <2>1. PICK e : e = Flash!Elapse(c)
    OBVIOUS
  <2>2. IsFlash(e) /\ e.data = c.data /\ e.mask = c.mask /\ e.state = c.state
    BY <1>1, <2>1 DEF IsFlash, Flash!Elapse
  <2> QED
    BY <1>2, <2>1, <2>2
<1>4. ErasesNamed(Flash!AfterRead(c), n) /\ Flash!AfterRead(c).data = c.data
  <2>1. PICK e : e = Flash!AfterRead(c)
    OBVIOUS
  <2>2. IsFlash(e) /\ e.data = c.data /\ e.mask = c.mask /\ e.state = c.state
    BY <1>1, <2>1 DEF IsFlash, Flash!AfterRead, Flash!ShowsErase, Flash!Erasing
  <2> QED
    BY <1>2, <2>1, <2>2
<1>5. LET d == Flash!Restored(c.data, c.cycles, Flash!Snapshot(c))
      IN  ErasesNamed(d, n) /\ d.data = c.data
  <2>1. PICK e : e = Flash!Restored(c.data, c.cycles, Flash!Snapshot(c))
    OBVIOUS
  <2>2. IsFlash(e) /\ e.data = c.data /\ e.mask = c.mask /\ e.state = c.state
    BY <1>1, <2>1 DEF IsFlash, Flash!Restored, Flash!Snapshot, Flash!NewChip
  <2> QED
    BY <1>2, <2>1, <2>2
<1> QED
  BY <1>3, <1>4, <1>5

(* Of the chip at hand: what is to be erased is named; and no step clears  *)
(* what is not.                                                            *)
FlashInv == ErasesNamed(chip, named)
NoStraySector == \A a \in Addrs : Flash!Gains(a) => SectorOf[a] \in named /\ Flash!Erasing(chip)

(* A new chip erases nothing.                                              *)
LEMMA FlashInitInv == Flash!Init => FlashInv
<1> SUFFICES ASSUME Flash!Init PROVE FlashInv
  OBVIOUS
<1>1. PICK d \in Images, n \in ProgramCycles : chip = Flash!NewChip(d, n)
  BY DEF Flash!Init
<1>2. d \in [Addrs -> SUBSET (0 .. 7)]
  BY ChipsAssumption DEF Flash!FlashAssumption
<1>3. IsFlash(chip) /\ chip.mask = {} /\ chip.state = "Read"
  BY <1>1, <1>2 DEF Flash!NewChip, IsFlash
<1> QED
  BY <1>3 DEF FlashInv, ErasesNamed, Flash!Init

(* Each call keeps what is to be erased named, and clears nothing else.    *)
LEMMA FlashStep ==
    ASSUME FlashInv, [Flash!Next]_(Flash!vars)
    PROVE  FlashInv' /\ NoStraySector
<1>1. CASE Flash!Tick
  BY <1>1, OthersKeepFlash DEF Flash!Tick, FlashInv, NoStraySector, Flash!Gains
<1> DEFINE c == Flash!CatchUp(chip)
<1>2. ErasesNamed(chip, named) /\ Later(chip, c, named) /\ ErasesNamed(c, named)
  BY CatchUpIsLater DEF FlashInv, Later
<1> HIDE DEF c
<1>3. ASSUME \A a \in Addrs : chip'.data[a] \subseteq c.data[a] PROVE NoStraySector
  BY <1>2, <1>3 DEF Later, NoStraySector, Flash!Gains
<1>4. CASE Flash!StoreByte
  <2>1. PICK a \in Addrs, b \in Stored :
           chip' = Flash!Store(c, a, b) /\ named' = Flash!Names(c, a, b)
    BY <1>4 DEF Flash!StoreByte, c
  <2> QED
    BY <1>2, <1>3, <2>1, StoreNames DEF FlashInv
<1>5. CASE Flash!ReadAddr
  <2>1. /\ UNCHANGED named
        /\ chip' = Flash!AfterRead(IF Flash!Idle(chip) THEN chip ELSE c)
    BY <1>5 DEF Flash!ReadAddr, c
  <2>2. CASE Flash!Idle(chip)
    BY <1>2, <2>1, <2>2, OthersKeepFlash DEF FlashInv, NoStraySector, Flash!Gains
  <2>3. CASE ~Flash!Idle(chip)
    BY <1>2, <1>3, <2>1, <2>3, OthersKeepFlash DEF FlashInv
  <2> QED
    BY <2>2, <2>3
<1>6. CASE Flash!GetData
  <2>1. UNCHANGED named /\ chip' = c
    BY <1>6 DEF Flash!GetData, c
  <2> QED
    BY <1>2, <1>3, <2>1 DEF FlashInv
<1>7. CASE Flash!CarryOver
  <2>1. UNCHANGED named /\ chip' = Flash!Restored(c.data, c.cycles, Flash!Snapshot(c))
    BY <1>7 DEF Flash!CarryOver, c
  <2> QED
    BY <1>2, <1>3, <2>1, OthersKeepFlash DEF FlashInv
<1>8. CASE UNCHANGED Flash!vars
  BY <1>8 DEF Flash!vars, FlashInv, NoStraySector, Flash!Gains
<1> QED
  BY <1>1, <1>4, <1>5, <1>6, <1>7, <1>8 DEF Flash!Next

(* A flash on its own clears only what it named.                           *)
LEMMA FlashErasesNamed == Flash!Spec => EraseOnlyNamed
<1>1. Flash!Init => FlashInv
  BY FlashInitInv
<1>2. FlashInv /\ [Flash!Next]_(Flash!vars) => FlashInv'
  BY FlashStep
<1>3. FlashInv /\ [Flash!Next]_(Flash!vars) => [NoStraySector]_(Flash!vars)
  BY FlashStep
<1> QED
  BY <1>1, <1>2, <1>3, PTL
  DEF Flash!Spec, EraseOnlyNamed, Flash!EraseOnlyNamed, NoStraySector

(* What is said of a flash on its own holds of it in a cartridge.          *)
LEMMA CartsHaveFlashes == ChipSpec => Flash!Spec
<1>1. ChipInit => Flash!Init
  BY DEF ChipInit
<1>2. [ChipNext]_chips => [Flash!Next]_(Flash!vars)
  BY DEF ChipNext, chips, flash, Flash!vars, FlashIsIn, EepromIsIn
<1> QED
  BY <1>1, <1>2, PTL DEF ChipSpec, Flash!Spec

(* EraseOnlyNamed: a flash sets bits only in sectors that the erase under  *)
(* way named, however late its steps are made up for (flash040.rs, store   *)
(* and catch_up_erase).                                                    *)
THEOREM ErasesAreAsNamed == ChipSpec => EraseOnlyNamed
  BY CartsHaveFlashes, FlashErasesNamed, PTL

-----------------------------------------------------------------------------
(* The flash of a cartridge: late is on time.                              *)

Field == {"data", "state", "base", "byte", "dirty", "mask", "armed", "wait", "dq6", "cycles"}

(* A chip whose alarm can be reckoned with, whatever bytes it holds.       *)
IsClocked(c) ==
    /\ DOMAIN c = Field /\ c = [x \in Field |-> c[x]]
    /\ c.armed \in BOOLEAN /\ c.wait \in Int /\ c.cycles \in ProgramCycles
    /\ c.mask \in SUBSET Flash!Sectors

(* What a wait is set to, and how long a program takes.                    *)
Times == /\ EraseSectorTimeout \in Int /\ EraseSectorTimeout > 0
         /\ EraseSectorCycles \in Int /\ EraseSectorCycles > 0
         /\ EraseChipCycles \in Int /\ EraseChipCycles > 0
         /\ \A n \in ProgramCycles : n \in Nat

(* Every wait set is one of some cycles.                                   *)
LEMMA TimesAreTimes == Times
  BY ChipsAssumption DEF Flash!FlashAssumption, Times

(* Setting the alarm.                                                      *)
LEMMA ClockedArmed ==
    ASSUME NEW c, IsClocked(c), NEW n \in Int
    PROVE  LET e == Flash!Armed(c, n)
           IN  IsClocked(e) /\ e.armed /\ e.wait = n /\ e.state = c.state /\ e.mask = c.mask
  BY DEF Flash!Armed, IsClocked, Field

(* Taking the alarm away.                                                  *)
LEMMA ClockedDisarmed ==
    ASSUME NEW c, IsClocked(c)
    PROVE  LET e == Flash!Disarmed(c)
           IN  IsClocked(e) /\ ~e.armed /\ e.state = c.state /\ e.mask = c.mask /\ e.base = c.base
<1>1. PICK e : e = Flash!Disarmed(c)
  OBVIOUS
<1>2. /\ DOMAIN e = Field /\ e = [x \in Field |-> e[x]] /\ e.armed = FALSE /\ e.wait = 0
      /\ e.cycles = c.cycles /\ e.state = c.state /\ e.mask = c.mask /\ e.base = c.base
  BY <1>1 DEF Flash!Disarmed, IsClocked, Field
<1>3. c.cycles \in ProgramCycles /\ c.mask \in SUBSET Flash!Sectors
  BY DEF IsClocked
<1>4. e.armed \in BOOLEAN
  <2>1. e.armed = FALSE
    BY <1>2
  <2> QED
    BY <2>1
<1>5. e.wait \in Int /\ e.cycles \in ProgramCycles /\ e.mask \in SUBSET Flash!Sectors
  <2>1. e.wait = 0 /\ e.cycles = c.cycles /\ e.mask = c.mask
    BY <1>2
  <2> QED
    BY <1>3, <2>1
<1>6. IsClocked(e)
  BY <1>2, <1>4, <1>5, Zenon DEF IsClocked
<1> QED
  BY <1>1, <1>2, <1>6

(* A change of state leaves the alarm alone.                               *)
LEMMA ClockedState ==
    ASSUME NEW c, IsClocked(c), NEW w
    PROVE  LET e == [c EXCEPT !.state = w]
           IN  /\ IsClocked(e) /\ e.armed = c.armed /\ e.wait = c.wait
               /\ e.mask = c.mask /\ e.state = w
  BY DEF IsClocked, Field

(* Erasing a sector takes it out of what is to be erased, and leaves the   *)
(* alarm.                                                                  *)
LEMMA ClockedEraseNext ==
    ASSUME NEW c, IsClocked(c)
    PROVE  LET e == Flash!EraseNext(c)
           IN  /\ IsClocked(e) /\ e.armed = c.armed /\ e.wait = c.wait /\ e.state = c.state
               /\ e.mask = IF c.mask = {} THEN {} ELSE c.mask \ {Flash!First(c.mask)}
<1>1. CASE c.mask = {}
  BY <1>1 DEF Flash!EraseNext
<1>2. CASE c.mask # {}
  <2>1. PICK s : s = Flash!First(c.mask)
    OBVIOUS
  <2>2. PICK v : v = [a \in Addrs |-> IF SectorOf[a] \in {s} THEN Flash!Erased ELSE c.data[a]]
    OBVIOUS
  <2>3. PICK m : m = c.mask \ {s}
    OBVIOUS
  <2>4. PICK e : e = [c EXCEPT !.data = v, !.dirty = TRUE, !.mask = m]
    OBVIOUS
  <2>5. Flash!EraseNext(c) = e
    BY <1>2, <2>1, <2>2, <2>3, <2>4 DEF Flash!EraseNext, Flash!EraseSectors, IsClocked, Field
  <2>6. /\ IsClocked(e) /\ e.armed = c.armed /\ e.wait = c.wait
        /\ e.state = c.state /\ e.mask = m
    <3>1. m \in SUBSET Flash!Sectors
      BY <2>3 DEF IsClocked
    <3> QED
      BY <2>4, <3>1 DEF IsClocked, Field
  <2> QED
    BY <1>2, <2>1, <2>3, <2>5, <2>6
<1> QED
  BY <1>1, <1>2

(* Erasing the whole array leaves the alarm.                               *)
LEMMA ClockedEraseAll ==
    ASSUME NEW c, IsClocked(c)
    PROVE  IsClocked(Flash!EraseSectors(c, Flash!Sectors))
<1>1. PICK v : v = [a \in Addrs |->
                       IF SectorOf[a] \in Flash!Sectors THEN Flash!Erased ELSE c.data[a]]
  OBVIOUS
<1>2. PICK e : e = [c EXCEPT !.data = v, !.dirty = TRUE]
  OBVIOUS
<1>3. Flash!EraseSectors(c, Flash!Sectors) = e
  BY <1>1, <1>2 DEF Flash!EraseSectors, IsClocked, Field
<1>4. IsClocked(e)
  BY <1>2 DEF IsClocked, Field
<1> QED
  BY <1>3, <1>4

(* A cycle moves the alarm, and nothing else.                              *)
LEMMA ClockedElapse ==
    ASSUME NEW c, IsClocked(c)
    PROVE  LET e == Flash!Elapse(c)
           IN  /\ IsClocked(e) /\ e.armed = c.armed /\ e.state = c.state /\ e.base = c.base
               /\ e.mask = c.mask /\ e.data = c.data
               /\ e.wait = IF c.armed THEN c.wait - 1 ELSE c.wait
  BY DEF Flash!Elapse, IsClocked, Field

(* A cycle before the alarm is set is lost, one after it is a cycle less   *)
(* to wait.                                                                *)
LEMMA ArmedWaits ==
    ASSUME NEW c, IsClocked(c), NEW n \in Int
    PROVE  /\ Flash!Armed(Flash!Elapse(c), n) = Flash!Armed(c, n)
           /\ Flash!Elapse(Flash!Armed(c, n)) = Flash!Armed(c, n - 1)
  BY DEF Flash!Armed, Flash!Elapse, IsClocked, Field

(* Without an alarm no cycle counts.                                       *)
LEMMA DisarmedWaits ==
    ASSUME NEW c, IsClocked(c)
    PROVE  /\ Flash!Disarmed(Flash!Elapse(c)) = Flash!Disarmed(c)
           /\ Flash!Elapse(Flash!Disarmed(c)) = Flash!Disarmed(c)
  BY DEF Flash!Disarmed, Flash!Elapse, IsClocked, Field

(* A change of state and a cycle can come in either order.                 *)
LEMMA StateWaits ==
    ASSUME NEW c, IsClocked(c), NEW w
    PROVE  [Flash!Elapse(c) EXCEPT !.state = w] = Flash!Elapse([c EXCEPT !.state = w])
  BY DEF Flash!Elapse, IsClocked, Field

(* So can an erase and a cycle,                                            *)
LEMMA EraseSectorsWaits ==
    ASSUME NEW c, IsClocked(c), NEW s
    PROVE  Flash!EraseSectors(Flash!Elapse(c), s) = Flash!Elapse(Flash!EraseSectors(c, s))
<1>1. PICK v : v = [a \in Addrs |-> IF SectorOf[a] \in s THEN Flash!Erased ELSE c.data[a]]
  OBVIOUS
<1>2. \A e : e.data = c.data /\ DOMAIN e = Field =>
               Flash!EraseSectors(e, s) = [e EXCEPT !.data = v, !.dirty = TRUE]
  BY <1>1 DEF Flash!EraseSectors, Field
<1>3. Flash!EraseSectors(Flash!Elapse(c), s) =
          [Flash!Elapse(c) EXCEPT !.data = v, !.dirty = TRUE]
  BY <1>2, ClockedElapse DEF IsClocked
<1>4. Flash!EraseSectors(c, s) = [c EXCEPT !.data = v, !.dirty = TRUE]
  BY <1>2 DEF IsClocked
<1>5. [Flash!Elapse(c) EXCEPT !.data = v, !.dirty = TRUE] =
          Flash!Elapse([c EXCEPT !.data = v, !.dirty = TRUE])
  BY DEF Flash!Elapse, IsClocked, Field
<1> QED
  BY <1>3, <1>4, <1>5

(* and that of the next sector and a cycle.                                *)
LEMMA EraseNextWaits ==
    ASSUME NEW c, IsClocked(c)
    PROVE  Flash!EraseNext(Flash!Elapse(c)) = Flash!Elapse(Flash!EraseNext(c))
<1>1. PICK e : e = Flash!Elapse(c)
  OBVIOUS
<1>2. e.mask = c.mask /\ e.data = c.data /\ IsClocked(e)
  BY <1>1, ClockedElapse
<1>3. CASE c.mask = {}
  BY <1>1, <1>2, <1>3 DEF Flash!EraseNext
<1>4. CASE c.mask # {}
  <2>1. PICK s : s = Flash!First(c.mask)
    OBVIOUS
  <2>2. PICK v : v = [a \in Addrs |-> IF SectorOf[a] \in {s} THEN Flash!Erased ELSE c.data[a]]
    OBVIOUS
  <2>3. PICK m : m = c.mask \ {s}
    OBVIOUS
  <2>4. \A d : IsClocked(d) /\ d.data = c.data /\ d.mask = c.mask =>
                 Flash!EraseNext(d) = [d EXCEPT !.data = v, !.dirty = TRUE, !.mask = m]
    BY <1>4, <2>1, <2>2, <2>3 DEF Flash!EraseNext, Flash!EraseSectors, IsClocked, Field
  <2>5. Flash!EraseNext(c) = [c EXCEPT !.data = v, !.dirty = TRUE, !.mask = m]
    BY <2>4
  <2>6. Flash!EraseNext(e) = [e EXCEPT !.data = v, !.dirty = TRUE, !.mask = m]
    BY <1>2, <2>4
  <2>7. [e EXCEPT !.data = v, !.dirty = TRUE, !.mask = m] =
        Flash!Elapse([c EXCEPT !.data = v, !.dirty = TRUE, !.mask = m])
    BY <1>1 DEF Flash!Elapse, IsClocked, Field
  <2> QED
    BY <1>1, <2>5, <2>6, <2>7
<1> QED
  BY <1>3, <1>4

(* The alarm steps a chip has still to take, at most: a sector each, one   *)
(* to begin when they are named, and one that finds none left.             *)
Left(c) == IF ~c.armed THEN 0
           ELSE Cardinality(c.mask) + (IF c.state = "SectorEraseTimeout" THEN 2 ELSE 1)

(* The guard of catch_up_erase allows for a step for each sector and two   *)
(* more.                                                                   *)
LEMMA SectorsAreFinite ==
    /\ IsFiniteSet(Flash!Sectors) /\ Cardinality(Flash!Sectors) \in Nat
    /\ GuardSteps \in Nat /\ GuardSteps >= Cardinality(Flash!Sectors) + 2
<1>1. Flash!Cardinality(Flash!Sectors) = Cardinality(Flash!Sectors)
  BY DEF Flash!Cardinality, Cardinality
<1>2. Flash!IsFiniteSet(Flash!Sectors) => IsFiniteSet(Flash!Sectors)
  BY DEF Flash!IsFiniteSet, IsFiniteSet
<1>3. IsFiniteSet(Flash!Sectors)
  BY <1>2, ChipsAssumption DEF Flash!FlashAssumption
<1>4. Cardinality(Flash!Sectors) \in Nat
  BY <1>3, FS_CardinalityType
<1>5. GuardSteps \in Nat /\ GuardSteps >= Flash!Cardinality(Flash!Sectors) + 2
  BY ChipsAssumption DEF Flash!FlashAssumption
<1> QED
  BY <1>1, <1>3, <1>4, <1>5

(* So it is never reached.                                                 *)
LEMMA LeftIsBounded ==
    ASSUME NEW c, IsClocked(c)
    PROVE  Left(c) \in 0 .. GuardSteps /\ Cardinality(c.mask) \in Nat /\ IsFiniteSet(c.mask)
<1>1. c.mask \in SUBSET Flash!Sectors /\ c.armed \in BOOLEAN
  BY DEF IsClocked
<1>2. /\ IsFiniteSet(c.mask) /\ Cardinality(c.mask) \in Nat
      /\ Cardinality(c.mask) <= Cardinality(Flash!Sectors)
  BY <1>1, SectorsAreFinite, FS_Subset, FS_CardinalityType
<1>3. Cardinality(c.mask) + 2 <= GuardSteps
  BY <1>2, SectorsAreFinite
<1> QED
  BY <1>2, <1>3, SectorsAreFinite DEF Left

(* An alarm step comes nearer to the end, and sets the next one the time   *)
(* of a sector off the time it was due.                                    *)
LEMMA FireAdvances ==
    ASSUME NEW c, IsClocked(c), c.armed
    PROVE  LET e == Flash!Fire(c)
           IN  /\ IsClocked(e) /\ Left(e) < Left(c)
               /\ e.armed => e.wait = c.wait + EraseSectorCycles
<1> USE TimesAreTimes DEF Times
<1>1. /\ Left(c) = Cardinality(c.mask) + (IF c.state = "SectorEraseTimeout" THEN 2 ELSE 1)
      /\ Cardinality(c.mask) \in Nat
  BY LeftIsBounded DEF Left
<1>2. Flash!Following(c) = c.wait + EraseSectorCycles /\ Flash!Following(c) \in Int
  BY DEF Flash!Following, IsClocked
<1>3. ASSUME NEW e, IsClocked(e), ~e.armed, Flash!Fire(c) = Flash!ToBase(e)
      PROVE  IsClocked(Flash!Fire(c)) /\ Left(Flash!Fire(c)) = 0 /\ ~Flash!Fire(c).armed
  <2>1. PICK d : d = [e EXCEPT !.state = e.base]
    OBVIOUS
  <2>2. IsClocked(d) /\ ~d.armed
    BY <1>3, <2>1, ClockedState
  <2>3. Flash!Fire(c) = d
    BY <1>3, <2>1 DEF Flash!ToBase
  <2> QED
    BY <2>2, <2>3 DEF Left
<1>4. CASE c.state = "SectorEraseTimeout"
  <2>1. PICK d : d = [c EXCEPT !.state = "SectorErase"]
    OBVIOUS
  <2>2. IsClocked(d) /\ d.mask = c.mask /\ d.state = "SectorErase"
    BY <2>1, ClockedState
  <2>3. PICK e : e = Flash!Armed(d, Flash!Following(c))
    OBVIOUS
  <2>4. /\ IsClocked(e) /\ e.armed /\ e.wait = Flash!Following(c)
        /\ e.state = "SectorErase" /\ e.mask = c.mask
    BY <1>2, <2>2, <2>3, ClockedArmed
  <2>5. Flash!Fire(c) = e
    BY <1>4, <2>1, <2>3 DEF Flash!Fire
  <2>6. Left(e) < Left(c)
    BY <1>1, <1>4, <2>4 DEF Left
  <2> QED
    BY <1>2, <2>4, <2>5, <2>6
<1>5. CASE c.state = "SectorErase"
  <2>1. PICK d : d = Flash!EraseNext(c)
    OBVIOUS
  <2>2. /\ IsClocked(d) /\ d.state = c.state
        /\ d.mask = IF c.mask = {} THEN {} ELSE c.mask \ {Flash!First(c.mask)}
    BY <2>1, ClockedEraseNext
  <2>3. CASE d.mask # {}
    <3>1. PICK e : e = Flash!Armed(d, Flash!Following(c))
      OBVIOUS
    <3>2. /\ IsClocked(e) /\ e.armed /\ e.wait = Flash!Following(c)
          /\ e.state = "SectorErase" /\ e.mask = d.mask
      BY <1>2, <1>5, <2>2, <3>1, ClockedArmed
    <3>3. Flash!Fire(c) = e
      BY <1>5, <2>1, <2>3, <3>1 DEF Flash!Fire
    <3>4. Cardinality(d.mask) = Cardinality(c.mask) - 1
      <4>1. Flash!First(c.mask) \in c.mask
        BY <2>2, <2>3, FirstIsOne DEF IsClocked
      <4> QED
        BY <2>2, <2>3, <4>1, FS_RemoveElement, LeftIsBounded
    <3>5. Left(e) < Left(c)
      BY <1>1, <1>5, <3>2, <3>4 DEF Left
    <3> QED
      BY <1>2, <3>2, <3>3, <3>5
  <2>4. CASE d.mask = {}
    <3>1. Flash!Fire(c) = Flash!ToBase(Flash!Disarmed(d))
      BY <1>5, <2>1, <2>4 DEF Flash!Fire
    <3> QED
      BY <1>1, <1>3, <2>2, <3>1, ClockedDisarmed
  <2> QED
    BY <2>3, <2>4
<1>6. CASE c.state = "ChipErase"
  <2>1. Flash!Fire(c) = Flash!ToBase(Flash!Disarmed(Flash!EraseSectors(c, Flash!Sectors)))
    BY <1>6 DEF Flash!Fire
  <2> QED
    BY <1>1, <1>3, <2>1, ClockedDisarmed, ClockedEraseAll
<1>7. CASE c.state = "ProgramBusy"
  <2>1. Flash!Fire(c) = Flash!ToBase(Flash!Disarmed(c))
    BY <1>7 DEF Flash!Fire
  <2> QED
    BY <1>1, <1>3, <2>1, ClockedDisarmed
<1>8. CASE c.state \notin {"SectorEraseTimeout", "SectorErase", "ChipErase", "ProgramBusy"}
  <2>1. Flash!Fire(c) = Flash!Disarmed(c)
    BY <1>8 DEF Flash!Fire
  <2>2. IsClocked(Flash!Disarmed(c)) /\ ~Flash!Disarmed(c).armed
    BY ClockedDisarmed
  <2>3. Left(Flash!Disarmed(c)) = 0
    BY <2>2 DEF Left
  <2> QED
    BY <1>1, <2>1, <2>2, <2>3
<1> QED
  BY <1>4, <1>5, <1>6, <1>7, <1>8

(* It does not matter whether a step is made up for before a cycle or      *)
(* after: what alarm_fire sets is counted from when the step was due.      *)
LEMMA FireWaits ==
    ASSUME NEW c, IsClocked(c), c.armed
    PROVE  Flash!Fire(Flash!Elapse(c)) = Flash!Elapse(Flash!Fire(c))
<1> USE TimesAreTimes DEF Times
<1>1. PICK f : f = Flash!Elapse(c)
  OBVIOUS
<1>2. /\ IsClocked(f) /\ f.state = c.state /\ f.wait = c.wait - 1 /\ f.mask = c.mask
  BY <1>1, ClockedElapse
<1>3. /\ Flash!Following(c) \in Int /\ Flash!Following(f) = Flash!Following(c) - 1
  BY <1>2 DEF Flash!Following, IsClocked
<1>4. ASSUME NEW d, IsClocked(d)
      PROVE  Flash!Elapse(Flash!ToBase(Flash!Disarmed(d))) = Flash!ToBase(Flash!Disarmed(d))
  BY <1>4, ClockedDisarmed, ClockedState DEF Flash!ToBase, Flash!Elapse
<1>5. ASSUME NEW d, IsClocked(d), NEW e, e = Flash!Elapse(d)
      PROVE  Flash!Armed(e, Flash!Following(f)) =
                 Flash!Elapse(Flash!Armed(d, Flash!Following(c)))
  BY <1>3, <1>5, ArmedWaits
<1>6. CASE c.state = "SectorEraseTimeout"
  <2>1. PICK d : d = [c EXCEPT !.state = "SectorErase"]
    OBVIOUS
  <2>2. PICK e : e = [f EXCEPT !.state = "SectorErase"]
    OBVIOUS
  <2>3. IsClocked(d) /\ e = Flash!Elapse(d)
    BY <1>1, <2>1, <2>2, ClockedState, StateWaits
  <2>4. /\ Flash!Fire(c) = Flash!Armed(d, Flash!Following(c))
        /\ Flash!Fire(f) = Flash!Armed(e, Flash!Following(f))
    BY <1>2, <1>6, <2>1, <2>2 DEF Flash!Fire
  <2> QED
    BY <1>1, <1>5, <2>3, <2>4
<1>7. CASE c.state = "SectorErase"
  <2>1. PICK d : d = Flash!EraseNext(c)
    OBVIOUS
  <2>2. PICK e : e = Flash!EraseNext(f)
    OBVIOUS
  <2>3. IsClocked(d) /\ e = Flash!Elapse(d)
    BY <1>1, <2>1, <2>2, ClockedEraseNext, EraseNextWaits
  <2>4. e.mask = d.mask
    BY <2>3, ClockedElapse
  <2>5. CASE d.mask # {}
    <3>1. /\ Flash!Fire(c) = Flash!Armed(d, Flash!Following(c))
          /\ Flash!Fire(f) = Flash!Armed(e, Flash!Following(f))
      BY <1>2, <1>7, <2>1, <2>2, <2>4, <2>5 DEF Flash!Fire
    <3> QED
      BY <1>1, <1>5, <2>3, <3>1
  <2>6. CASE d.mask = {}
    <3>1. /\ Flash!Fire(c) = Flash!ToBase(Flash!Disarmed(d))
          /\ Flash!Fire(f) = Flash!ToBase(Flash!Disarmed(e))
      BY <1>2, <1>7, <2>1, <2>2, <2>4, <2>6 DEF Flash!Fire
    <3>2. Flash!Disarmed(e) = Flash!Disarmed(d)
      BY <2>3, DisarmedWaits
    <3> QED
      BY <1>1, <1>4, <2>3, <3>1, <3>2
  <2> QED
    BY <2>5, <2>6
<1>8. CASE c.state = "ChipErase"
  <2>1. PICK d : d = Flash!EraseSectors(c, Flash!Sectors)
    OBVIOUS
  <2>2. PICK e : e = Flash!EraseSectors(f, Flash!Sectors)
    OBVIOUS
  <2>3. IsClocked(d) /\ e = Flash!Elapse(d)
    BY <1>1, <2>1, <2>2, ClockedEraseAll, EraseSectorsWaits
  <2>4. /\ Flash!Fire(c) = Flash!ToBase(Flash!Disarmed(d))
        /\ Flash!Fire(f) = Flash!ToBase(Flash!Disarmed(e))
    BY <1>2, <1>8, <2>1, <2>2 DEF Flash!Fire
  <2>5. Flash!Disarmed(e) = Flash!Disarmed(d)
    BY <2>3, DisarmedWaits
  <2> QED
    BY <1>1, <1>4, <2>3, <2>4, <2>5
<1>9. CASE c.state = "ProgramBusy"
  <2>1. /\ Flash!Fire(c) = Flash!ToBase(Flash!Disarmed(c))
        /\ Flash!Fire(f) = Flash!ToBase(Flash!Disarmed(f))
    BY <1>2, <1>9 DEF Flash!Fire
  <2>2. Flash!Disarmed(f) = Flash!Disarmed(c)
    BY <1>1, DisarmedWaits
  <2> QED
    BY <1>1, <1>4, <2>1, <2>2
<1>10. CASE c.state \notin {"SectorEraseTimeout", "SectorErase", "ChipErase", "ProgramBusy"}
  <2>1. Flash!Fire(c) = Flash!Disarmed(c) /\ Flash!Fire(f) = Flash!Disarmed(f)
    BY <1>2, <1>10 DEF Flash!Fire
  <2> QED
    BY <1>1, <2>1, DisarmedWaits
<1> QED
  BY <1>6, <1>7, <1>8, <1>9, <1>10

(* There are steps enough to make up for everything that is due.           *)
LEMMA StepsEnd ==
    ASSUME NEW c, IsClocked(c), NEW g, Steps(g, c)
    PROVE  /\ \A n \in 0 .. GuardSteps : IsClocked(g[n])
           /\ ~Flash!Due(g[GuardSteps])
<1>1. GuardSteps \in Nat
  BY SectorsAreFinite
<1> DEFINE Near(n) == IsClocked(g[n]) /\ (Flash!Due(g[n]) => Left(g[n]) <= GuardSteps - n)
           S == {n \in 0 .. GuardSteps : Near(n)}
<1>2. 0 \in S
  <2>1. Left(c) <= GuardSteps
    BY <1>1, LeftIsBounded
  <2> QED
    BY <1>1, <2>1 DEF Steps
<1>3. ASSUME NEW n \in 0 .. GuardSteps - 1, n \in S PROVE n + 1 \in S
  <2>1. n + 1 \in 1 .. GuardSteps /\ n + 1 \in 0 .. GuardSteps /\ (n + 1) - 1 = n
    BY <1>1
  <2>2. g[n + 1] = Stepped(g[n])
    BY <2>1 DEF Steps
  <2>3. CASE ~Flash!Due(g[n])
    BY <1>3, <2>1, <2>2, <2>3 DEF Stepped
  <2>4. CASE Flash!Due(g[n])
    <3>1. PICK d : d = g[n]
      OBVIOUS
    <3>2. PICK e : e = Flash!Fire(d)
      OBVIOUS
    <3>3. IsClocked(d) /\ d.armed /\ Left(d) <= GuardSteps - n
      BY <1>3, <2>4, <3>1 DEF Flash!Due
    <3>4. IsClocked(e) /\ Left(e) < Left(d)
      BY <3>2, <3>3, FireAdvances
    <3>5. Left(d) \in Int /\ Left(e) \in Int
      BY <3>3, <3>4, LeftIsBounded, <1>1
    <3>6. Left(e) <= GuardSteps - (n + 1)
      BY <1>1, <3>3, <3>4, <3>5
    <3>7. g[n + 1] = e
      BY <2>2, <2>4, <3>1, <3>2 DEF Stepped
    <3> QED
      BY <2>1, <3>4, <3>6, <3>7
  <2> QED
    BY <2>3, <2>4
<1> HIDE DEF S
<1>4. \A n \in 0 .. GuardSteps : n \in S
  BY <1>1, <1>2, <1>3, Counting
<1>5. \A n \in 0 .. GuardSteps : IsClocked(g[n])
  BY <1>4 DEF S
<1>6. ~Flash!Due(g[GuardSteps])
  <2>1. SUFFICES ASSUME Flash!Due(g[GuardSteps]) PROVE FALSE
    OBVIOUS
  <2>2. PICK d : d = g[GuardSteps]
    OBVIOUS
  <2>3. IsClocked(d) /\ d.armed /\ Left(d) <= GuardSteps - GuardSteps
    BY <1>1, <1>4, <2>1, <2>2 DEF S, Flash!Due
  <2>4. Cardinality(d.mask) \in Nat
    BY <2>3, LeftIsBounded
  <2> QED
    BY <1>1, <2>3, <2>4 DEF Left
<1> QED
  BY <1>5, <1>6

(* A chip caught up has nothing due.                                       *)
LEMMA CatchUpEnds ==
    ASSUME NEW c, IsClocked(c)
    PROVE  IsClocked(Flash!CatchUp(c)) /\ ~Flash!Due(Flash!CatchUp(c))
<1>1. PICK g : Steps(g, c) /\ Flash!CatchUp(c) = g[GuardSteps]
  BY CatchUpIsLast
<1>2. GuardSteps \in 0 .. GuardSteps
  BY SectorsAreFinite
<1> QED
  BY <1>1, <1>2, StepsEnd

(* A chip with nothing due is caught up.                                   *)
LEMMA NothingDue ==
    ASSUME NEW c, ~Flash!Due(c) PROVE Flash!CatchUp(c) = c
  BY DEF Flash!CatchUp

(* A cycle of the chip that is caught up later is, caught up, a cycle of   *)
(* one whose alarm is on time.                                             *)
LEMMA CatchUpWaits ==
    ASSUME NEW c, IsClocked(c)
    PROVE  Flash!CatchUp(Flash!Elapse(c)) = Stepped(Flash!Elapse(Flash!CatchUp(c)))
<1>1. GuardSteps \in Nat
  BY SectorsAreFinite
<1>2. PICK e : e = Flash!Elapse(c)
  OBVIOUS
<1>3. IsClocked(e)
  BY <1>2, ClockedElapse
<1>4. PICK g : Steps(g, c) /\ Flash!CatchUp(c) = g[GuardSteps]
  BY CatchUpIsLast
<1>5. PICK h : Steps(h, e) /\ Flash!CatchUp(e) = h[GuardSteps]
  BY CatchUpIsLast
<1>6. (\A n \in 0 .. GuardSteps : IsClocked(g[n])) /\ ~Flash!Due(h[GuardSteps])
  BY <1>3, <1>4, <1>5, StepsEnd
<1> DEFINE S == {n \in 0 .. GuardSteps :
                   \/ h[n] = Flash!Elapse(g[n])
                   \/ ~Flash!Due(g[n]) /\ h[n] = Stepped(Flash!Elapse(g[n]))}
<1>7. 0 \in S
  BY <1>1, <1>2, <1>4, <1>5 DEF Steps
<1>8. ASSUME NEW n \in 0 .. GuardSteps - 1, n \in S PROVE n + 1 \in S
  <2>1. /\ n + 1 \in 1 .. GuardSteps /\ n + 1 \in 0 .. GuardSteps /\ (n + 1) - 1 = n
        /\ n \in 0 .. GuardSteps
    BY <1>1
  <2>2. g[n + 1] = Stepped(g[n]) /\ h[n + 1] = Stepped(h[n])
    BY <1>4, <1>5, <2>1 DEF Steps
  <2>3. PICK d : d = g[n]
    OBVIOUS
  <2>4. PICK f : f = Flash!Elapse(d)
    OBVIOUS
  <2>5. /\ IsClocked(d) /\ IsClocked(f) /\ f.armed = d.armed
        /\ f.wait = IF d.armed THEN d.wait - 1 ELSE d.wait
    BY <1>6, <2>1, <2>3, <2>4, ClockedElapse
  <2>6. d.wait \in Int
    BY <2>5 DEF IsClocked
  <2>7. CASE Flash!Due(d)
    <3>1. d.armed /\ Flash!Due(f)
      BY <2>5, <2>6, <2>7 DEF Flash!Due
    <3>2. h[n + 1] = Flash!Fire(f)
      BY <1>8, <2>2, <2>3, <2>4, <2>7, <3>1 DEF Stepped
    <3>3. g[n + 1] = Flash!Fire(d)
      BY <2>2, <2>3, <2>7 DEF Stepped
    <3>4. h[n + 1] = Flash!Elapse(g[n + 1])
      BY <2>4, <2>5, <3>1, <3>2, <3>3, FireWaits
    <3> QED
      BY <2>1, <3>4
  <2>8. CASE ~Flash!Due(d)
    <3>1. g[n + 1] = d
      BY <2>2, <2>3, <2>8 DEF Stepped
    <3>2. ~Flash!Due(Stepped(f))
      <4>1. CASE ~Flash!Due(f)
        BY <4>1 DEF Stepped
      <4>2. CASE Flash!Due(f)
        <5>1. PICK k : k = Flash!Fire(f)
          OBVIOUS
        <5>2. f.armed /\ f.wait = 0
          BY <2>5, <2>6, <2>8, <4>2 DEF Flash!Due
        <5>3. IsClocked(k) /\ (k.armed => k.wait = f.wait + EraseSectorCycles)
          BY <2>5, <5>1, <5>2, FireAdvances
        <5>4. ~Flash!Due(k)
          BY <5>2, <5>3, TimesAreTimes DEF Times, Flash!Due
        <5> QED
          BY <4>2, <5>1, <5>4 DEF Stepped
      <4> QED
        BY <4>1, <4>2
    <3>3. Stepped(Stepped(f)) = Stepped(f)
      BY <3>2 DEF Stepped
    <3>4. h[n] = f \/ h[n] = Stepped(f)
      BY <1>8, <2>3, <2>4
    <3>5. h[n + 1] = Stepped(f)
      BY <2>2, <3>3, <3>4
    <3> QED
      BY <2>1, <2>4, <2>8, <3>1, <3>5
  <2> QED
    BY <2>7, <2>8
<1> HIDE DEF S
<1>9. GuardSteps \in S
  BY <1>1, <1>7, <1>8, Counting
<1>10. h[GuardSteps] = Stepped(Flash!Elapse(g[GuardSteps]))
  BY <1>6, <1>9 DEF S, Stepped
<1> QED
  BY <1>2, <1>4, <1>5, <1>10

(* A chip with nothing due.                                                *)
Rests(c) == IsClocked(c) /\ ~Flash!Due(c)

(* A change of anything but the alarm makes nothing due,                   *)
LEMMA RestsAlike ==
    ASSUME NEW c, Rests(c), NEW e, IsClocked(e), e.armed = c.armed, e.wait = c.wait
    PROVE  Rests(e)
  BY DEF Rests, Flash!Due

(* nor does setting the alarm,                                             *)
LEMMA RestsArmed ==
    ASSUME NEW c, IsClocked(c), NEW n \in Int, n > 0 PROVE Rests(Flash!Armed(c, n))
<1>1. PICK e : e = Flash!Armed(c, n)
  OBVIOUS
<1>2. IsClocked(e) /\ e.wait = n
  BY <1>1, ClockedArmed
<1> QED
  BY <1>1, <1>2 DEF Rests, Flash!Due

(* taking it away,                                                         *)
LEMMA RestsDisarmed ==
    ASSUME NEW c, IsClocked(c) PROVE Rests(Flash!Disarmed(c))
  BY ClockedDisarmed DEF Rests, Flash!Due

(* or a change of state.                                                   *)
LEMMA RestsState ==
    ASSUME NEW c, Rests(c), NEW w
    PROVE  /\ Rests([c EXCEPT !.state = w]) /\ Rests(Flash!ToBase(c))
           /\ Rests([c EXCEPT !.state = w, !.base = w])
<1>1. ASSUME NEW v PROVE Rests([c EXCEPT !.state = v])
  <2>1. PICK d : d = [c EXCEPT !.state = v]
    OBVIOUS
  <2>2. IsClocked(d) /\ d.armed = c.armed /\ d.wait = c.wait
    BY <2>1, ClockedState DEF Rests
  <2> QED
    BY <2>1, <2>2, RestsAlike
<1>2. PICK e : e = [c EXCEPT !.state = w, !.base = w]
  OBVIOUS
<1>3. IsClocked(e) /\ e.armed = c.armed /\ e.wait = c.wait
  BY <1>2 DEF Rests, IsClocked, Field
<1>4. Rests(e)
  BY <1>3, RestsAlike
<1> QED
  BY <1>1, <1>2, <1>4 DEF Flash!ToBase

(* A store to a chip with nothing due leaves one with nothing due: it is   *)
(* its own catching up.                                                    *)
LEMMA StoreRests ==
    ASSUME NEW c, Rests(c), NEW a \in Addrs, NEW b PROVE Rests(Flash!Store(c, a, b))
<1>1. PICK e : e = Flash!Store(c, a, b)
  OBVIOUS
<1>2. IsClocked(c) /\ Times /\ c.cycles \in Nat
  BY TimesAreTimes DEF Rests, IsClocked, Times
<1>3. Rests(Flash!ToBase(c)) /\ \A w : Rests([c EXCEPT !.state = w])
  BY RestsState
<1>4. /\ Rests([c EXCEPT !.state = "Read", !.base = "Read"])
      /\ Rests([c EXCEPT !.state = "Autoselect", !.base = "Autoselect"])
  BY RestsState
<1>5. CASE c.state = "Read"
  BY <1>1, <1>3, <1>5 DEF Flash!Store
<1>6. CASE c.state \in {"Magic1", "EraseMagic1", "EraseMagic2"}
  BY <1>1, <1>3, <1>6 DEF Flash!Store, Flash!Unlock
<1>7. CASE c.state = "Magic2"
  <2>1. e = Flash!Command(c, a, b)
    BY <1>1, <1>7 DEF Flash!Store
  <2>2. /\ Flash!X90 # Flash!XF0 /\ Flash!X90 # Flash!XA0 /\ Flash!X90 # Flash!X80
        /\ Flash!XF0 # Flash!XA0 /\ Flash!XF0 # Flash!X80 /\ Flash!XA0 # Flash!X80
    BY DEF Flash!X90, Flash!XF0, Flash!XA0, Flash!X80
  <2>3. \/ e \in {Flash!ToBase(c), [c EXCEPT !.state = "Read", !.base = "Read"],
                  [c EXCEPT !.state = "Autoselect", !.base = "Autoselect"]}
        \/ \E w \in {"ByteProgram", "EraseMagic1"} : e = [c EXCEPT !.state = w]
    BY <2>1, <2>2 DEF Flash!Command
  <2> QED
    BY <1>1, <1>3, <1>4, <2>3
<1>8. CASE c.state = "ByteProgram"
  <2>1. PICK v : v = [c.data EXCEPT ![a] = @ \cap b]
    OBVIOUS
  <2>2. PICK p : p = [c EXCEPT !.data = v, !.byte = b, !.dirty = TRUE]
    OBVIOUS
  <2>3. p = [c EXCEPT !.data[a] = @ \cap b, !.byte = b, !.dirty = TRUE]
    BY <1>2, <2>1, <2>2 DEF IsClocked, Field
  <2>4. IsClocked(p) /\ p.armed = c.armed /\ p.wait = c.wait
    BY <1>2, <2>2 DEF IsClocked, Field
  <2>5. Rests(p)
    BY <2>4, RestsAlike
  <2>6. PICK q : q = [p EXCEPT !.state = "ProgramBusy", !.dq6 = FALSE]
    OBVIOUS
  <2>7. IsClocked(q)
    BY <2>4, <2>6 DEF IsClocked, Field
  <2>8. e = Flash!Program(c, a, b)
    BY <1>1, <1>8 DEF Flash!Store
  <2>9. \/ e = [p EXCEPT !.state = "ByteProgramError"]
        \/ c.cycles > 0 /\ e = Flash!Armed(q, c.cycles)
        \/ e = Flash!ToBase(p)
    <3>1. e = CASE p.data[a] # b -> [p EXCEPT !.state = "ByteProgramError"]
                [] p.data[a] = b /\ c.cycles > 0 -> Flash!Armed(q, c.cycles)
                [] OTHER -> Flash!ToBase(p)
      BY <2>3, <2>6, <2>8 DEF Flash!Program
    <3> QED
      BY <3>1
  <2>10. ASSUME c.cycles > 0 PROVE Rests(Flash!Armed(q, c.cycles))
    BY <1>2, <2>7, <2>10, RestsArmed
  <2>11. Rests([p EXCEPT !.state = "ByteProgramError"]) /\ Rests(Flash!ToBase(p))
    BY <2>5, RestsState
  <2> QED
    BY <1>1, <2>9, <2>10, <2>11
<1>9. CASE c.state = "EraseSelect"
  <2>1. e = Flash!SelectErase(c, a, b)
    BY <1>1, <1>9 DEF Flash!Store
  <2>2. Flash!X10 # Flash!X30
    BY DEF Flash!X10, Flash!X30
  <2>3. PICK p : p = [c EXCEPT !.state = "ChipErase", !.byte = {}]
    OBVIOUS
  <2>4. IsClocked(p)
    BY <1>2, <2>3 DEF IsClocked, Field
  <2>5. PICK m : m = c.mask \cup {SectorOf[a]}
    OBVIOUS
  <2>6. m \in SUBSET Flash!Sectors
    BY <1>2, <2>5, SectorsAreNumbers DEF IsClocked
  <2>7. PICK q : q = [c EXCEPT !.mask = m, !.state = "SectorEraseTimeout", !.byte = {}]
    OBVIOUS
  <2>8. IsClocked(q)
    BY <1>2, <2>6, <2>7 DEF IsClocked, Field
  <2>9. q = [Flash!AddSector(c, a) EXCEPT !.state = "SectorEraseTimeout", !.byte = {}]
    BY <1>2, <2>5, <2>7 DEF Flash!AddSector, IsClocked, Field
  <2>10. e \in {Flash!Armed(p, EraseChipCycles), Flash!Armed(q, EraseSectorTimeout),
                Flash!ToBase(c)}
    BY <2>1, <2>2, <2>3, <2>9 DEF Flash!SelectErase
  <2> QED
    BY <1>1, <1>2, <1>3, <2>4, <2>8, <2>10, RestsArmed DEF Times
<1>10. CASE c.state = "SectorEraseTimeout"
  <2>1. e = Flash!NameMore(c, a, b)
    BY <1>1, <1>10 DEF Flash!Store
  <2>2. PICK m : m = c.mask \cup {SectorOf[a]}
    OBVIOUS
  <2>3. m \in SUBSET Flash!Sectors
    BY <1>2, <2>2, SectorsAreNumbers DEF IsClocked
  <2>4. PICK q : q = [c EXCEPT !.mask = m]
    OBVIOUS
  <2>5. IsClocked(q) /\ q.armed = c.armed /\ q.wait = c.wait
    BY <1>2, <2>3, <2>4 DEF IsClocked, Field
  <2>6. q = Flash!AddSector(c, a)
    BY <1>2, <2>2, <2>4 DEF Flash!AddSector, IsClocked, Field
  <2>7. PICK p : p = [c EXCEPT !.mask = {}]
    OBVIOUS
  <2>8. IsClocked(p)
    BY <1>2, <2>7 DEF IsClocked, Field
  <2>9. e \in {q, Flash!ToBase(Flash!Disarmed(p))}
    BY <2>1, <2>6, <2>7 DEF Flash!NameMore
  <2> QED
    BY <1>1, <2>5, <2>8, <2>9, RestsAlike, RestsDisarmed, RestsState
<1>11. CASE c.state \in {"SectorErase", "SectorEraseSuspend"}
  <2>1. e \in {c, Flash!Disarmed([c EXCEPT !.state = "SectorEraseSuspend"]),
               Flash!Armed([c EXCEPT !.state = "SectorErase"], EraseSectorCycles)}
    BY <1>1, <1>11 DEF Flash!Store, Flash!Suspend, Flash!Resume
  <2>2. \A w : IsClocked([c EXCEPT !.state = w])
    BY <1>3 DEF Rests
  <2> QED
    BY <1>1, <1>2, <2>1, <2>2, RestsArmed, RestsDisarmed DEF Times
<1>12. CASE c.state \in {"ByteProgramError", "Autoselect"}
  <2>1. e = Flash!Leave(c, a, b)
    BY <1>1, <1>12 DEF Flash!Store
  <2>2. Flash!XF0 # Flash!XAA
    BY DEF Flash!XF0, Flash!XAA
  <2>3. e \in {c, [c EXCEPT !.state = "Read", !.base = "Read"], [c EXCEPT !.state = "Magic1"]}
    BY <2>1, <2>2 DEF Flash!Leave
  <2> QED
    BY <1>1, <1>3, <1>4, <2>3
<1>13. CASE c.state \notin {"Read", "Magic1", "EraseMagic1", "EraseMagic2", "Magic2",
                       "ByteProgram", "EraseSelect", "SectorEraseTimeout", "SectorErase",
                       "SectorEraseSuspend", "ByteProgramError", "Autoselect"}
  BY <1>1, <1>13 DEF Flash!Store
<1> QED
  BY <1>5, <1>6, <1>7, <1>8, <1>9, <1>10, <1>11, <1>12, <1>13

(* So does a read.                                                         *)
LEMMA AfterReadRests ==
    ASSUME NEW c, Rests(c) PROVE Rests(Flash!AfterRead(c))
<1>1. IsClocked(c)
  BY DEF Rests
<1>2. PICK e : e = Flash!AfterRead(c)
  OBVIOUS
<1>3. \/ e = c
      \/ \E v : e = [c EXCEPT !.dq6 = v]
      \/ \E v : e = [c EXCEPT !.byte = v]
  BY <1>2 DEF Flash!AfterRead, Flash!ShowsErase, Flash!Erasing
<1>4. IsClocked(e) /\ e.armed = c.armed /\ e.wait = c.wait
  BY <1>1, <1>3 DEF IsClocked, Field
<1> QED
  BY <1>2, <1>4, RestsAlike

(* A restore puts back the chip that was taken.                            *)
LEMMA RestoredIsSame ==
    ASSUME NEW c, IsClocked(c)
    PROVE  Flash!Restored(c.data, c.cycles, Flash!Snapshot(c)) = c
<1>1. PICK e : e = Flash!Restored(c.data, c.cycles, Flash!Snapshot(c))
  OBVIOUS
<1>2. /\ DOMAIN e = Field /\ e = [x \in Field |-> e[x]]
      /\ e.data = c.data /\ e.state = c.state /\ e.base = c.base /\ e.byte = c.byte
      /\ e.dirty = c.dirty /\ e.mask = c.mask /\ e.armed = c.armed /\ e.wait = c.wait
      /\ e.dq6 = c.dq6 /\ e.cycles = c.cycles
  BY <1>1 DEF Flash!Restored, Flash!Snapshot, Flash!NewChip, Field
<1>3. c = [x \in Field |-> c[x]]
  BY DEF IsClocked
<1>4. \A x \in Field : e[x] = c[x]
  BY <1>2 DEF Field
<1> QED
  BY <1>1, <1>2, <1>3, <1>4

(* A new chip has nothing due.                                             *)
LEMMA NewRests ==
    ASSUME NEW d, NEW n \in ProgramCycles PROVE Rests(Flash!NewChip(d, n))
<1>1. PICK c : c = Flash!NewChip(d, n)
  OBVIOUS
<1>2. /\ DOMAIN c = Field /\ c = [x \in Field |-> c[x]] /\ c.mask = {} /\ c.wait = 0
      /\ c.cycles = n
  BY <1>1 DEF Flash!NewChip, Field
<1>3. c.armed = FALSE
  BY <1>1 DEF Flash!NewChip
<1>4. c.wait \in Int /\ c.mask \in SUBSET Flash!Sectors /\ c.cycles \in ProgramCycles
  BY <1>2
<1>5. c.armed \in BOOLEAN
  BY <1>3
<1>6. IsClocked(c)
  BY <1>2, <1>4, <1>5, Zenon DEF IsClocked
<1> QED
  BY <1>1, <1>3, <1>6 DEF Rests, Flash!Due

(* The chip with the alarm has the same functions of its own: its steps,   *)
LEMMA AlarmFires == ASSUME NEW c PROVE Flash!Alarm!Fire(c) = Flash!Fire(c)
  BY DEF Flash!Alarm!Fire, Flash!Fire, Flash!Alarm!Armed, Flash!Armed, Flash!Alarm!Disarmed,
         Flash!Disarmed, Flash!Alarm!ToBase, Flash!ToBase, Flash!Alarm!Following,
         Flash!Following, Flash!Alarm!EraseNext, Flash!EraseNext, Flash!Alarm!EraseSectors,
         Flash!EraseSectors, Flash!Alarm!Erased, Flash!Erased, Flash!Alarm!Bits, Flash!Bits,
         Flash!Alarm!First, Flash!First, Flash!Alarm!Sectors, Flash!Sectors

(* its cycles,                                                             *)
LEMMA AlarmTicks ==
    ASSUME NEW c
    PROVE  Flash!Alarm!OnTime(Flash!Alarm!Elapse(c)) = Stepped(Flash!Elapse(c))
<1>1. Flash!Alarm!Elapse(c) = Flash!Elapse(c)
  BY DEF Flash!Alarm!Elapse, Flash!Elapse
<1> QED
  BY <1>1, AlarmFires DEF Flash!Alarm!OnTime, Stepped, Flash!Alarm!Due, Flash!Due

(* its stores,                                                             *)
LEMMA AlarmStores ==
    ASSUME NEW c, NEW a, NEW b PROVE Flash!Alarm!Store(c, a, b) = Flash!Store(c, a, b)
  BY DEF Flash!Alarm!Store, Flash!Store, Flash!Alarm!Armed, Flash!Armed,
         Flash!Alarm!Disarmed, Flash!Disarmed, Flash!Alarm!Unlock, Flash!Unlock,
         Flash!Alarm!ToBase, Flash!ToBase, Flash!Alarm!Command, Flash!Command,
         Flash!Alarm!Program, Flash!Program, Flash!Alarm!SelectErase,
         Flash!SelectErase, Flash!Alarm!AddSector, Flash!AddSector,
         Flash!Alarm!NameMore, Flash!NameMore, Flash!Alarm!Suspend, Flash!Suspend,
         Flash!Alarm!Resume, Flash!Resume, Flash!Alarm!Leave, Flash!Leave,
         Flash!Alarm!XAA, Flash!XAA, Flash!Alarm!X55, Flash!X55, Flash!Alarm!X90,
         Flash!X90, Flash!Alarm!XF0, Flash!XF0, Flash!Alarm!XA0, Flash!XA0,
         Flash!Alarm!X80, Flash!X80, Flash!Alarm!X30, Flash!X30, Flash!Alarm!X10,
         Flash!X10, Flash!Alarm!XB0, Flash!XB0

(* and its reads.                                                          *)
LEMMA AlarmReads ==
    ASSUME NEW c, NEW a
    PROVE  /\ Flash!Alarm!ReadByte(c, a) = Flash!ReadByte(c, a)
           /\ Flash!Alarm!AfterRead(c) = Flash!AfterRead(c)
<1>1. Flash!Alarm!ReadByte(c, a) = Flash!ReadByte(c, a)
  BY DEF Flash!Alarm!ReadByte, Flash!ReadByte, Flash!Alarm!ShowsErase, Flash!ShowsErase,
         Flash!Alarm!Erasing, Flash!Erasing, Flash!Alarm!EraseStatus, Flash!EraseStatus,
         Flash!Alarm!Complement7, Flash!Complement7, Flash!Alarm!Identity, Flash!Identity,
         Flash!Alarm!DQ3, Flash!DQ3, Flash!Alarm!DQ5, Flash!DQ5, Flash!Alarm!DQ6, Flash!DQ6,
         Flash!Alarm!DQ7, Flash!DQ7
<1>2. Flash!Alarm!AfterRead(c) = Flash!AfterRead(c)
  BY DEF Flash!Alarm!AfterRead, Flash!AfterRead, Flash!Alarm!ShowsErase, Flash!ShowsErase,
         Flash!Alarm!Erasing, Flash!Erasing, Flash!Alarm!Xor, Flash!Xor,
         Flash!Alarm!DQ6, Flash!DQ6
<1> QED
  BY <1>1, <1>2

(* Of the chip at hand.                                                    *)
Clocked == IsClocked(chip)

(* A new chip is a new chip.                                               *)
LEMMA AlarmInit == Flash!Init => Clocked /\ Flash!Alarm!Init
<1> SUFFICES ASSUME Flash!Init PROVE Clocked /\ Flash!Alarm!Init
  OBVIOUS
<1>1. PICK d \in Images, n \in ProgramCycles : chip = Flash!NewChip(d, n)
  BY DEF Flash!Init
<1>2. Rests(chip) /\ Flash!CatchUp(chip) = Flash!NewChip(d, n)
  BY <1>1, NewRests, NothingDue DEF Rests
<1>3. Flash!NewChip(d, n) = Flash!Alarm!NewChip(d, n)
  BY DEF Flash!NewChip, Flash!Alarm!NewChip
<1> QED
  BY <1>2, <1>3 DEF Clocked, Rests, Flash!Init, Flash!Alarm!Init

(* Each call is, caught up, a call of the chip with the alarm, or one that *)
(* its program does not see.                                               *)
LEMMA AlarmStep ==
    ASSUME Clocked, [Flash!Next]_(Flash!vars)
    PROVE  Clocked' /\ [Flash!Alarm!Next]_(Flash!Alarm!vars)
<1> DEFINE c == Flash!CatchUp(chip)
<1>1. IsClocked(chip) /\ Rests(c)
  BY CatchUpEnds DEF Clocked, Rests
<1>2. Flash!CatchUp(chip)' = Flash!CatchUp(chip')
  OBVIOUS
<1>3. ASSUME NEW e, Rests(e), chip' = e PROVE Clocked' /\ c' = e
  BY <1>2, <1>3, NothingDue DEF Rests, Clocked
<1>4. CASE Flash!Tick
  <2>1. /\ chip' = Flash!Elapse(chip) /\ phase' = 1 - phase /\ answer' = <<>>
    BY <1>4 DEF Flash!Tick
  <2>2. Clocked'
    BY <1>1, <2>1, ClockedElapse DEF Clocked
  <2>3. c' = Flash!Alarm!OnTime(Flash!Alarm!Elapse(c))
    BY <1>1, <1>2, <2>1, CatchUpWaits, AlarmTicks
  <2>4. Flash!Alarm!Tick
    BY <2>1, <2>3 DEF Flash!Alarm!Tick
  <2> QED
    BY <2>2, <2>4 DEF Flash!Alarm!Next
<1>5. CASE Flash!StoreByte
  <2>1. PICK a \in Addrs, b \in Stored : chip' = Flash!Store(c, a, b)
    BY <1>5 DEF Flash!StoreByte
  <2>2. answer' = <<>> /\ UNCHANGED phase
    BY <1>5 DEF Flash!StoreByte
  <2>3. Clocked' /\ c' = Flash!Alarm!Store(c, a, b)
    BY <1>1, <1>3, <2>1, StoreRests, AlarmStores
  <2>4. Flash!Alarm!StoreByte
    BY <2>2, <2>3 DEF Flash!Alarm!StoreByte
  <2> QED
    BY <2>3, <2>4 DEF Flash!Alarm!Next
<1>6. CASE Flash!ReadAddr
  <2>1. Flash!Idle(chip) => c = chip
    BY NothingDue DEF Flash!Idle, Flash!Due
  <2>2. PICK a \in Addrs : /\ answer' = <<Flash!ReadByte(c, a)>>
                           /\ chip' = Flash!AfterRead(c) /\ UNCHANGED phase
    BY <1>6, <2>1 DEF Flash!ReadAddr
  <2>3. Clocked' /\ c' = Flash!Alarm!AfterRead(c)
    BY <1>1, <1>3, <2>2, AfterReadRests, AlarmReads
  <2>4. Flash!Alarm!ReadAddr
    BY <2>2, <2>3, AlarmReads DEF Flash!Alarm!ReadAddr
  <2> QED
    BY <2>3, <2>4 DEF Flash!Alarm!Next
<1>7. CASE Flash!GetData \/ Flash!CarryOver
  <2>1. chip' = c /\ answer' = <<>> /\ UNCHANGED phase
    BY <1>1, <1>7, RestoredIsSame DEF Flash!GetData, Flash!CarryOver, Rests
  <2>2. Clocked' /\ c' = c
    BY <1>1, <1>3, <2>1
  <2>3. Flash!Alarm!Host
    BY <2>1, <2>2 DEF Flash!Alarm!Host
  <2> QED
    BY <2>2, <2>3 DEF Flash!Alarm!Next
<1>8. CASE UNCHANGED Flash!vars
  <2>1. chip' = chip /\ UNCHANGED <<answer, phase>>
    BY <1>8 DEF Flash!vars
  <2>2. c' = c
    BY <1>2, <2>1
  <2> QED
    BY <2>1, <2>2 DEF Clocked, Flash!Alarm!vars
<1> QED
  BY <1>4, <1>5, <1>6, <1>7, <1>8 DEF Flash!Next

(* A flash on its own is one on time.                                      *)
LEMMA FlashIsOnTime == Flash!Spec => LateIsOnTime
<1>1. Flash!Init => Clocked /\ Flash!Alarm!Init
  BY AlarmInit
<1>2. Clocked /\ [Flash!Next]_(Flash!vars) =>
          Clocked' /\ [Flash!Alarm!Next]_(Flash!Alarm!vars)
  BY AlarmStep
<1> QED
  BY <1>1, <1>2, PTL DEF Flash!Spec, LateIsOnTime, Flash!LateIsOnTime, Flash!Alarm!Spec

(* LateIsOnTime: a flash that makes up for its alarm steps when it is next *)
(* touched is, at every call, the flash that takes each of them at its     *)
(* cycle, however late it is touched and however many are due (flash040.rs,*)
(* catch_up_erase).                                                        *)
THEOREM LateIsAsOnTime == ChipSpec => LateIsOnTime
  BY CartsHaveFlashes, FlashIsOnTime, PTL
===============================================================================
