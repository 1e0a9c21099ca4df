----------------------------- MODULE CartPersist ------------------------------
(***************************************************************************)
(* How what is programmed into a cartridge's flash reaches its .crt        *)
(* (trx64-daemon/src/main.rs and trx64-session/src/lib.rs): the lazy       *)
(* writer of the run loop, and the doors that put a cartridge in, take it  *)
(* out, save it, switch the machine or end the daemon.  A cartridge whose  *)
(* mapper can be saved; it is dirty when its generation is not 0.  Every   *)
(* action is what happens under the State lock.  Restoring a checkpoint's  *)
(* copy of the flash is left out.                                          *)
(* A definition named for a slip is the one after it with that slip.       *)
(***************************************************************************)
EXTENDS MediaHost

CONSTANT MaxGen    \* bound: programs and erasures of one cartridge

ASSUME MaxGenAssumption == MaxGen \in Nat

VARIABLES
    cart,          \* the cartridge in the machine, with its generation, or None
    inserted_cart, \* the cartridge in the registry while the machine is off, or None
    cart_ap_seen_gen, cart_ap_done_gen, cart_ap_settled,
    done_is_older  \* history: cart_ap_done_gen was left by a cartridge before

writer == <<cart_ap_seen_gen, cart_ap_done_gen, cart_ap_settled>>
vars == <<powered, cart, inserted_cart, host, writer, done_is_older, request,
          failures, exited, parted>>

Cart == [file : File \cup {NoFile}, bytes : Bytes, gen : 0 .. MaxGen]

ASSUME CartAssumption == None \notin Cart

Init ==
    /\ HostInit
    /\ cart = None /\ inserted_cart = None
    /\ cart_ap_seen_gen = 0 /\ cart_ap_done_gen = 0 /\ cart_ap_settled = FALSE
    /\ done_is_older = FALSE

-----------------------------------------------------------------------------
(* The machine programs or erases the flash.                               *)
CartWrites(b) ==
    /\ ~exited /\ cart # None /\ cart.gen < MaxGen
    /\ cart' = [cart EXCEPT !.bytes = b, !.gen = @ + 1]
    /\ UNCHANGED <<powered, inserted_cart, host, writer, done_is_older, request,
                   failures, exited, parted>>

(* stream_maybe_autopersist_cart, from every iteration of the run loop.  A *)
(* generation that could not be written counts as done.                    *)
Dirty(c) == c # None /\ c.gen # 0
Moving == Dirty(cart) /\ cart.gen # cart_ap_seen_gen
Due == Dirty(cart) /\ ~Moving /\ cart_ap_settled /\ cart.gen # cart_ap_done_gen

LoopSeesNothing ==
    /\ cart_ap_settled' = FALSE
    /\ UNCHANGED <<host, failures, cart_ap_seen_gen, cart_ap_done_gen, done_is_older, parted>>

LoopSees ==
    /\ cart_ap_seen_gen' = cart.gen /\ cart_ap_settled' = FALSE
    /\ UNCHANGED <<host, failures, cart_ap_done_gen, done_is_older, parted>>

LoopWrites ==
    /\ WriteOut(cart)
    /\ cart_ap_done_gen' = cart.gen
    /\ done_is_older' = FALSE
    /\ parted' = (parted \/ Failed)
    /\ UNCHANGED <<cart_ap_seen_gen, cart_ap_settled>>

LoopCart ==
    /\ ~exited
    /\ \/ Moving /\ LoopSees
       \/ Due /\ LoopWrites
    /\ UNCHANGED <<powered, cart, inserted_cart, request, exited>>

(* The debounce time goes by.                                              *)
Settle ==
    /\ ~exited /\ ~cart_ap_settled
    /\ cart_ap_settled' = TRUE
    /\ UNCHANGED <<powered, cart, inserted_cart, host, cart_ap_seen_gen, cart_ap_done_gen,
                   done_is_older, request, failures, exited, parted>>

-----------------------------------------------------------------------------
(* Doors.                                                                  *)

ReadCart(kind, f) ==
    /\ ReadFile(kind, f)
    /\ UNCHANGED <<cart, inserted_cart, writer, done_is_older>>

New(f, b) == [file |-> f, bytes |-> b, gen |-> 0]
CartInside == IF powered THEN cart ELSE inserted_cart

(* persist_cart_for_eject: only a dirty cartridge, and only one that is in *)
(* the machine.                                                            *)
PersistCart(c) == IF Dirty(c) THEN WriteOut(c) ELSE UNCHANGED <<host, failures>>

(* Every door for cartridges ends with the machine on.                     *)
PowerCycledTo(c) ==
    /\ powered' = TRUE
    /\ cart' = c
    /\ inserted_cart' = None
    /\ done_is_older' = TRUE

(* media/mount and media/swap: the cartridge inside makes room.            *)
InsertCart ==
    /\ ~exited /\ request # None /\ request.kind = "mount"
    /\ PowerCycledTo(New(request.file, request.bytes))
    /\ parted' = (parted \/ ~Saved(CartInside) \/ ~Saved(cart'))
    /\ request' = None
    /\ UNCHANGED <<host, writer, failures, exited>>

(* media/ingress of a cartridge: into the machine, then a power cycle.  A  *)
(* machine that is off comes on with what its registry holds.              *)
IngressCart(c) ==
    /\ PowerCycledTo(IF powered THEN c ELSE inserted_cart)
    /\ parted' = (parted \/ (powered /\ (~Saved(cart) \/ ~Saved(c))))
    /\ UNCHANGED <<host, writer, failures, exited>>

IngressFile ==
    /\ ~exited /\ request # None /\ request.kind = "ingress"
    /\ IngressCart(New(request.file, request.bytes))
    /\ request' = None

IngressUpload(b) ==
    /\ ~exited
    /\ IngressCart(New(NoFile, b))
    /\ UNCHANGED request

(* media/unmount, and media/ingress of an eject: the cartridge is saved    *)
(* while it is live.                                                       *)
EjectAfterPowerOff ==
    /\ ~exited
    /\ UNCHANGED <<host, failures>>
    /\ PowerCycledTo(None)
    /\ parted' = (parted \/ (~powered /\ ~Saved(inserted_cart)))
    /\ UNCHANGED <<writer, request, exited>>

EjectCart ==
    /\ ~exited
    /\ PersistCart(cart)
    /\ PowerCycledTo(None)
    /\ parted' = (parted \/ Failed \/ (~powered /\ ~Saved(inserted_cart)))
    /\ UNCHANGED <<writer, request, exited>>

(* media/persist copies under the lock, and writes after it.               *)
Taken(c) ==
    /\ request' = [kind |-> "persist", file |-> c.file, bytes |-> c.bytes]
    /\ UNCHANGED <<powered, cart, inserted_cart, host, writer, done_is_older,
                   failures, exited, parted>>

PersistTake ==
    /\ ~exited /\ request = None
    /\ Dirty(cart) /\ Backed(cart)
    /\ Taken(cart)

NewerThan(r) == CartInside # None /\ CartInside.file = r.file /\ CartInside.bytes # r.bytes

PersistWrite ==
    /\ ~exited /\ request # None /\ request.kind = "persist"
    /\ WriteOut(request)
    /\ request' = None
    /\ parted' = (parted \/ Failed \/ NewerThan(request))
    /\ UNCHANGED <<powered, cart, inserted_cart, writer, done_is_older, exited>>

(* Session::power_off and power_on: the cartridge waits in the registry,   *)
(* its mapper and its flash with it.                                       *)
PowerOff ==
    /\ ~exited /\ powered
    /\ powered' = FALSE
    /\ inserted_cart' = cart /\ cart' = None
    /\ UNCHANGED <<host, writer, done_is_older, request, failures, exited, parted>>

PowerOnReparsed ==
    /\ ~exited /\ ~powered
    /\ powered' = TRUE
    /\ cart' = IF inserted_cart = None THEN None ELSE [inserted_cart EXCEPT !.gen = 0]
    /\ inserted_cart' = None
    /\ UNCHANGED <<host, writer, done_is_older, request, failures, exited, parted>>

PowerOn ==
    /\ ~exited /\ ~powered
    /\ powered' = TRUE
    /\ cart' = inserted_cart /\ inserted_cart' = None
    /\ UNCHANGED <<host, writer, done_is_older, request, failures, exited, parted>>

(* project/set: powered on if need be, the cartridge saved and taken out.  *)
ProjectSet ==
    /\ ~exited
    /\ PersistCart(CartInside)
    /\ PowerCycledTo(None)
    /\ parted' = (parted \/ Failed)
    /\ UNCHANGED <<writer, request, exited>>

(* shutdown_now: persist_media_before_exit, whoever asks for the exit.     *)
Shutdown ==
    /\ ~exited
    /\ PersistCart(cart)
    /\ exited' = TRUE
    /\ parted' = (parted \/ Failed)
    /\ UNCHANGED <<powered, cart, inserted_cart, writer, done_is_older, request>>

Next ==
    \/ \E b \in Bytes : CartWrites(b)
    \/ LoopCart
    \/ Settle
    \/ \E kind \in {"mount", "ingress"}, f \in File : ReadCart(kind, f)
    \/ InsertCart
    \/ IngressFile
    \/ \E b \in Bytes : IngressUpload(b)
    \/ EjectCart
    \/ PersistTake
    \/ PersistWrite
    \/ PowerOff
    \/ PowerOn
    \/ ProjectSet
    \/ Shutdown

(* The run loop iterates for as long as the daemon lives, and time passes. *)
Fairness == WF_vars(LoopCart) /\ WF_vars(Settle)

Spec == Init /\ [][Next]_vars
FairSpec == Spec /\ Fairness

-----------------------------------------------------------------------------
TypeOK ==
    /\ HostTypeOK
    /\ cart \in Cart \cup {None} /\ inserted_cart \in Cart \cup {None}
    /\ cart_ap_seen_gen \in 0 .. MaxGen /\ cart_ap_done_gen \in 0 .. MaxGen
    /\ cart_ap_settled \in BOOLEAN /\ done_is_older \in BOOLEAN

(* What the writer makes of a cartridge: it compares the generation with   *)
(* the one it has last written, be that another cartridge's.               *)
NotDone(c) == Dirty(c) /\ c.gen # cart_ap_done_gen
LooksDone(c) == Dirty(c) /\ c.gen = cart_ap_done_gen /\ done_is_older

(* A cartridge in the machine or in the registry that has what its file    *)
(* has not is one the writer does not take for done, unless it stands at   *)
(* the very generation that was last written for a cartridge before it:    *)
(* that one the writer forgets (NoFlashTakenForDone, FlashArrives).        *)
NoFlashForgotten ==
    ~parted => \A c \in {cart, inserted_cart} :
        Saved(c) \/ NotDone(c) \/ BeingSaved(c) \/ LooksDone(c)

(* A daemon that ends with its machine on has kept the flash.              *)
ExitSavesCart == (exited /\ ~parted /\ powered) => Saved(cart)

(* No flash is lost to a generation of its own cartridge that was taken    *)
(* for written, nor to the end of the daemon                               *)
(* (stream_maybe_autopersist_cart, shutdown_now).                          *)
NoFlashLost == NoFlashForgotten /\ ExitSavesCart

(* A cartridge that is nowhere any more left its flash in its file.        *)
Inside(f) == CartInside # None /\ CartInside.file = f
CartLeavesSaved ==
    [][\A f \in File : (~parted' /\ Inside(f) /\ ~Inside(f)')
          => host'[f] = CartInside.bytes]_vars

(* What is programmed reaches the file by itself, unless the cartridge     *)
(* goes first or is programmed on, or its generation is one the writer has *)
(* written for another cartridge (see FlashArrives).                       *)
Waiting(c) == powered /\ ~exited /\ cart = c
FlashArrivesFresh ==
    \A c \in [file : File, bytes : Bytes, gen : 1 .. MaxGen] :
        Waiting(c) ~> (Saved(c) \/ ~Waiting(c) \/ parted \/ LooksDone(c))

-----------------------------------------------------------------------------
(* What the documentation promises and the code does not keep.             *)

(* "Settled -> write the flash back to the host .crt once".                *)
FlashArrives ==
    \A c \in [file : File, bytes : Bytes, gen : 1 .. MaxGen] :
        Waiting(c) ~> (Saved(c) \/ ~Waiting(c) \/ parted)

(* cart_ap_done_gen is "the gen already written to the host file": what it *)
(* stands for is saved.                                                    *)
NoFlashTakenForDone ==
    ~parted => \A c \in {cart, inserted_cart} :
        Saved(c) \/ NotDone(c) \/ BeingSaved(c)

(* "VICE saves the .crt on detach": a cartridge that makes room for        *)
(* another is saved.                                                       *)
ReplacedCartIsSaved ==
    [][(InsertCart /\ Dirty(cart) /\ Backed(cart)) => host'[cart.file] = cart.bytes]_vars

(* An eject writes back to the host file first, machine on or off.         *)
EjectSaves ==
    [][(EjectCart /\ Dirty(CartInside) /\ Backed(CartInside) /\ failures' = failures)
          => host'[CartInside.file] = CartInside.bytes]_vars

(* What is put in is in once the machine is on.                            *)
IngressInserts ==
    [][\A f \in File : (IngressFile /\ request.file = f) => Inside(f)']_vars
==============================================================================
