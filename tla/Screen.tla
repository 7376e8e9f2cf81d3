------------------------------- MODULE Screen -------------------------------
(***************************************************************************)
(* io/keyboard.c, io/console.c and the graphics calls of syscall.c: one    *)
(* keyboard and one screen that the console, the shell and a graphics      *)
(* program take turns to use.  Scan codes arrive one byte per interrupt;   *)
(* keys go to the key_buffer ring of KRing while it is enabled and are     *)
(* echoed on the terminal of Terminal while it is not.  System calls and   *)
(* the interrupt handler run with interrupts off, so each is one step.     *)
(***************************************************************************)
EXTENDS KRing, Terminal, FiniteSets

CONSTANTS Proc,      \* the processes there may be; an id is never used again
          Adapters,  \* the video adapters the machine may have: vga, bga
          Workloads  \* what may be typed and written, see Workload

VARIABLES adapter,         \* whether vga_bga_available
          tty,             \* the terminal
          kb_enabled,
          kb_extended, shift_held, ctrl_held,
          wire,            \* scan code bytes not yet delivered
          down,            \* the modifier keys that are physically down
          user_gfx_active, user_gfx_bga, gfx_owner_pid,
          task,            \* each process: new, alive or gone
          fb,              \* how its page directory maps the framebuffer
          kernel_fb,       \* whether the kernel's does, for later processes
          load,            \* the workload of this behaviour
          input            \* how much of its bound is used up

keyVars == <<kb_extended, shift_held, ctrl_held, wire, down>>
gfxVars == <<user_gfx_active, user_gfx_bga, gfx_owner_pid>>
taskVars == <<task, fb, kernel_fb>>
inputVars == <<load, input>>
screenVars == <<vars, adapter, tty, kb_enabled, keyVars, gfxVars, taskVars, inputVars>>

NoTask == "none"

(* A key: the code it sends, with or without the 0xE0 prefix, and what it  *)
(* types alone, with Shift and with Ctrl: "" where kb_map or kb_map_shift  *)
(* holds 0, the plain character where Ctrl makes no control code of it.    *)
Key(code, extended, plain, shifted, control) ==
    [code |-> code, extended |-> extended,
     plain |-> plain, shifted |-> shifted, control |-> control]

(* A part of all input small enough to explore: some keys, some texts, and *)
(* a bound on how many are typed and written together, if there is one.    *)
Unbounded == -1
Workload(keys, texts, bound) == [keys |-> keys, texts |-> texts, bound |-> bound]

Spend ==
    /\ load.bound = Unbounded \/ input < load.bound
    /\ input' = IF load.bound = Unbounded THEN input ELSE input + 1
    /\ UNCHANGED load

(* What the zeroed storage of key_buffer holds.                            *)
Nul == "nul"

Arrows == {"up", "left"}

(* Everything typed or written is a byte; "" is a key that types nothing.  *)
ASSUME WorkloadsAssumption ==
    /\ {Nul, Blank, "backspace"} \cup Arrows \subseteq Byte
    /\ \A w \in Workloads :
          /\ w.texts \subseteq Seq(Byte)
          /\ \A k \in w.keys :
                /\ k.extended \in BOOLEAN /\ k.code # "E0"
                /\ {k.plain, k.shifted, k.control} \subseteq Byte \cup {""}

ASSUME ProcAssumption == NoTask \notin Proc

Prefix == [code |-> "E0"]
Make(k) == [code |-> k.code, up |-> FALSE, key |-> k]
Break(k) == [code |-> k.code, up |-> TRUE, key |-> k]

Modifier(k) == ~k.extended /\ k.code \in {"lshift", "rshift", "ctrl"}

ScreenInit ==
    /\ kring_u8_init /\ buf = [i \in Index |-> Nul]
    /\ adapter \in Adapters
    /\ tty = init_term
    /\ kb_enabled = TRUE
    /\ kb_extended = FALSE /\ shift_held = FALSE /\ ctrl_held = FALSE
    /\ wire = <<>> /\ down = {}
    /\ user_gfx_active = FALSE /\ user_gfx_bga = FALSE /\ gfx_owner_pid = NoTask
    /\ task = [p \in Proc |-> "new"]
    /\ fb = [p \in Proc |-> "none"] /\ kernel_fb = FALSE
    /\ load \in Workloads /\ input = 0
-----------------------------------------------------------------------------
(* A key goes down, or repeats, or comes up: the controller queues its     *)
(* bytes and interrupts for each.                                          *)
Sends(k, byte) ==
    /\ wire = <<>>
    /\ wire' = IF k.extended THEN <<Prefix, byte>> ELSE <<byte>>

Press(k) ==
    /\ Sends(k, Make(k))
    /\ down' = IF Modifier(k) THEN down \cup {k.code} ELSE down
    /\ Spend
    /\ UNCHANGED <<vars, adapter, tty, kb_enabled, kb_extended, shift_held,
                   ctrl_held, gfxVars, taskVars>>

Release(k) ==
    /\ Modifier(k) => k.code \in down
    /\ Sends(k, Break(k))
    /\ down' = down \ (IF Modifier(k) THEN {k.code} ELSE {})
    /\ UNCHANGED <<vars, adapter, tty, kb_enabled, kb_extended, shift_held,
                   ctrl_held, gfxVars, taskVars, inputVars>>

(* What keyboard_translate returns for a byte, "" for 0.  Only the small   *)
(* letters have control codes, so Shift comes first.                       *)
Translated(byte) ==
    IF byte.up THEN ""
    ELSE IF shift_held THEN byte.key.shifted
    ELSE IF ctrl_held THEN byte.key.control
    ELSE byte.key.plain

keyboard_translate(byte) ==
    /\ shift_held' = IF byte.code \in {"lshift", "rshift"} THEN ~byte.up ELSE shift_held
    /\ ctrl_held' = IF byte.code = "ctrl" THEN ~byte.up ELSE ctrl_held

(* Refused while the buffer is disabled, but both callers test that first. *)
keyboard_buffer_push(c) == kb_enabled /\ kring_u8_push(c)

console_handle_key(c) ==
    terminal_write(tty, IF c = "backspace" THEN <<"backspace", Blank, "backspace">>
                        ELSE <<c>>)

(* The byte after the prefix: Page Up and Page Down scroll, the arrow keys *)
(* are pushed, everything else, releases included, is dropped.             *)
ExtendedByte(byte) ==
    /\ kb_extended' = FALSE
    /\ \/ /\ ~byte.up /\ byte.code = "pgup"
          /\ tty' = terminal_scroll_up(tty)
          /\ UNCHANGED vars
       \/ /\ ~byte.up /\ byte.code = "pgdn"
          /\ tty' = terminal_scroll_down(tty)
          /\ UNCHANGED vars
       \/ /\ ~byte.up /\ byte.code \in Arrows /\ kb_enabled
          /\ keyboard_buffer_push(byte.code)
          /\ UNCHANGED tty
       \/ /\ byte.up \/ byte.code \notin {"pgup", "pgdn"} \cup (IF kb_enabled THEN Arrows ELSE {})
          /\ UNCHANGED <<vars, tty>>
    /\ UNCHANGED <<shift_held, ctrl_held>>

(* Mutant: modifier keys are followed only while the buffer takes keys.    *)
PlainByte_TracksWhenEnabled(byte) ==
    /\ IF kb_enabled THEN keyboard_translate(byte)
       ELSE UNCHANGED <<shift_held, ctrl_held>>
    /\ \/ Translated(byte) = "" /\ UNCHANGED <<vars, tty>>
       \/ /\ Translated(byte) # "" /\ kb_enabled
          /\ keyboard_buffer_push(Translated(byte))
          /\ UNCHANGED tty
       \/ /\ Translated(byte) # "" /\ ~kb_enabled
          /\ tty' = console_handle_key(Translated(byte))
          /\ UNCHANGED vars
    /\ UNCHANGED kb_extended

PlainByte(byte) ==
    /\ keyboard_translate(byte)
    /\ \/ Translated(byte) = "" /\ UNCHANGED <<vars, tty>>
       \/ /\ Translated(byte) # "" /\ kb_enabled
          /\ keyboard_buffer_push(Translated(byte))
          /\ UNCHANGED tty
       \/ /\ Translated(byte) # "" /\ ~kb_enabled
          /\ tty' = console_handle_key(Translated(byte))
          /\ UNCHANGED vars
    /\ UNCHANGED kb_extended

keyboard_irq_handler ==
    /\ wire # <<>>
    /\ wire' = Tail(wire)
    /\ LET byte == Head(wire) IN
       \/ /\ byte = Prefix
          /\ kb_extended' = TRUE
          /\ UNCHANGED <<vars, tty, shift_held, ctrl_held>>
       \/ byte # Prefix /\ kb_extended /\ ExtendedByte(byte)
       \/ byte # Prefix /\ ~kb_extended /\ PlainByte(byte)
    /\ UNCHANGED <<adapter, kb_enabled, down, gfxVars, taskVars, inputVars>>
-----------------------------------------------------------------------------
(* Whoever calls getkey takes the oldest key, whichever mode it is from.   *)
sys_do_getkey(p) ==
    /\ task[p] = "alive"
    /\ kring_u8_pop
    /\ UNCHANGED <<adapter, tty, kb_enabled, keyVars, gfxVars, taskVars, inputVars>>

(* Output of a program whose standard output is the console.               *)
sys_do_write(p, text) ==
    /\ task[p] = "alive"
    /\ tty' = terminal_write(tty, text)
    /\ Spend
    /\ UNCHANGED <<vars, adapter, kb_enabled, keyVars, gfxVars, taskVars>>

(* A new page directory has the kernel's framebuffer entries.              *)
paging_create_address_space(p) ==
    /\ task[p] = "new"
    /\ task' = [task EXCEPT ![p] = "alive"]
    /\ fb' = [fb EXCEPT ![p] = IF kernel_fb THEN "shared" ELSE "none"]
    /\ UNCHANGED <<vars, adapter, tty, kb_enabled, keyVars, gfxVars, kernel_fb, inputVars>>

(* keyboard_buffer_enable(1), after keyboard_buffer_init, and (0): keys    *)
(* from before are dropped when it is enabled and kept when it is disabled.*)
EnableKeys == kb_enabled' = TRUE /\ kring_u8_reset
DisableKeys == kb_enabled' = FALSE /\ UNCHANGED vars

(* The mode is set, the framebuffer mapped in the kernel's directory and   *)
(* in the caller's, through the shared page table if it has that.          *)
EnterGraphics(p) ==
    /\ tty' = IF adapter = "bga" THEN vga_enter_bga_mode(tty) ELSE vga_enter_mode13h(tty)
    /\ user_gfx_bga' = (adapter = "bga")
    /\ kernel_fb' = TRUE
    /\ fb' = [fb EXCEPT ![p] = IF @ = "none" THEN "own" ELSE @]
    /\ EnableKeys
    /\ user_gfx_active' = TRUE
    /\ gfx_owner_pid' = p

(* While the screen is taken a caller gets the framebuffer's address and   *)
(* nothing changes, not even its page directory.                           *)
sys_do_gfx_init(p) ==
    /\ task[p] = "alive"
    /\ \/ user_gfx_active /\ UNCHANGED <<vars, tty, kb_enabled, gfxVars, fb, kernel_fb>>
       \/ ~user_gfx_active /\ EnterGraphics(p)
    /\ UNCHANGED <<adapter, keyVars, task, inputVars>>

LeaveGraphics ==
    /\ DisableKeys
    /\ tty' = IF user_gfx_bga THEN vga_exit_bga_mode(tty) ELSE vga_enter_text_mode(tty)
    /\ user_gfx_active' = FALSE
    /\ user_gfx_bga' = FALSE
    /\ gfx_owner_pid' = NoTask

IsOwner(p) == user_gfx_active /\ gfx_owner_pid = p

(* Mutant: the buffer is disabled before the caller is checked.            *)
sys_do_gfx_exit_Early(p) ==
    /\ task[p] = "alive"
    /\ \/ IsOwner(p) /\ LeaveGraphics
       \/ ~IsOwner(p) /\ DisableKeys /\ UNCHANGED <<tty, gfxVars>>
    /\ UNCHANGED <<adapter, keyVars, taskVars, inputVars>>

sys_do_gfx_exit(p) ==
    /\ task[p] = "alive"
    /\ \/ IsOwner(p) /\ LeaveGraphics
       \/ ~IsOwner(p) /\ UNCHANGED <<vars, tty, kb_enabled, gfxVars>>
    /\ UNCHANGED <<adapter, keyVars, taskVars, inputVars>>

(* The page directory is destroyed.  How the last owner ended is history.  *)
Ends(p, how) ==
    /\ task' = [task EXCEPT ![p] = how]
    /\ fb' = [fb EXCEPT ![p] = "none"]
    /\ UNCHANGED kernel_fb

sys_do_exit(p) ==
    /\ task[p] = "alive"
    /\ \/ IsOwner(p) /\ LeaveGraphics
       \/ ~IsOwner(p) /\ UNCHANGED <<vars, tty, kb_enabled, gfxVars>>
    /\ Ends(p, "gone")
    /\ UNCHANGED <<adapter, keyVars, inputVars>>

(* A kill, or a fault: the process ends and the screen is not looked at.   *)
task_terminate(p) ==
    /\ task[p] = "alive"
    /\ Ends(p, IF IsOwner(p) THEN "killed" ELSE "gone")
    /\ UNCHANGED <<vars, adapter, tty, kb_enabled, keyVars, gfxVars, inputVars>>

ScreenNext ==
    \/ keyboard_irq_handler
    \/ \E k \in load.keys : Press(k) \/ Release(k)
    \/ \E p \in Proc :
          \/ paging_create_address_space(p)
          \/ sys_do_getkey(p)
          \/ \E text \in load.texts : sys_do_write(p, text)
          \/ sys_do_gfx_init(p)
          \/ sys_do_gfx_exit(p)
          \/ sys_do_exit(p)
          \/ task_terminate(p)

ScreenSpec == ScreenInit /\ [][ScreenNext]_screenVars
-----------------------------------------------------------------------------
(* In text mode the screen shows the console's last lines, at the scroll   *)
(* offset the user has chosen: incremental output, wrapped scrollback,     *)
(* scrolling and any number of graphics sessions in between agree, except  *)
(* where vga_enter_bga_mode kept an older text (stale, see README).        *)
ScreenShowsText ==
    ~vga_is_graphics(tty) /\ ~tty.stale => tty.terminal_buffer = Shown(tty)

(* No modifier is stuck: once its bytes are in, Ctrl counts as held        *)
(* exactly while the left Ctrl key is down, and Shift only while one of    *)
(* its keys is, whoever takes the keyboard in between (keyboard_translate).*)
ModifiersFollowKeys ==
    wire = <<>> =>
        /\ ctrl_held <=> "ctrl" \in down
        /\ shift_held => down \cap {"lshift", "rshift"} # {}

(* The kernel's view of who has the screen is one view: graphics is active *)
(* exactly when the adapter is in that mode, then its owner gets the keys  *)
(* and can reach the framebuffer, and an owner that exits or ends graphics *)
(* leaves the text screen behind (sys_do_gfx_init, _gfx_exit, sys_do_exit).*)
GraphicsStateAgrees ==
    /\ user_gfx_active <=> vga_is_graphics(tty)
    /\ user_gfx_bga <=> tty.mode = "bga"
    /\ user_gfx_active <=> gfx_owner_pid # NoTask
    /\ user_gfx_active =>
          /\ kb_enabled
          /\ \/ task[gfx_owner_pid] = "alive" /\ fb[gfx_owner_pid] # "none"
             \/ task[gfx_owner_pid] = "killed"

(* What vga.c:535 says of entering the BGA mode: the text mode state is    *)
(* saved before switching, so that it is what comes back.                  *)
TextComesBack == ~vga_is_graphics(tty) => tty.terminal_buffer = Shown(tty)

(* What kernel.c:171 enables the buffer for: the shell can read keys       *)
(* whenever no graphics program has the screen.                            *)
ShellHearsKeys == ~user_gfx_active => kb_enabled

(* What keyboard.c:32 says: key presses and releases of Shift are tracked. *)
ShiftFollowsKeys ==
    wire = <<>> => (shift_held <=> down \cap {"lshift", "rshift"} # {})

(* What paging.c:215 says of the end of an address space: its frames are   *)
(* freed.  A page table of its own for the framebuffer is not.             *)
FramebufferTablesAreFreed ==
    [][\A p \in Proc : task[p] = "alive" /\ task'[p] # "alive" => fb[p] # "own"]_screenVars
=============================================================================
