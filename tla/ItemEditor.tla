------------------------------ MODULE ItemEditor ------------------------------
(***************************************************************************)
(* The life of one item in the views that show and edit it: the form of a  *)
(* login or of an SSH key, the password generator, the settings of the     *)
(* one-time code, the import of a key file, the view that keeps a          *)
(* one-time code up to date, and the prompts of the command line that make *)
(* the same item.                                                          *)
(*                                                                         *)
(* The widgets of a form write through to the item they were given, and    *)
(* the generator changes the options recorded in it while the user looks   *)
(* around; only Save copies that item to the storage.  A password has only  *)
(* the generator; the passphrase of a key is a password like any other.     *)
(*                                                                         *)
(* A password is what somebody typed or a value named by what it was       *)
(* generated from: a number of characters of some classes, or a number of  *)
(* words.  A key is named, and so are its public half and its fingerprint. *)
(* Seconds are scaled: the settings of the one-time code, 5 to 60 seconds  *)
(* in steps of 5, stand for divisions of a minute.                         *)
(*                                                                         *)
(* Left out: the other fields, which are plain text; a second item of the  *)
(* same name (VaultStore has the index); the steps of Save and of the      *)
(* commands (VaultStore has those too).                                    *)
(*                                                                         *)
(* The initial state, the steps and the specification are named ItemInit,  *)
(* ItemNext and ItemSpec: PreferencesProofs extends this module together   *)
(* with VersionedConfig, which keeps the preferences that limit the forms. *)
(***************************************************************************)
EXTENDS Integers, FiniteSets

CONSTANTS
    Kinds,       \* the types of item used: "login", "password", "sshkey"
    Classes,     \* classes of characters, "digits" and "symbols" among them
    Modes,       \* limits in the preferences: mode -> [min, max, default]
    Prompts,     \* limits in the command line: mode -> [min, max, default]
    Keys,        \* SSH keys
    Locked,      \* those of them whose file is protected with a passphrase
    Hashes,      \* "SHA1" and others
    Intervals,   \* validity of a one-time code
    Minute,      \* length of a minute
    Day,         \* bound: the clock starts again after so many seconds
    MaxClicks,   \* bound: what the user does, in the window or on the command line
    MaxSuspends  \* bound: pauses of the whole computer

Generated == {"random", "pin", "passphrase"}
ASSUME ItemEditorAssumption ==
    /\ Kinds \subseteq {"login", "password", "sshkey"} /\ {"digits", "symbols"} \subseteq Classes
    /\ DOMAIN Modes = Generated /\ DOMAIN Prompts = Generated
    /\ \A m \in Generated : \A l \in {Modes[m], Prompts[m]} :
          /\ {l.min, l.default, l.max} \subseteq Nat \ {0}
          /\ l.min <= l.default /\ l.default <= l.max
    /\ Locked \subseteq Keys /\ "SHA1" \in Hashes
    /\ Minute \in Nat \ {0} /\ Minute \div 2 \in Intervals /\ MaxClicks \in Nat /\ MaxSuspends \in Nat
    /\ Day \in Nat \ {0} /\ Day % Minute = 0
    /\ \A i \in Intervals : i \in 1 .. Minute /\ Day % i = 0

VARIABLES
    stored,   \* the item in the storage
    form,     \* the item of the widget on the screen; its widgets write to it
    screen,   \* "list", "view", "edit", or "crashed"
    dialog,   \* "none", "generator", "file" or "passphrase"
    shown,    \* the password in the generator's entry
    picked,   \* the key file that waits for its passphrase
    now,      \* the clock while a one-time code is shown
    bar,      \* its progress bar: seconds to go
    code,     \* the code shown: its hash, and whether its time step is over
    clicks, suspends,
    skewed    \* history: the clock went on without the ticker
itemVars == <<stored, form, screen, dialog, shown, picked, now, bar, code, clicks,
              suspends, skewed>>
clock == <<now, bar, code, skewed>>

None == "none"
Typed == [of |-> "keyboard", length |-> 0, classes |-> {}]
Empty == [of |-> None, length |-> 0, classes |-> {}]

--------------------------------------------------------------------------------
(* Passwords *)

\* usm.NewPassword; altered is history: the options were changed after the value
\* was made, by a generator that was cancelled or by a command that does not
\* record them.
NewPassword == [value |-> Empty, mode |-> "custom", format |-> {}, length |-> 0,
                altered |-> FALSE]

\* NewRule and Template: the characters to choose from; a PIN and a random
\* password differ only in their recorded format.
Template(pw) == pw.format

\* Key.Passphrase and Key.Secret, the latter with an error when there is nothing
\* to choose from or no length to reach.
Fails(pw) == pw.mode # "passphrase" /\ (Template(pw) = {} \/ pw.length = 0)
Secret(pw) ==
    IF pw.mode = "passphrase"
      THEN [of |-> "words", length |-> pw.length, classes |-> {}]
      ELSE [of |-> "characters", length |-> pw.length, classes |-> Template(pw)]

\* The callbacks of the dialog: a generation that fails leaves the entry as it is.
pwgen(pw) == shown' = IF Fails(pw) THEN shown ELSE Secret(pw)

\* What the three panels do to the options when they are made.
InLimits(pw, m) ==
    IF pw.length < Modes[m].min \/ pw.length > Modes[m].max
      THEN Modes[m].default ELSE pw.length
passphraseOptions(pw) ==
    [pw EXCEPT !.length = InLimits(pw, "passphrase"), !.mode = "passphrase"]
pinOptions(pw) ==
    [pw EXCEPT !.length = InLimits(pw, "pin"), !.mode = "pin", !.format = {"digits"}]
randomPasswordOptions(pw) ==
    [pw EXCEPT !.length = InLimits(pw, "random"), !.mode = "random",
               !.format = IF pw.format = {} \/ pw.mode # "random" THEN Classes ELSE @]
Options(pw, m) ==
    CASE m = "passphrase" -> passphraseOptions(pw)
      [] m = "pin" -> pinOptions(pw)
      [] m = "random" -> randomPasswordOptions(pw)

--------------------------------------------------------------------------------
(* One-time codes *)

\* numTimeSteps, within the day.
numTimeSteps(t, interval) == t \div interval
Passed(t, u, interval) == numTimeSteps(t, interval) # numTimeSteps(u, interval)

\* The code of the time step in which it is computed.
TOTP(hash) == [hash |-> hash, late |-> FALSE]
NoCode == TOTP(None)
Seconds(t) == t % Minute

--------------------------------------------------------------------------------
NoKeys == [private |-> None, public |-> None, fingerprint |-> None]
KeyPair(k) == [private |-> k, public |-> k, fingerprint |-> k]

\* makeEmptyItems takes the one-time code's settings from the preferences, which may
\* be any; usm.NewItem gives it SHA1 and 30 seconds.
NewItems == [kind : Kinds, pw : {NewPassword}, keys : {NoKeys}, secret : {FALSE},
             hash : Hashes, interval : Intervals]
NoItem == [kind |-> None, pw |-> NewPassword, keys |-> NoKeys, secret |-> FALSE,
           hash |-> "SHA1", interval |-> Minute \div 2]

Lengths == {0} \cup (UNION {Modes[m].min .. Modes[m].max : m \in Generated})
               \cup (UNION {Prompts[m].min .. Prompts[m].max : m \in Generated})
Values == {Typed, Empty}
    \cup [of : {"words"}, length : Lengths, classes : {{}}]
    \cup [of : {"characters"}, length : Lengths, classes : SUBSET Classes]
Passwords == [value : Values, mode : Generated \cup {"custom"},
              format : SUBSET Classes, length : Lengths, altered : BOOLEAN]
KeyFields == Keys \cup {None}

IsItem(i) ==
    /\ i.kind \in Kinds \cup {None} /\ i.pw \in Passwords
    /\ i.keys \in [private : KeyFields, public : KeyFields, fingerprint : KeyFields]
    /\ i.secret \in BOOLEAN /\ i.hash \in Hashes /\ i.interval \in Intervals

ItemTypeOK ==
    /\ IsItem(stored) /\ IsItem(form)
    /\ screen \in {"list", "view", "edit", "crashed"}
    /\ dialog \in {"none", "generator", "file", "passphrase"}
    /\ dialog # "none" => screen = "edit"
    /\ shown \in Values /\ picked \in KeyFields
    /\ now \in 0 .. Day - 1 /\ bar \in 0 .. Minute
    /\ code \in [hash : Hashes \cup {None}, late : BOOLEAN]
    /\ clicks \in 0 .. MaxClicks /\ suspends \in 0 .. MaxSuspends
    /\ skewed \in BOOLEAN

Still == now' = 0 /\ bar' = 0 /\ code' = NoCode /\ skewed' = FALSE

ItemInit ==
    /\ stored = NoItem /\ form = NoItem
    /\ screen = "list" /\ dialog = "none" /\ shown = Empty /\ picked = None
    /\ now = 0 /\ bar = 0 /\ code = NoCode
    /\ clicks = 0 /\ suspends = 0 /\ skewed = FALSE

Click == clicks < MaxClicks /\ clicks' = clicks + 1 /\ UNCHANGED suspends

--------------------------------------------------------------------------------
(* The view of an item *)

\* Mutant of Countdown: a whole interval from now.
CountdownWhole(i, t) == i.interval

\* The progress bar starts with what is left of the interval, counted in seconds
\* of the minute.
Countdown(i, t) == i.interval - (Seconds(t) % i.interval)

\* The view of an item is made; that of a login with a one-time code computes the
\* code at once and starts a ticker.
Show(i) ==
    /\ screen' = "view" /\ form' = i
    /\ IF i.kind = "login" /\ i.secret
         THEN \E t \in 0 .. Day - 1 :
                /\ now' = t /\ bar' = Countdown(i, t)
                /\ code' = TOTP(i.hash) /\ skewed' = FALSE
         ELSE Still

\* The list loads the item from the storage.
SelectItem ==
    /\ Click /\ screen = "list" /\ stored # NoItem
    /\ Show(stored)
    /\ UNCHANGED <<stored, dialog, shown, picked>>

\* A second passes, and the ticker of the view with it.  When the bar is through
\* the code is computed for this second, with SHA1 whatever the item says.
Tick ==
    /\ screen = "view" /\ bar > 0
    /\ now' = (now + 1) % Day
    /\ IF bar = 1
         THEN code' = TOTP("SHA1") /\ bar' = form.interval
         ELSE /\ bar' = bar - 1
              /\ code' = [code EXCEPT !.late = @ \/ Passed(now, now', form.interval)]
    /\ UNCHANGED <<stored, form, screen, dialog, shown, picked, clicks, suspends, skewed>>

\* The computer sleeps for longer than an interval: the clock goes on, the ticker
\* does not.
Suspend ==
    /\ screen = "view" /\ bar > 0 /\ suspends < MaxSuspends
    /\ suspends' = suspends + 1 /\ skewed' = TRUE
    /\ \E t \in 0 .. Day - 1 : now' = t
    /\ code' = [code EXCEPT !.late = TRUE]
    /\ UNCHANGED <<stored, form, screen, dialog, shown, picked, bar, clicks>>

--------------------------------------------------------------------------------
(* The form *)

\* makeAddItemView and the Edit button: the widgets are bound to the item.
AddItem ==
    /\ Click /\ screen = "list" /\ stored = NoItem
    /\ screen' = "edit" /\ Still
    /\ \E i \in NewItems : form' = i
    /\ UNCHANGED <<stored, dialog, shown, picked>>

EditItem ==
    /\ Click /\ screen = "view"
    /\ screen' = "edit" /\ Still
    /\ UNCHANGED <<stored, form, dialog, shown, picked>>

\* The header button, back to the list from the view or from the form.
Back ==
    /\ Click /\ screen \in {"view", "edit"} /\ dialog = "none"
    /\ screen' = "list" /\ form' = NoItem /\ Still
    /\ UNCHANGED <<stored, dialog, shown, picked>>

\* A user's change to a widget of the form.
Editing == Click /\ screen = "edit" /\ dialog = "none"
Form(i) ==
    /\ form' = i
    /\ UNCHANGED <<stored, screen, shown, picked>> /\ UNCHANGED clock

TypePassword ==
    Editing /\ Form([form EXCEPT !.pw.value = Typed]) /\ UNCHANGED dialog

\* The entry of the one-time code's secret, and its settings, which are written
\* through whether their dialog is left with OK or with Cancel.
EnterSecret ==
    /\ Editing /\ form.kind = "login"
    /\ Form([form EXCEPT !.secret = ~@]) /\ UNCHANGED dialog
TOTPSettings ==
    /\ Editing /\ form.kind = "login"
    /\ \E h \in Hashes, n \in Intervals :
          Form([form EXCEPT !.hash = h, !.interval = n])
    /\ UNCHANGED dialog

\* OnSubmit copies the item and OnSave stores the copy and shows it.
Save ==
    /\ Editing
    /\ stored' = form /\ Show(form)
    /\ UNCHANGED <<dialog, shown, picked>>

--------------------------------------------------------------------------------
(* The password generator *)

\* The dialog opens with the panel of the recorded mode, that of random passwords
\* for a password that was typed.
OpenGenerator ==
    /\ Editing
    /\ dialog' = "generator"
    /\ LET m == IF form.pw.mode = "custom" THEN "random" ELSE form.pw.mode
           pw == Options([form.pw EXCEPT !.mode = m], m)
       IN form' = [form EXCEPT !.pw = pw] /\ shown' = Secret(pw)
    /\ UNCHANGED <<stored, screen, picked>> /\ UNCHANGED clock

InGenerator == Click /\ dialog = "generator"
Changed(pw) ==
    /\ form' = [form EXCEPT !.pw = pw] /\ pwgen(pw)
    /\ UNCHANGED <<stored, screen, dialog, picked>> /\ UNCHANGED clock

\* Another type is selected, or the same once more.
SelectType == InGenerator /\ \E m \in Generated : Changed(Options(form.pw, m))

\* The slider, or a number typed beside it that is within the limits.
SetLength ==
    /\ InGenerator
    /\ \E n \in Modes[form.pw.mode].min .. Modes[form.pw.mode].max :
          Changed([form.pw EXCEPT !.length = n])

\* Mutant of ToggleClass: the entry is left as it is.
ToggleClassKeeps ==
    /\ InGenerator /\ form.pw.mode = "random"
    /\ \E c \in Classes :
          form' = [form EXCEPT !.pw.format = IF c \in @ THEN @ \ {c} ELSE @ \cup {c}]
    /\ UNCHANGED <<stored, screen, dialog, shown, picked>> /\ UNCHANGED clock

\* A check box of the panel of random passwords.
ToggleClass ==
    /\ InGenerator /\ form.pw.mode = "random"
    /\ \E c \in Classes :
          Changed([form.pw EXCEPT !.format = IF c \in @ THEN @ \ {c} ELSE @ \cup {c}])

RefreshPassword == InGenerator /\ Changed(form.pw)

TypeInGenerator ==
    /\ InGenerator /\ shown' = Typed
    /\ UNCHANGED <<stored, form, screen, dialog, picked>> /\ UNCHANGED clock

\* "Use" copies the entry to the form; "Cancel" leaves the form's password, but
\* not its options, as they were.
UseGenerated ==
    /\ InGenerator /\ dialog' = "none" /\ shown' = Empty
    /\ form' = [form EXCEPT !.pw.value = shown, !.pw.altered = FALSE]
    /\ UNCHANGED <<stored, screen, picked>> /\ UNCHANGED clock
CancelGenerator ==
    /\ InGenerator /\ dialog' = "none" /\ shown' = Empty
    /\ form' = [form EXCEPT !.pw.altered = TRUE]
    /\ UNCHANGED <<stored, screen, picked>> /\ UNCHANGED clock

--------------------------------------------------------------------------------
(* SSH keys in the form *)

\* sshkey.GenerateKey, and the three entries set from the new key.
GenerateKey ==
    /\ Editing /\ form.kind = "sshkey"
    /\ \E k \in Keys : Form([form EXCEPT !.keys = KeyPair(k)])
    /\ UNCHANGED dialog

ImportKey ==
    /\ Editing /\ form.kind = "sshkey"
    /\ dialog' = "file" /\ Form(form)

\* The file is opened: a key, an unreadable file, or a protected key.
ImportFile ==
    /\ Click /\ dialog = "file"
    /\ \/ \E k \in Keys \ Locked :
             Form([form EXCEPT !.keys = KeyPair(k)]) /\ dialog' = "none"
       \/ Form(form) /\ dialog' = "none"
       \/ \E k \in Locked :
             /\ picked' = k /\ dialog' = "passphrase"
             /\ UNCHANGED <<stored, form, screen, shown>> /\ UNCHANGED clock

\* The callback of the file dialog reads from the file without asking whether
\* there is one: nil when the dialog is cancelled.
ImportCancelled ==
    /\ Click /\ dialog = "file"
    /\ screen' = "crashed" /\ dialog' = "none"
    /\ UNCHANGED <<stored, form, shown, picked>> /\ UNCHANGED clock

\* The passphrase is right, and kept in the item, or it is wrong, or the dialog is
\* cancelled.
ImportProtected ==
    /\ Click /\ dialog = "passphrase" /\ dialog' = "none" /\ picked' = None
    /\ \/ form' = [form EXCEPT !.keys = KeyPair(picked), !.pw.value = Typed]
       \/ UNCHANGED form
    /\ UNCHANGED <<stored, screen, shown>> /\ UNCHANGED clock

Restart ==
    /\ screen = "crashed" /\ screen' = "list"
    /\ form' = NoItem /\ shown' = Empty /\ picked' = None /\ Still
    /\ UNCHANGED <<stored, dialog, clicks, suspends>>

--------------------------------------------------------------------------------
(* The command line *)

\* The four makers of "pwgen"; the one of passphrases records the default length.
makeCustomPassword == {[NewPassword EXCEPT !.value = Typed]}
Asked(m) == Prompts[m].min .. Prompts[m].max
MadeWith(pw) == [pw EXCEPT !.value = Secret(pw)]
makeRandomPassword ==
    {MadeWith([NewPassword EXCEPT !.mode = "random", !.length = n, !.format = f]) :
        n \in Asked("random"), f \in {Classes, Classes \ {"symbols"}}}
makePinPassword ==
    {MadeWith([NewPassword EXCEPT !.mode = "pin", !.length = n, !.format = {"digits"}]) :
        n \in Asked("pin")}
makePassphrasePassword ==
    {[NewPassword EXCEPT !.mode = "passphrase", !.length = Prompts["passphrase"].default,
                         !.value = [of |-> "words", length |-> n, classes |-> {}],
                         !.altered = TRUE] : n \in Asked("passphrase")}
Pwgen == makeCustomPassword \cup makeRandomPassword \cup makePinPassword
             \cup makePassphrasePassword

Command ==
    /\ Click
    /\ UNCHANGED <<form, screen, dialog, shown, picked>> /\ UNCHANGED clock

\* "add" of a login, of a password, and of an SSH key that is generated or read
\* from a file.
AddWithPassword(kind) ==
    /\ Command /\ stored = NoItem /\ kind \in Kinds
    /\ \E pw \in Pwgen : stored' = [NoItem EXCEPT !.kind = kind, !.pw = pw]
addLoginItem == AddWithPassword("login")
addPasswordItem == AddWithPassword("password")
addSSHKeyItem ==
    /\ Command /\ stored = NoItem /\ "sshkey" \in Kinds
    /\ \E k \in Keys :
          stored' = [NoItem EXCEPT !.kind = "sshkey", !.keys = KeyPair(k)]
importSSHKey ==
    /\ Command /\ stored = NoItem /\ "sshkey" \in Kinds
    /\ \E k \in Keys :
          stored' = [NoItem EXCEPT !.kind = "sshkey", !.keys = KeyPair(k),
                       !.pw = IF k \in Locked THEN [@ EXCEPT !.value = Typed] ELSE @]

\* Mutant of EditWithPassword: the format is not copied.
EditWithPasswordPart(kind) ==
    /\ Command /\ stored.kind = kind /\ kind \in Kinds
    /\ \E pw \in Pwgen :
          stored' = [stored EXCEPT !.pw = [pw EXCEPT !.format = stored.pw.format]]

\* "edit" of a login and of a password makes a new password; the other fields are
\* not in the model, nor is "edit" of a key, which changes no field that is.
EditWithPassword(kind) ==
    /\ Command /\ stored.kind = kind /\ kind \in Kinds
    /\ \E pw \in Pwgen : stored' = [stored EXCEPT !.pw = pw]
editLoginItem == EditWithPassword("login")
editPasswordItem == EditWithPassword("password")

--------------------------------------------------------------------------------
Window ==
    \/ SelectItem \/ AddItem \/ EditItem \/ Back \/ Save
    \/ TypePassword \/ EnterSecret \/ TOTPSettings
    \/ OpenGenerator \/ SelectType \/ SetLength \/ ToggleClass \/ RefreshPassword
    \/ TypeInGenerator \/ UseGenerated \/ CancelGenerator
    \/ GenerateKey \/ ImportKey \/ ImportFile \/ ImportCancelled \/ ImportProtected

ItemNext ==
    \/ Window \/ Tick \/ Suspend \/ Restart
    \/ addLoginItem \/ addPasswordItem \/ addSSHKeyItem \/ importSSHKey
    \/ editLoginItem \/ editPasswordItem

\* The runtime fires the ticker of a view as long as the view is there.
ItemSpec == ItemInit /\ [][ItemNext]_itemVars

--------------------------------------------------------------------------------
(* Properties *)

\* What the generator offers was generated from the options it shows, and these
\* are within the limits of the preferences, whatever was recorded in the item
\* and in whichever order the types, lengths and classes were tried.  It may be
\* older only if the present options generate nothing.
DialogValueFits ==
    dialog = "generator" =>
       /\ form.pw.length \in Modes[form.pw.mode].min .. Modes[form.pw.mode].max
       /\ shown = Typed \/ Fails(form.pw) \/ shown = Secret(form.pw)

\* What is stored belongs together: the three fields of a key come from one key,
\* and a generated password from the options beside it, so that the next one is
\* of the same kind; unless these were altered by a generator that was cancelled,
\* or not recorded at all.
StoredItemFits ==
    /\ stored.keys \in {NoKeys} \cup {KeyPair(k) : k \in Keys}
    /\ \/ stored.pw.value \in {Typed, Empty} \/ stored.pw.altered \/ Fails(stored.pw)
       \/ stored.pw.value = Secret(stored.pw)

\* The code shown is the one of this second, where the interval divides a minute,
\* the hash is SHA1 and the ticker missed nothing.
CodeIsCurrent ==
    bar > 0 /\ ~skewed /\ form.hash = "SHA1" /\ Minute % form.interval = 0 =>
       code = TOTP(form.hash)

================================================================================
