---------------------------- MODULE ScriptMachine ----------------------------
(***************************************************************************)
(* evalScript, src/chain/script.ts: one opcode per step. A script is a     *)
(* sequence of tokens, as tokenize reads the bytes: a push with its data,  *)
(* a bare opcode, or the cut-off push that ends a truncated script.        *)
(*                                                                         *)
(* Items are tuples of integers: only what the opcodes can tell apart of a *)
(* byte string is kept. Hashes do not collide, a signature is valid for    *)
(* one key and one message, and numbers outside +-NumLimit are those of    *)
(* more than MAX_NUM_BYTES bytes.                                          *)
(***************************************************************************)
EXTENDS Integers, SequencesExt

CONSTANTS
  MaxStack,     \* MAX_STACK_SIZE
  MaxOps,       \* MAX_OPS
  MaxWitness,   \* MAX_WITNESS_ITEMS
  MaxKeys,      \* MAX_MULTISIG_KEYS
  NumLimit,     \* the largest number of MAX_NUM_BYTES bytes
  WideLimit,    \* the largest of the five bytes of a locktime
  Threshold,    \* LOCKTIME_THRESHOLD
  Cases         \* what is evaluated: [script, witness, height, mtp, may]

VARIABLE machine

Number(n)    == <<0, n>>
NegativeZero == <<1>>
Key(k)       == <<2, k>>
Sig(k, m)    == <<3, k, m>>      \* by key k over message m
Raw(x)       == <<4, x>>         \* other data, eight bytes
Huge         == <<5>>            \* more than MAX_PUSH_BYTES
HashOf(alg, item) == <<6, alg>> \o item

ThisSpend == 0                   \* ctx.sighash

Push(item) == [op |-> "PUSH", data |-> item]
Small(n)   == [op |-> "OP_n", data |-> Number(n)]
Op(name)   == [op |-> name, data |-> Number(0)]
Ops(names) == [i \in DOMAIN names |-> Op(names[i])]

(* isTruthy: neither empty nor negative zero.                              *)
Truthy(item) == item \notin {Number(0), NegativeZero}

(* decodeNum: minimal encodings of a limited length only.                  *)
IsNumber(item, limit) == item[1] = 0 /\ item[2] \in -limit..limit

Bool(b) == Number(IF b THEN 1 ELSE 0)

SizeOf(item) ==
  CASE item[1] = 0 -> IF item[2] = 0 THEN 0 ELSE IF item[2] \in -127..127 THEN 1 ELSE 2
    [] item[1] = 1 -> 1
    [] item[1] = 2 -> 32
    [] item[1] = 3 -> 64
    [] item[1] = 4 -> 8
    [] item[1] = 6 -> IF item[2] \in {160, 2160} THEN 20 ELSE 32

(* OP_CHECKSIG                                                             *)
Verifies(sig, key) == key[1] = 2 /\ sig = Sig(key[2], ThisSpend)

-----------------------------------------------------------------------------
(* What an opcode makes of the items it takes from the top, bottom first:  *)
(* the items it puts back, or Fails.                                       *)
Fails == << <<-1>> >>

Only(condition) == IF condition THEN <<>> ELSE Fails
Put(condition, item) == IF condition THEN <<item>> ELSE Fails

Arity == [
  OP_VERIFY |-> 1, OP_DROP |-> 1, OP_2DUP |-> 2, OP_DUP |-> 1, OP_IFDUP |-> 1,
  OP_NIP |-> 2, OP_OVER |-> 2, OP_ROT |-> 3, OP_SWAP |-> 2, OP_TUCK |-> 2,
  OP_SIZE |-> 1, OP_EQUAL |-> 2, OP_EQUALVERIFY |-> 2,
  OP_1ADD |-> 1, OP_1SUB |-> 1, OP_NEGATE |-> 1, OP_ABS |-> 1, OP_NOT |-> 1,
  OP_0NOTEQUAL |-> 1, OP_ADD |-> 2, OP_SUB |-> 2, OP_BOOLAND |-> 2,
  OP_BOOLOR |-> 2, OP_NUMEQUAL |-> 2, OP_NUMEQUALVERIFY |-> 2,
  OP_NUMNOTEQUAL |-> 2, OP_LESSTHAN |-> 2, OP_GREATERTHAN |-> 2,
  OP_LESSTHANOREQUAL |-> 2, OP_GREATERTHANOREQUAL |-> 2, OP_MIN |-> 2,
  OP_MAX |-> 2, OP_WITHIN |-> 3,
  OP_RIPEMD160 |-> 1, OP_SHA256 |-> 1, OP_HASH160 |-> 1, OP_HASH256 |-> 1,
  OP_CHECKSIG |-> 2, OP_CHECKSIGVERIFY |-> 2, OP_CHECKLOCKTIMEVERIFY |-> 1]

Shuffle(op, x) ==
  CASE op = "OP_DROP"  -> <<>>
    [] op = "OP_2DUP"  -> x \o x
    [] op = "OP_DUP"   -> <<x[1], x[1]>>
    [] op = "OP_IFDUP" -> IF Truthy(x[1]) THEN <<x[1], x[1]>> ELSE x
    [] op = "OP_NIP"   -> <<x[2]>>
    [] op = "OP_OVER"  -> <<x[1], x[2], x[1]>>
    [] op = "OP_ROT"   -> <<x[2], x[3], x[1]>>
    [] op = "OP_SWAP"  -> <<x[2], x[1]>>
    [] op = "OP_TUCK"  -> <<x[2], x[1], x[2]>>
    [] op = "OP_SIZE"  -> <<x[1], Number(SizeOf(x[1]))>>

Digest(op, x) ==
  CASE op = "OP_RIPEMD160" -> HashOf(160, x)
    [] op = "OP_SHA256"    -> HashOf(256, x)
    [] op = "OP_HASH160"   -> HashOf(2160, x)
    [] op = "OP_HASH256"   -> HashOf(256, HashOf(256, x))

Unary(op, a) ==
  CASE op = "OP_1ADD"   -> a + 1
    [] op = "OP_1SUB"   -> a - 1
    [] op = "OP_NEGATE" -> -a
    [] op = "OP_ABS"    -> IF a < 0 THEN -a ELSE a
    [] op = "OP_NOT"    -> IF a = 0 THEN 1 ELSE 0
    [] op = "OP_0NOTEQUAL" -> IF a = 0 THEN 0 ELSE 1

Compare(op, a, b) ==
  CASE op = "OP_BOOLAND" -> a # 0 /\ b # 0
    [] op = "OP_BOOLOR"  -> a # 0 \/ b # 0
    [] op \in {"OP_NUMEQUAL", "OP_NUMEQUALVERIFY"} -> a = b
    [] op = "OP_NUMNOTEQUAL" -> a # b
    [] op = "OP_LESSTHAN" -> a < b
    [] op = "OP_GREATERTHAN" -> a > b
    [] op = "OP_LESSTHANOREQUAL" -> a <= b
    [] op = "OP_GREATERTHANOREQUAL" -> a >= b

Binary(op, a, b) ==
  CASE op = "OP_ADD" -> Number(a + b)
    [] op = "OP_SUB" -> Number(a - b)
    [] op = "OP_MIN" -> Number(IF a < b THEN a ELSE b)
    [] op = "OP_MAX" -> Number(IF a > b THEN a ELSE b)
    [] OTHER -> Bool(Compare(op, a, b))

Numbers(x) == \A i \in DOMAIN x : IsNumber(x[i], NumLimit)

Arithmetic(op, x) ==
  IF ~Numbers(x) THEN Fails
  ELSE CASE op = "OP_WITHIN" -> <<Bool(x[2][2] <= x[1][2] /\ x[1][2] < x[3][2])>>
         [] op = "OP_NUMEQUALVERIFY" -> Only(x[1][2] = x[2][2])
         [] Len(x) = 1 -> <<Number(Unary(op, x[1][2]))>>
         [] OTHER -> <<Binary(op, x[1][2], x[2][2])>>

LocktimeReached(item, ctx) ==
  /\ IsNumber(item, WideLimit) /\ item[2] >= 0
  /\ (IF item[2] < Threshold THEN ctx.height ELSE ctx.mtp) >= item[2]

Effect(op, x, ctx) ==
  CASE op = "OP_VERIFY" -> Only(Truthy(x[1]))
    [] op = "OP_EQUAL" -> <<Bool(x[1] = x[2])>>
    [] op = "OP_EQUALVERIFY" -> Only(x[1] = x[2])
    [] op = "OP_CHECKSIG" -> <<Bool(Verifies(x[1], x[2]))>>
    [] op = "OP_CHECKSIGVERIFY" -> Only(Verifies(x[1], x[2]))
    [] op = "OP_CHECKLOCKTIMEVERIFY" -> Put(LocktimeReached(x[1], ctx), x[1])
    [] op \in {"OP_RIPEMD160", "OP_SHA256", "OP_HASH160", "OP_HASH256"} -> <<Digest(op, x[1])>>
    [] op \in {"OP_DROP", "OP_2DUP", "OP_DUP", "OP_IFDUP", "OP_NIP", "OP_OVER",
               "OP_ROT", "OP_SWAP", "OP_TUCK", "OP_SIZE"} -> Shuffle(op, x)
    [] OTHER -> Arithmetic(op, x)

-----------------------------------------------------------------------------
(* opCheckMultisig: the keys are scanned once, each for the next signature *)
(* that has none yet.                                                      *)
NextMatch(keys, sig, from) == { k \in from..Len(keys) : Verifies(sig, keys[k]) }

Scan(sigs, keys) ==
  LET failed == Len(keys) + 2
      next(from, sig) == IF NextMatch(keys, sig, from) = {} THEN failed
                         ELSE Min(NextMatch(keys, sig, from)) + 1
  IN FoldLeft(next, 1, sigs) # failed

(* The stack without what OP_CHECKMULTISIG takes, and its answer; or Fails. *)
Multisig(stack) ==
  LET size == Len(stack)
      n    == stack[size][2]
      m    == stack[size - n - 1][2]
      low  == size - n - 2 - m
  IN IF /\ size >= 1 /\ IsNumber(stack[size], NumLimit) /\ n \in 1..MaxKeys
        /\ size - 1 >= n + 1 /\ IsNumber(stack[size - n - 1], NumLimit)
        /\ m \in 1..n /\ low >= 0
     THEN Append(SubSeq(stack, 1, low),
                 Bool(Scan(SubSeq(stack, low + 1, low + m),
                           SubSeq(stack, size - n, size - 1))))
     ELSE Fails

(* OP_PICK and OP_ROLL.                                                    *)
Fetch(op, stack) ==
  LET size == Len(stack) - 1
      rest == Front(stack)
      at   == size - Last(stack)[2]
  IN IF stack # <<>> /\ IsNumber(Last(stack), NumLimit) /\ Last(stack)[2] \in 0..(size - 1)
     THEN Append(IF op = "OP_PICK" THEN rest ELSE RemoveAt(rest, at), rest[at])
     ELSE Fails

-----------------------------------------------------------------------------
(* evalScript *)

vars == machine

Fresh(c) ==
  [case |-> c, pc |-> 1, stack |-> c.witness, alt |-> <<>>, cond |-> <<>>,
   ops |-> 0, verdict |-> "run"]

Admitted(c) ==
  /\ Len(c.witness) <= MaxWitness /\ Len(c.witness) <= MaxStack
  /\ Huge \notin ToSet(c.witness)

Start(c) == [Fresh(c) EXCEPT !.verdict = IF Admitted(c) THEN "run" ELSE "no"]

Init == \E c \in Cases : machine = Start(c)

Running == machine.verdict = "run" /\ machine.pc <= Len(machine.case.script)
Token == machine.case.script[machine.pc]
Executing == \A i \in DOMAIN machine.cond : machine.cond[i]
Failed == machine' = [machine EXCEPT !.verdict = "no"]
Advance(m) == machine' = [m EXCEPT !.pc = @ + 1]

(* The stack an opcode leaves, unless it failed or the stack overflows.    *)
Leave(m, stack) ==
  IF stack = Fails \/ Len(stack) + Len(m.alt) > MaxStack THEN Failed
  ELSE Advance([m EXCEPT !.stack = stack])

(* A push is read in a branch not taken too.                               *)
PushData ==
  /\ Running /\ Token.op = "PUSH"
  /\ IF Token.data = Huge THEN Failed
     ELSE IF Executing THEN Leave(machine, Append(machine.stack, Token.data))
     ELSE Advance(machine)

TruncatedPush == Running /\ Token.op = "TRUNCATED" /\ Failed

Flow == {"OP_IF", "OP_ELSE", "OP_ENDIF"}

OpIf ==
  /\ Running /\ Token.op = "OP_IF"
  /\ IF ~Executing THEN Advance([machine EXCEPT !.cond = Append(@, FALSE)])
     ELSE IF machine.stack = <<>> THEN Failed
     ELSE Advance([machine EXCEPT !.stack = Front(@),
                     !.cond = Append(@, Truthy(Last(machine.stack)))])

(* Mutant: OP_ELSE takes the branch whatever the condition was.            *)
ElseTakes(cond) == Append(Front(cond), TRUE)

Otherwise(cond) == Append(Front(cond), ~Last(cond))

OpElse ==
  /\ Running /\ Token.op = "OP_ELSE"
  /\ IF machine.cond = <<>> THEN Failed
     ELSE Advance([machine EXCEPT !.cond = Otherwise(@)])

OpEndif ==
  /\ Running /\ Token.op = "OP_ENDIF"
  /\ IF machine.cond = <<>> THEN Failed
     ELSE Advance([machine EXCEPT !.cond = Front(@)])

Skip ==
  /\ Running /\ ~Executing /\ Token.op \notin Flow \cup {"PUSH", "TRUNCATED"}
  /\ Advance(machine)

(* What the remaining opcodes leave of the main stack.                     *)
Result(op, stack) ==
  LET n == Arity[op]
      low == Len(stack) - n
      out == Effect(op, SubSeq(stack, low + 1, Len(stack)), machine.case)
  IN CASE op = "OP_NOP"   -> stack
       [] op = "OP_n"     -> Append(stack, Token.data)
       [] op = "OP_DEPTH" -> Append(stack, Number(Len(stack)))
       [] op \in {"OP_PICK", "OP_ROLL"} -> Fetch(op, stack)
       [] op = "OP_CHECKMULTISIG" -> Multisig(stack)
       [] op \in DOMAIN Arity ->
            IF low < 0 \/ out = Fails THEN Fails ELSE SubSeq(stack, 1, low) \o out
       [] OTHER -> Fails

Counted == [machine EXCEPT !.ops = @ + 1]

(* An opcode in a branch that is taken, one of MAX_OPS.                    *)
Execute ==
  /\ Running /\ Executing
  /\ Token.op \notin Flow \cup {"PUSH", "TRUNCATED", "OP_TOALTSTACK", "OP_FROMALTSTACK"}
  /\ IF Counted.ops > MaxOps THEN Failed
     ELSE Leave(Counted, Result(Token.op, machine.stack))

ToAltStack ==
  /\ Running /\ Executing /\ Token.op = "OP_TOALTSTACK"
  /\ IF Counted.ops > MaxOps \/ machine.stack = <<>> THEN Failed
     ELSE Advance([Counted EXCEPT !.stack = Front(@), !.alt = Append(@, Last(machine.stack))])

FromAltStack ==
  /\ Running /\ Executing /\ Token.op = "OP_FROMALTSTACK"
  /\ IF Counted.ops > MaxOps \/ machine.alt = <<>> THEN Failed
     ELSE Advance([Counted EXCEPT !.alt = Front(@), !.stack = Append(@, Last(machine.alt))])

End ==
  /\ machine.verdict = "run" /\ machine.pc > Len(machine.case.script)
  /\ machine' = [machine EXCEPT !.verdict =
       IF machine.cond = <<>> /\ machine.stack # <<>> /\ Truthy(Last(machine.stack))
       THEN "ok" ELSE "no"]

Next ==
  \/ PushData \/ TruncatedPush \/ OpIf \/ OpElse \/ OpEndif
  \/ Skip \/ Execute \/ ToAltStack \/ FromAltStack \/ End

-----------------------------------------------------------------------------
(* The templates of scriptBuild.ts and the tests, and who may spend them:  *)
(* with what on top of the witness, and when.                              *)

Top(witness, k) == SubSeq(witness, Len(witness) - k + 1, Len(witness))

Claim(secret, key) ==
  <<Op("OP_SHA256"), Push(HashOf(256, secret)), Op("OP_EQUALVERIFY"),
    Push(key), Op("OP_CHECKSIG")>>

hashlockScript(secret) == <<Op("OP_SHA256"), Push(HashOf(256, secret)), Op("OP_EQUAL")>>
hashlockSigScript(secret, key) == Claim(secret, key)
htlcScript(secret, recipient, locktime, sender) ==
  <<Op("OP_IF")>> \o Claim(secret, recipient) \o
  <<Op("OP_ELSE"), Push(Number(locktime)), Op("OP_CHECKLOCKTIMEVERIFY"), Op("OP_DROP"),
    Push(sender), Op("OP_CHECKSIG"), Op("OP_ENDIF")>>
multisigScript(m, keys) ==
  <<Small(m)>> \o [i \in DOMAIN keys |-> Push(keys[i])]
    \o <<Small(Len(keys)), Op("OP_CHECKMULTISIG")>>

MayHashlock(w, secret) == w # <<>> /\ Last(w) = secret

MayHashlockSig(w, secret, key) ==
  Len(w) >= 2 /\ Top(w, 2) = <<Sig(key[2], ThisSpend), secret>>

(* Claimed with the secret at any time, refunded after the locktime, which *)
(* is a height or a time.                                                  *)
MayHtlc(w, height, mtp, secret, recipient, locktime, sender) ==
  \/ /\ Len(w) >= 3 /\ Truthy(Last(w))
     /\ MayHashlockSig(Front(w), secret, recipient)
  \/ /\ Len(w) >= 2 /\ ~Truthy(Last(w))
     /\ Front(w)[Len(w) - 1] = Sig(sender[2], ThisSpend)
     /\ (locktime < Threshold /\ height >= locktime) \/ (locktime >= Threshold /\ mtp >= locktime)

(* m signatures by m of the keys, in the keys' order.                      *)
MayMultisig(w, m, keys) ==
  /\ Len(w) >= m
  /\ \E f \in [1..m -> DOMAIN keys] :
       /\ \A i, j \in 1..m : i < j => f[i] < f[j]
       /\ \A i \in 1..m : Top(w, m)[i] = Sig(keys[f[i]][2], ThisSpend)

(* Whoever evaluates it, a script is satisfied by exactly the witnesses    *)
(* its author had in mind: no order of signatures, reading of the locktime,*)
(* branch, depth of the stack or count of opcodes opens or locks the coin. *)
SpendRule ==
  machine.verdict # "run" => (machine.verdict = "ok" <=> machine.case.may)
=============================================================================
