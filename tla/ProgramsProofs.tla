--------------------------- MODULE ProgramsProofs ---------------------------
(***************************************************************************)
(* Proofs about Programs: shaders live exactly as long as something names  *)
(* them, every module has one owner, and a cached pipeline runs the code   *)
(* that the modules it is found by hold.                                   *)
(*                                                                         *)
(* Proofs about Interfaces, the second half: what an application is told   *)
(* about a linked program is what its shaders declare, no link is refused  *)
(* without a reason, and setters write one uniform for both stages.        *)
(***************************************************************************)
EXTENDS Programs, Interfaces, TotalsTheorems, FiniteSetTheorems

-----------------------------------------------------------------------------
(* The inductive invariant.                                                 *)

(* An object is named as the kind it is: one shader never is both stages of *)
(* a program.                                                               *)
KindsMatch ==
    \A p \in ProgramNames, k \in Kinds :
        /\ attached[p][k] # None => Kind(attached[p][k]) = k
        /\ linked[p][k] # None => Kind(linked[p][k]) = k

(* A program whose slot is free names nothing and owns nothing.             *)
Dormant ==
    \A p \in ProgramNames \ exists :
        attached[p] = NoShaders /\ linked[p] = NoShaders /\ own[p] = NoShaders

(* What is compiled has a source.                                           *)
Sourced == \A s \in compiled : source[s] # None

(* What is held exists, is held once, and what exists is held.              *)
ShaderModules ==
    /\ \A s \in Shaders : module[s] # None => code[module[s]] # None
    /\ \A s, t \in Shaders : module[s] # None /\ module[s] = module[t] => s = t
ProgramModules ==
    /\ \A p \in ProgramNames, k \in Kinds : own[p][k] # None => code[own[p][k]] # None
    /\ \A p, q \in ProgramNames, k, j \in Kinds :
          own[p][k] # None /\ own[p][k] = own[q][j] => p = q /\ k = j
Apart ==
    \A s \in Shaders, p \in ProgramNames, k \in Kinds :
        module[s] # None => module[s] # own[p][k]
NoLeaks ==
    \A h \in Handles : code[h] # None =>
        \/ \E s \in Shaders : module[s] = h
        \/ \E p \in ProgramNames, k \in Kinds : own[p][k] = h
Owned == ShaderModules /\ ProgramModules /\ Apart /\ NoLeaks

(* The parts of the type invariant: objects, and what the device holds.     *)
ObjectsType ==
    /\ alive \subseteq Shaders /\ pending \subseteq alive
    /\ source \in [Shaders -> Sources \cup {None}]
    /\ compiled \subseteq alive /\ lowered \subseteq compiled
    /\ exists \subseteq ProgramNames /\ deleted \subseteq exists
    /\ attached \in [ProgramNames -> [Kinds -> Shaders \cup {None}]]
    /\ linked \in [ProgramNames -> [Kinds -> Shaders \cup {None}]]
    /\ status \subseteq exists
    /\ uniform \in [ProgramNames -> Values]
    /\ current \in exists \cup {None}
OwnersType ==
    /\ module \in [Shaders -> Handles \cup {None}]
    /\ own \in [ProgramNames -> [Kinds -> Handles \cup {None}]]
DeviceType ==
    /\ code \in [Handles -> Code \cup {None}]
    /\ cache \subseteq [modules : [Kinds -> Handles], code : [Kinds -> Code]]

Objects == ObjectsType /\ ReferencesLive /\ DeletedHeld /\ KindsMatch /\ Sourced
Device == OwnersType /\ DeviceType /\ Owned /\ CacheMatchesModules

Inv == Objects /\ Device /\ Dormant

LEMMA InvParts ==
    Inv => TypeOK /\ ReferencesLive /\ DeletedHeld /\ CacheMatchesModules
  BY DEF Inv, Objects, Device, ObjectsType, OwnersType, DeviceType, TypeOK

LEMMA InitInv == Init => Inv
<1> SUFFICES ASSUME Init PROVE Inv
  OBVIOUS
<1>1. Objects
  BY NamesAssumption DEF Init, Objects, ObjectsType, ReferencesLive, DeletedHeld, KindsMatch, Sourced, NoShaders, Values, Shaders
<1>2. OwnersType /\ DeviceType /\ CacheMatchesModules
  BY DEF Init, OwnersType, DeviceType, CacheMatchesModules, NoShaders
<1>3. Owned
  BY DEF Init, Owned, ShaderModules, ProgramModules, Apart, NoLeaks, NoShaders
<1> QED
  BY <1>1, <1>2, <1>3 DEF Inv, Device, Dormant, Init, NoShaders

-----------------------------------------------------------------------------
(* The modules of the device.                                               *)

(* What the device holds after modules went and others were made.           *)
LEMMA Exchange ==
    ASSUME Device, NEW gone, NEW made,
           DOMAIN made \subseteq Handles, \A h \in DOMAIN made : made[h] \in Code,
           code' = Changed(gone, made)
    PROVE  /\ code' \in [Handles -> Code \cup {None}]
           /\ \A h \in Handles : code'[h] # None <=> h \in DOMAIN made \/ (h \notin gone /\ code[h] # None)
           /\ \A h \in Handles : h \notin DOMAIN made /\ h \notin gone => code'[h] = code[h]
  BY NamesAssumption DEF Device, DeviceType, Changed

(* A pipeline that survives an exchange runs modules the exchange left alone. *)
LEMMA CacheKept ==
    ASSUME Device, NEW gone, NEW made,
           DOMAIN made \subseteq Handles, \A h \in DOMAIN made : made[h] \in Code,
           code' = Changed(gone, made), NEW cleared,
           cache' = IF cleared THEN {} ELSE cache,
           ~cleared => gone \subseteq {None} /\ DOMAIN made \subseteq Free
    PROVE  DeviceType' /\ CacheMatchesModules'
<1>1. code' \in [Handles -> Code \cup {None}]
  BY Exchange
<1>2. cache' \subseteq cache
  OBVIOUS
<1>3. ASSUME NEW entry \in cache', NEW k \in Kinds
      PROVE  code'[entry.modules[k]] = entry.code[k]
  <2>1. /\ entry \in cache /\ gone \subseteq {None} /\ DOMAIN made \subseteq Free
        /\ entry.modules[k] \in Handles /\ entry.code[k] \in Code
    BY <1>3 DEF Device, DeviceType
  <2>2. code[entry.modules[k]] = entry.code[k]
    BY <2>1 DEF Device, CacheMatchesModules
  <2>3. entry.modules[k] \notin DOMAIN made /\ entry.modules[k] \notin gone
    BY <2>1, <2>2, NamesAssumption DEF Free
  <2> QED
    BY <2>1, <2>2, <2>3, Exchange
<1> QED
  BY <1>1, <1>2, <1>3 DEF Device, DeviceType, CacheMatchesModules

(* Every owner drops its module, keeps one that stays, or gets a new one.   *)
HandedOver(gone, new) ==
    /\ new \subseteq Handles /\ new \subseteq Free \cup gone
    /\ \A h \in Handles : code'[h] # None <=> h \in new \/ (h \notin gone /\ code[h] # None)
    /\ \A s \in Shaders :
          module'[s] \in new \cup {None} \/ (module'[s] = module[s] /\ module[s] \notin gone)
    /\ \A s \in Shaders : module[s] # None /\ module[s] \notin gone => module'[s] = module[s]
    /\ \A p \in ProgramNames, k \in Kinds :
          own'[p][k] \in new \cup {None} \/ (own'[p][k] = own[p][k] /\ own[p][k] \notin gone)
    /\ \A p \in ProgramNames, k \in Kinds :
          own[p][k] # None /\ own[p][k] \notin gone => own'[p][k] = own[p][k]
    /\ \A s, t \in Shaders : module'[s] \in new /\ module'[s] = module'[t] => s = t
    /\ \A p, q \in ProgramNames, k, j \in Kinds :
          own'[p][k] \in new /\ own'[p][k] = own'[q][j] => p = q /\ k = j
    /\ \A s \in Shaders, p \in ProgramNames, k \in Kinds :
          module'[s] \in new => module'[s] # own'[p][k]
    /\ \A h \in new : \/ \E s \in Shaders : module'[s] = h
                    \/ \E p \in ProgramNames, k \in Kinds : own'[p][k] = h

LEMMA Handover ==
    ASSUME Owned, OwnersType, OwnersType', NEW gone, NEW new, HandedOver(gone, new)
    PROVE  Owned'
<1> USE DEF HandedOver
<1>1. ASSUME NEW s \in Shaders, module'[s] # None
      PROVE  module'[s] \in Handles /\ code'[module'[s]] # None
  BY <1>1, NamesAssumption DEF Owned, ShaderModules, OwnersType
<1>2. ASSUME NEW p \in ProgramNames, NEW k \in Kinds, own'[p][k] # None
      PROVE  own'[p][k] \in Handles /\ code'[own'[p][k]] # None
  BY <1>2, NamesAssumption DEF Owned, ProgramModules, OwnersType
<1>3. ASSUME NEW s \in Shaders, module'[s] \notin new, module'[s] # None
      PROVE  module'[s] = module[s]
  BY <1>3
<1>4. ASSUME NEW p \in ProgramNames, NEW k \in Kinds, own'[p][k] \notin new, own'[p][k] # None
      PROVE  own'[p][k] = own[p][k]
  BY <1>4
<1>5. ShaderModules'
  BY <1>1, <1>3 DEF Owned, ShaderModules
<1>6. ProgramModules'
  BY <1>2, <1>4 DEF Owned, ProgramModules
<1>7. Apart'
  BY <1>3, <1>4 DEF Owned, Apart
<1>8. NoLeaks'
  BY NamesAssumption DEF Owned, NoLeaks
<1> QED
  BY <1>5, <1>6, <1>7, <1>8 DEF Owned

(* What is made from compiled shaders.                                      *)
LEMMA NewModules ==
    ASSUME ObjectsType, Sourced, NEW S \in SUBSET compiled, NEW T \in SUBSET Handles,
           NEW new \in Injection(S, T), NEW value \in Values
    PROVE  /\ DOMAIN new = S /\ \A s \in S : new[s] \in T
           /\ \A s, t \in S : new[s] = new[t] => s = t
           /\ \A h : h \in Range(new) <=> \E s \in S : new[s] = h
           /\ DOMAIN Made(new, value) = Range(new)
           /\ \A h \in Range(new) : Made(new, value)[h] \in Code
<1>1. new \in [S -> T] /\ \A s, t \in S : new[s] = new[t] => s = t
  BY DEF Injection, IsInjective
<1>2. \A h : h \in Range(new) <=> \E s \in S : new[s] = h
  BY <1>1 DEF Range
<1>3. ASSUME NEW h \in Range(new)
      PROVE  Made(new, value)[h] \in Code
  <2> DEFINE s == CHOOSE x \in DOMAIN new : new[x] = h
  <2>1. s \in compiled
    BY <1>1, <1>2, <1>3
  <2>2. source[s] \in Sources
    BY <2>1 DEF ObjectsType, Sourced
  <2>3. Made(new, value)[h] = [source |-> source[s], value |-> value]
    BY <1>3 DEF Made
  <2> QED
    BY <2>2, <2>3 DEF Code
<1> QED
  BY <1>1, <1>2, <1>3 DEF Made

(* Shaders and programs that lose their modules.                            *)
LEMMA Destroy ==
    ASSUME Device, OwnersType', NEW G \in SUBSET Shaders, NEW P \in SUBSET ProgramNames,
           module' = [s \in Shaders |-> IF s \in G THEN None ELSE module[s]],
           own' = [p \in ProgramNames |-> IF p \in P THEN NoShaders ELSE own[p]],
           Retire({module[s] : s \in G} \cup UNION {OwnModules(p) : p \in P}, NoneMade)
    PROVE  Device'
<1> DEFINE gone == {module[s] : s \in G} \cup UNION {OwnModules(p) : p \in P}
<1>1. /\ code' = Changed(gone, NoneMade)
      /\ cache' = IF gone \ {None} # {} THEN {} ELSE cache
      /\ DOMAIN NoneMade = {}
  BY DEF Retire, Invalidate, NoneMade
<1>2. DeviceType' /\ CacheMatchesModules'
  BY <1>1, CacheKept
<1>3. \A h \in Handles : code'[h] # None <=> h \notin gone /\ code[h] # None
  BY <1>1, Exchange
<1>4. \A h : h \in gone <=> \/ \E s \in G : module[s] = h
                        \/ \E p \in P, k \in Kinds : own[p][k] = h
  BY DEF OwnModules
<1>5. ASSUME NEW s \in Shaders, module[s] # None
      PROVE  IF s \in G THEN module'[s] = None ELSE module'[s] = module[s] /\ module[s] \notin gone
  BY <1>4, <1>5 DEF Device, Owned, ShaderModules, Apart
<1>6. ASSUME NEW p \in ProgramNames, NEW k \in Kinds, own[p][k] # None
      PROVE  IF p \in P THEN own'[p][k] = None
                         ELSE own'[p][k] = own[p][k] /\ own[p][k] \notin gone
  <2>1. \A s \in G : module[s] # own[p][k]
    BY <1>6 DEF Device, Owned, Apart
  <2> QED
    BY <1>4, <1>6, <2>1 DEF Device, Owned, ProgramModules, NoShaders
<1>7. /\ \A s \in G : module[s] \in gone
      /\ \A p \in P, k \in Kinds : own[p][k] \in gone
  BY <1>4
<1>8. /\ \A s \in Shaders : module[s] = None => module'[s] = None
      /\ \A p \in ProgramNames, k \in Kinds : own[p][k] = None => own'[p][k] = None
  BY DEF NoShaders
<1> HIDE DEF gone
<1>9. Owned'
  <2> DEFINE new == {}
  <2>1. Owned /\ OwnersType /\ new \subseteq Handles /\ new \subseteq Free \cup gone
    BY DEF Device
  <2>2. \A h \in Handles : code'[h] # None <=> h \in new \/ (h \notin gone /\ code[h] # None)
    BY <1>3
  <2>3. /\ \A s \in Shaders :
              module'[s] \in new \cup {None} \/ (module'[s] = module[s] /\ module[s] \notin gone)
        /\ \A s \in Shaders : module[s] # None /\ module[s] \notin gone => module'[s] = module[s]
    BY <1>5, <1>7, <1>8
  <2>4. /\ \A p \in ProgramNames, k \in Kinds :
              own'[p][k] \in new \cup {None} \/ (own'[p][k] = own[p][k] /\ own[p][k] \notin gone)
        /\ \A p \in ProgramNames, k \in Kinds :
              own[p][k] # None /\ own[p][k] \notin gone => own'[p][k] = own[p][k]
    BY <1>6, <1>7, <1>8
  <2>5. \A h : h \notin new
    OBVIOUS
  <2> HIDE DEF new
  <2> QED
    BY <2>1, <2>2, <2>3, <2>4, <2>5, Handover DEF HandedOver
<1> QED
  BY <1>2, <1>9 DEF Device

(* New modules: the shaders R get those made from them, and the stages K of *)
(* the program p those made from shader[k]; the shaders G and the stages L  *)
(* of p are left without.                                                   *)
Renewed(p, S, R, G, K, L, shader, gone, new, value, cleared) ==
    /\ S \subseteq compiled /\ R \subseteq S /\ G \subseteq Shaders
    /\ K \subseteq Kinds /\ L \subseteq Kinds /\ (K # {} => p \in ProgramNames)
    /\ \A h : h \in gone <=> (\E s \in G : module[s] = h)
                         \/ (p \in ProgramNames /\ \E k \in K \cup L : own[p][k] = h)
    /\ \E T \in SUBSET Handles : T \subseteq Free \cup gone /\ new \in Injection(S, T)
    /\ value \in Values
    /\ code' = Changed(gone, Made(new, value))
    /\ cache' = IF cleared THEN {} ELSE cache
    /\ ~cleared => gone \subseteq {None}
    /\ \A s \in Shaders :
          module'[s] = IF s \in R THEN new[s] ELSE IF s \in G THEN None ELSE module[s]
    /\ \A q \in ProgramNames, k \in Kinds :
          own'[q][k] = IF q = p /\ k \in K THEN new[shader[k]]
                       ELSE IF q = p /\ k \in L THEN None ELSE own[q][k]
    /\ \A s \in R : module[s] = None \/ s \in G
    /\ \A k \in K : shader[k] \in S \ R
    /\ \A k, j \in K : shader[k] = shader[j] => k = j
    /\ \A s \in S \ R : \E k \in K : shader[k] = s

LEMMA Renew ==
    ASSUME Device, ObjectsType, Sourced, OwnersType',
           NEW p, NEW S, NEW R, NEW G, NEW K, NEW L, NEW shader, NEW gone, NEW new, NEW value, NEW cleared,
           Renewed(p, S, R, G, K, L, shader, gone, new, value, cleared)
    PROVE  Device'
<1> USE DEF Renewed
<1>0. PICK T \in SUBSET Handles : T \subseteq Free \cup gone /\ new \in Injection(S, T)
  OBVIOUS
<1> DEFINE made == Made(new, value)
           fresh == Range(new)
<1>1. /\ DOMAIN new = S /\ \A s \in S : new[s] \in T
      /\ \A s, t \in S : new[s] = new[t] => s = t
      /\ \A h : h \in fresh <=> \E s \in S : new[s] = h
      /\ DOMAIN made = fresh /\ \A h \in fresh : made[h] \in Code
  <2>1. S \in SUBSET compiled /\ value \in Values
    OBVIOUS
  <2> HIDE DEF Renewed
  <2> QED
    BY <1>0, <2>1, NewModules DEF made, fresh
<1>2. fresh \in SUBSET Handles /\ fresh \subseteq Free \cup gone /\ None \notin fresh
  BY <1>0, <1>1, NamesAssumption
<1> HIDE DEF made, fresh
<1>3. code' = Changed(gone, made)
  BY DEF made
<1>4. DeviceType' /\ CacheMatchesModules'
  <2>1. ~cleared => fresh \subseteq Free
    BY <1>2, NamesAssumption
  <2> QED
    BY <1>1, <1>2, <1>3, <2>1, CacheKept
<1>5. \A h \in Handles : code'[h] # None <=> h \in fresh \/ (h \notin gone /\ code[h] # None)
  BY <1>1, <1>2, <1>3, Exchange
<1>6. /\ \A s \in R : module'[s] \in fresh /\ new[s] = module'[s]
      /\ \A k \in K : p \in ProgramNames /\ own'[p][k] \in fresh /\ own'[p][k] = new[shader[k]]
  BY <1>1, NamesAssumption DEF ObjectsType
<1>7. ASSUME NEW s \in Shaders, s \notin R, module'[s] # None
      PROVE  module'[s] = module[s] /\ module[s] \notin gone /\ module[s] \notin fresh
  <2>1. module'[s] = module[s] /\ s \notin G /\ module[s] # None
    BY <1>7
  <2>2. module[s] \notin gone
    BY <2>1 DEF Device, Owned, ShaderModules, Apart
  <2> QED
    BY <1>2, <2>1, <2>2 DEF Device, Owned, ShaderModules, Free
<1>8. ASSUME NEW q \in ProgramNames, NEW k \in Kinds, ~(q = p /\ k \in K), own'[q][k] # None
      PROVE  own'[q][k] = own[q][k] /\ own[q][k] \notin gone /\ own[q][k] \notin fresh
  <2>1. own'[q][k] = own[q][k] /\ ~(q = p /\ k \in K \cup L) /\ own[q][k] # None
    BY <1>8
  <2>2. \A t \in Shaders : module[t] # own[q][k]
    BY <2>1 DEF Device, Owned, Apart
  <2>3. own[q][k] \notin gone
    BY <2>1, <2>2 DEF Device, Owned, ProgramModules
  <2> QED
    BY <1>2, <2>1, <2>3 DEF Device, Owned, ProgramModules, Free
<1>9. /\ \A s \in Shaders :
            module'[s] \in fresh \cup {None} \/ (module'[s] = module[s] /\ module[s] \notin gone)
      /\ \A s \in Shaders : module[s] # None /\ module[s] \notin gone => module'[s] = module[s]
  <2>1. ASSUME NEW s \in Shaders, module[s] # None, module[s] \notin gone
        PROVE  s \notin R /\ s \notin G
    BY <2>1
  <2> QED
    BY <1>6, <1>7, <2>1
<1>10. /\ \A q \in ProgramNames, k \in Kinds :
             own'[q][k] \in fresh \cup {None} \/ (own'[q][k] = own[q][k] /\ own[q][k] \notin gone)
       /\ \A q \in ProgramNames, k \in Kinds :
             own[q][k] # None /\ own[q][k] \notin gone => own'[q][k] = own[q][k]
  BY <1>6, <1>8
<1>11. \A s, t \in Shaders : module'[s] \in fresh /\ module'[s] = module'[t] => s = t
  BY <1>1, <1>2, <1>6, <1>7
<1>12. \A q, r \in ProgramNames, k, j \in Kinds :
          own'[q][k] \in fresh /\ own'[q][k] = own'[r][j] => q = r /\ k = j
  BY <1>1, <1>2, <1>6, <1>8
<1>13. \A s \in Shaders, q \in ProgramNames, k \in Kinds :
          module'[s] \in fresh => module'[s] # own'[q][k]
  BY <1>1, <1>2, <1>6, <1>7, <1>8
<1>14. \A h \in fresh : \/ \E s \in Shaders : module'[s] = h
                       \/ \E q \in ProgramNames, k \in Kinds : own'[q][k] = h
  <2> SUFFICES ASSUME NEW h \in fresh
               PROVE  \/ \E s \in Shaders : module'[s] = h
                      \/ \E q \in ProgramNames, k \in Kinds : own'[q][k] = h
    OBVIOUS
  <2>1. PICK s \in S : new[s] = h
    BY <1>1
  <2>2. CASE s \in R
    BY <1>6, <2>1, <2>2 DEF ObjectsType
  <2>3. CASE s \notin R
    BY <1>6, <2>1, <2>3
  <2> QED
    BY <2>2, <2>3
<1>15. Owned'
  <2>1. Owned /\ OwnersType
    BY DEF Device
  <2>2. HandedOver(gone, fresh)
    BY <1>2, <1>5, <1>9, <1>10, <1>11, <1>12, <1>13, <1>14 DEF HandedOver
  <2> QED
    BY <2>1, <2>2, Handover
<1> QED
  BY <1>4, <1>15 DEF Device

LEMMA DeviceSame ==
    ASSUME Device, UNCHANGED <<module, own, code, cache>>
    PROVE  Device'
  BY DEF Device, OwnersType, DeviceType, Owned, ShaderModules, ProgramModules, Apart, NoLeaks,
         CacheMatchesModules

-----------------------------------------------------------------------------
(* The objects.                                                             *)

(* References change, and the candidates C that were deleted and lost the   *)
(* last one go.                                                             *)
Rewired(C) ==
    /\ DestroyedShaders(Released(C, exists', attached', linked'))
    /\ lowered' \subseteq compiled'
    /\ exists' \subseteq ProgramNames /\ deleted' \subseteq exists' /\ status' \subseteq exists'
    /\ attached' \in [ProgramNames -> [Kinds -> Shaders \cup {None}]]
    /\ linked' \in [ProgramNames -> [Kinds -> Shaders \cup {None}]]
    /\ uniform' \in [ProgramNames -> Values]
    /\ current' \in exists' \cup {None} /\ deleted' \subseteq {current'}
    /\ KindsMatch'
    /\ \A p \in exists', k \in Kinds :
          /\ attached'[p][k] \in alive \cup {None}
          /\ linked'[p][k] \in alive \cup {None}
          /\ p \in status' => linked'[p][k] \in alive
    /\ \A s \in pending : InUse(s, exists', attached', linked') \/ s \in C

LEMMA Rewire ==
    ASSUME Objects, NEW C, Rewired(C)
    PROVE  Objects'
<1> DEFINE gone == Released(C, exists', attached', linked')
<1>1. /\ gone \subseteq pending
      /\ \A s \in gone : ~InUse(s, exists', attached', linked')
      /\ \A s \in pending \ gone : InUse(s, exists', attached', linked')
  BY DEF Rewired, Released
<1>2. DestroyedShaders(gone)
  BY DEF Rewired
<1> HIDE DEF gone
<1>3. ObjectsType'
  BY <1>2 DEF Rewired, DestroyedShaders, Objects, ObjectsType
<1>4. ReferencesLive'
  <2>1. \A p \in exists', k \in Kinds : attached'[p][k] \notin gone /\ linked'[p][k] \notin gone
    BY <1>1 DEF InUse
  <2> QED
    BY <1>2, <2>1 DEF Rewired, DestroyedShaders, ReferencesLive
<1>5. DeletedHeld'
  <2>1. \A s \in pending' : InUse(s, exists', attached', linked')
    BY <1>1, <1>2 DEF DestroyedShaders
  <2> QED
    BY <2>1 DEF Rewired, DeletedHeld, InUse
<1>6. Sourced'
  BY <1>2 DEF DestroyedShaders, Objects, ObjectsType, Sourced
<1> QED
  BY <1>3, <1>4, <1>5, <1>6 DEF Objects, Rewired

-----------------------------------------------------------------------------
(* Shader objects.                                                          *)

LEMMA CreateShaderKeepsInv ==
    ASSUME Inv, NEW s \in Shaders, CreateShader(s)
    PROVE  Inv'
<1>1. Device' /\ Dormant'
  BY DeviceSame DEF CreateShader, Inv, Dormant, programVars, deviceVars
<1>2. Objects'
  BY DEF CreateShader, Inv, Objects, ObjectsType, ReferencesLive, DeletedHeld, KindsMatch, Sourced,
         InUse, programVars
<1> QED
  BY <1>1, <1>2 DEF Inv

(* The shader alone is left without a module.                               *)
LEMMA DropOne ==
    ASSUME Inv, NEW s \in Shaders,
           module' = [t \in Shaders |-> IF t \in {s} THEN None ELSE module[t]],
           Retire({module[t] : t \in {s}} \cup {}, NoneMade), UNCHANGED <<own, exists, attached, linked>>
    PROVE  Device' /\ Dormant'
<1>1. Device'
  <2>1. OwnersType'
    BY DEF Inv, Device, OwnersType
  <2>2. own' = [p \in ProgramNames |-> IF p \in {} THEN NoShaders ELSE own[p]]
    BY DEF Inv, Device, OwnersType
  <2>3. UNION {OwnModules(p) : p \in {}} = {}
    OBVIOUS
  <2>4. Device /\ {s} \in SUBSET Shaders /\ {} \in SUBSET ProgramNames
    BY DEF Inv
  <2> QED
    BY <2>1, <2>2, <2>3, <2>4, Destroy
<1> QED
  BY <1>1 DEF Inv, Dormant

LEMMA DeleteShaderKeepsInv ==
    ASSUME Inv, NEW s \in Shaders, DeleteShader(s)
    PROVE  Inv'
<1>1. CASE InUse(s, exists, attached, linked)
  <2>1. Device' /\ Dormant'
    BY <1>1, DeviceSame DEF DeleteShader, Inv, Dormant, programVars, deviceVars
  <2>2. Objects'
    BY <1>1 DEF DeleteShader, Inv, Objects, ObjectsType, ReferencesLive, DeletedHeld, KindsMatch,
           Sourced, InUse, programVars
  <2> QED
    BY <2>1, <2>2 DEF Inv
<1>2. CASE ~InUse(s, exists, attached, linked)
  <2>1. DestroyShaders({s}) /\ UNCHANGED programVars
    BY <1>2 DEF DeleteShader
  <2>2. Device' /\ Dormant'
    BY <2>1, DropOne DEF DestroyShaders, DropArtifacts, programVars
  <2>3. Objects'
    BY <1>2, <2>1 DEF DestroyShaders, DestroyedShaders, DropArtifacts, Inv, Objects, ObjectsType,
           ReferencesLive, DeletedHeld, KindsMatch, Sourced, InUse, programVars
  <2> QED
    BY <2>2, <2>3 DEF Inv
<1> QED
  BY <1>1, <1>2

LEMMA ShaderSourceKeepsInv ==
    ASSUME Inv, NEW s \in Shaders, ShaderSource(s)
    PROVE  Inv'
<1>1. Device' /\ Dormant'
  BY DropOne DEF ShaderSource, DropArtifacts, programVars
<1>2. Objects'
  BY DEF ShaderSource, DropArtifacts, Inv, Objects, ObjectsType, ReferencesLive, DeletedHeld,
         KindsMatch, Sourced, InUse, programVars
<1> QED
  BY <1>1, <1>2 DEF Inv

LEMMA CompileShaderKeepsInv ==
    ASSUME Inv, NEW s \in Shaders, CompileShader(s)
    PROVE  Inv'
<1>1. Device' /\ Dormant'
  BY DropOne DEF CompileShader, DropArtifacts, programVars
<1>2. Objects'
  BY DEF CompileShader, DropArtifacts, Inv, Objects, ObjectsType, ReferencesLive, DeletedHeld,
         KindsMatch, Sourced, InUse, programVars
<1> QED
  BY <1>1, <1>2 DEF Inv

LEMMA LowerShaderKeepsInv ==
    ASSUME Inv, NEW s \in Shaders, LowerShader(s)
    PROVE  Inv'
<1>1. Device' /\ Dormant'
  <2>1. module' = [t \in Shaders |-> IF t \in {s} THEN None ELSE module[t]]
    BY DEF LowerShader, Inv, Device, OwnersType
  <2>2. {module[t] : t \in {s}} \cup {} = {module[s]}
    OBVIOUS
  <2> QED
    BY <2>1, <2>2, DropOne DEF LowerShader, programVars
<1>2. Objects'
  BY DEF LowerShader, Inv, Objects, ObjectsType, ReferencesLive, DeletedHeld, KindsMatch, Sourced,
         InUse, programVars
<1> QED
  BY <1>1, <1>2 DEF Inv

LEMMA RealizeShaderModuleKeepsInv ==
    ASSUME Inv, NEW s \in Shaders, RealizeShaderModule(s)
    PROVE  Inv'
<1>1. PICK h \in Free : /\ module' = [module EXCEPT ![s] = h]
                       /\ Retire({module[s]}, Made([x \in {s} |-> h], 0))
  BY DEF RealizeShaderModule
<1> DEFINE new == [x \in {s} |-> h]
           gone == {module[s]}
<1>2. new \in Injection({s}, Free) /\ Free \in SUBSET Handles
  BY DEF Injection, IsInjective, Free
<1>3. OwnersType'
  BY <1>1, <1>2 DEF RealizeShaderModule, programVars, Inv, Device, OwnersType
<1>4. Renewed(None, {s}, {s}, {s}, {}, {}, NoShaders, gone, new, 0, gone \ {None} # {})
  <2>1. \E T \in SUBSET Handles : T \subseteq Free \cup gone /\ new \in Injection({s}, T)
    BY <1>2
  <2>2. \A t \in Shaders :
           module'[t] = IF t \in {s} THEN new[t] ELSE IF t \in {s} THEN None ELSE module[t]
    BY <1>1 DEF Inv, Device, OwnersType
  <2>3. own' = own /\ s \in compiled
    BY DEF RealizeShaderModule, programVars, Inv, Objects, ObjectsType
  <2>4. /\ code' = Changed(gone, Made(new, 0))
        /\ cache' = IF gone \ {None} # {} THEN {} ELSE cache
    BY <1>1 DEF Retire, Invalidate
  <2> HIDE DEF new
  <2> QED
    BY <2>1, <2>2, <2>3, <2>4 DEF Renewed, Values
<1>5. Device'
  BY <1>3, <1>4, Renew DEF Inv, Objects
<1>6. Objects' /\ Dormant'
  BY DEF RealizeShaderModule, Inv, Objects, ObjectsType, ReferencesLive, DeletedHeld, KindsMatch,
         Sourced, InUse, programVars, Dormant
<1> QED
  BY <1>5, <1>6 DEF Inv

-----------------------------------------------------------------------------
(* Program objects.                                                         *)

LEMMA CreateProgramKeepsInv ==
    ASSUME Inv, NEW p \in ProgramNames, CreateProgram(p)
    PROVE  Inv'
<1>1. Device' /\ Dormant'
  BY DeviceSame DEF CreateProgram, Inv, Dormant, shaderVars, deviceVars
<1>2. Objects'
  BY DEF CreateProgram, Inv, Objects, ObjectsType, ReferencesLive, DeletedHeld, KindsMatch, Sourced,
         InUse, Dormant, NoShaders, shaderVars
<1> QED
  BY <1>1, <1>2 DEF Inv

LEMMA AttachShaderKeepsInv ==
    ASSUME Inv, NEW p \in ProgramNames, NEW s \in Shaders, AttachShader(p, s)
    PROVE  Inv'
<1>1. Device' /\ Dormant'
  BY DeviceSame DEF AttachShader, Inv, Dormant, shaderVars, deviceVars, Objects, ObjectsType
<1> DEFINE k == Kind(s)
<1>2. k \in Kinds /\ attached' = [attached EXCEPT ![p][k] = s]
  BY DEF AttachShader, Kind, Kinds
<1>3. \A q \in ProgramNames, j \in Kinds :
         attached'[q][j] = IF q = p /\ j = k THEN s ELSE attached[q][j]
  BY <1>2 DEF Inv, Objects, ObjectsType
<1>4. attached' \in [ProgramNames -> [Kinds -> Shaders \cup {None}]]
  BY <1>2 DEF Inv, Objects, ObjectsType
<1>5. \A t \in pending : InUse(t, exists, attached, linked) => InUse(t, exists, attached', linked)
  <2> SUFFICES ASSUME NEW t \in pending, InUse(t, exists, attached, linked)
               PROVE  InUse(t, exists, attached', linked)
    OBVIOUS
  <2>1. t # s /\ t # None /\ exists \subseteq ProgramNames
    BY NamesAssumption DEF AttachShader, Inv, Objects, ObjectsType
  <2>2. PICK q \in exists, j \in Kinds : attached[q][j] = t \/ linked[q][j] = t
    BY DEF InUse
  <2>3. q = p /\ j = k => attached[q][j] # t
    BY <2>1 DEF AttachShader
  <2> QED
    BY <1>3, <2>1, <2>2, <2>3 DEF InUse
<1>6. Objects'
  BY <1>3, <1>4, <1>5 DEF AttachShader, Inv, Objects, ObjectsType, ReferencesLive, DeletedHeld,
         KindsMatch, Sourced, InUse, shaderVars
<1> QED
  BY <1>1, <1>6 DEF Inv

LEMMA DetachShaderKeepsInv ==
    ASSUME Inv, NEW p \in ProgramNames, NEW s \in Shaders, DetachShader(p, s)
    PROVE  Inv'
<1> DEFINE k == Kind(s)
           gone == Released({s}, exists, attached', linked)
<1>1. k \in Kinds /\ attached' = [attached EXCEPT ![p][k] = None]
  BY DEF DetachShader, Kind, Kinds
<1>2. \A q \in ProgramNames, j \in Kinds :
         attached'[q][j] = IF q = p /\ j = k THEN None ELSE attached[q][j]
  BY <1>1 DEF Inv, Objects, ObjectsType
<1>3. DestroyShaders(gone) /\ UNCHANGED <<exists, deleted, linked, status, uniform, own, current>>
  BY DEF DetachShader
<1>4. Device'
  <2>1. OwnersType'
    BY <1>3 DEF DestroyShaders, DropArtifacts, Inv, Device, OwnersType
  <2>2. own' = [q \in ProgramNames |-> IF q \in {} THEN NoShaders ELSE own[q]]
    BY <1>3 DEF Inv, Device, OwnersType
  <2>3. UNION {OwnModules(q) : q \in {}} = {}
    OBVIOUS
  <2>4. Device /\ gone \in SUBSET Shaders /\ {} \in SUBSET ProgramNames
    BY DEF Inv, Released
  <2>5. /\ module' = [t \in Shaders |-> IF t \in gone THEN None ELSE module[t]]
        /\ Retire({module[t] : t \in gone} \cup {}, NoneMade)
    BY <1>3 DEF DestroyShaders, DropArtifacts
  <2> HIDE DEF gone
  <2> QED
    BY <2>1, <2>2, <2>3, <2>4, <2>5, Destroy
<1>5. Rewired({s})
  <2>1. /\ DestroyedShaders(Released({s}, exists', attached', linked'))
        /\ lowered' \subseteq compiled'
    BY <1>3 DEF DestroyShaders, DropArtifacts, DestroyedShaders, Inv, Objects, ObjectsType
  <2>2. /\ exists' \subseteq ProgramNames /\ deleted' \subseteq exists' /\ status' \subseteq exists'
        /\ attached' \in [ProgramNames -> [Kinds -> Shaders \cup {None}]]
        /\ linked' \in [ProgramNames -> [Kinds -> Shaders \cup {None}]]
        /\ uniform' \in [ProgramNames -> Values]
        /\ current' \in exists' \cup {None} /\ deleted' \subseteq {current'}
    BY <1>1, <1>3 DEF Inv, Objects, ObjectsType, DeletedHeld
  <2>3. KindsMatch'
    BY <1>2, <1>3 DEF Inv, Objects, KindsMatch
  <2>4. \A q \in exists', j \in Kinds :
          /\ attached'[q][j] \in alive \cup {None}
          /\ linked'[q][j] \in alive \cup {None}
          /\ q \in status' => linked'[q][j] \in alive
    BY <1>2, <1>3 DEF Inv, Objects, ObjectsType, ReferencesLive
  <2>5. ASSUME NEW t \in pending, t # s
        PROVE  InUse(t, exists', attached', linked')
    <3>1. PICK q \in exists, j \in Kinds : attached[q][j] = t \/ linked[q][j] = t
      BY <2>5 DEF InUse, Inv, Objects, DeletedHeld
    <3>2. q = p /\ j = k => attached[q][j] # t
      BY <2>5 DEF DetachShader
    <3> QED
      BY <1>2, <1>3, <3>1, <3>2 DEF InUse, Inv, Objects, ObjectsType
  <2> QED
    BY <2>1, <2>2, <2>3, <2>4, <2>5 DEF Rewired
<1>6. Objects'
  BY <1>5, Rewire DEF Inv
<1>7. Dormant'
  BY <1>2, <1>3 DEF Inv, Dormant, DetachShader, Objects, ObjectsType
<1> QED
  BY <1>4, <1>6, <1>7 DEF Inv

(* Programs go with what they own, and with the deleted shaders that only   *)
(* they named.                                                              *)
LEMMA DestroyedProgramsKeepInv ==
    ASSUME Inv, NEW P \in SUBSET exists, DestroyedPrograms(P),
           current' \in exists' \cup {None}, deleted' \subseteq exists', deleted' \subseteq {current'}
    PROVE  Inv'
<1> DEFINE left == exists \ P
           pairs == {{attached[p][k], linked[p][k]} : p \in P, k \in Kinds}
           dropped == UNION pairs
           shaders == Released(dropped, left, attached, linked)
<1>1. /\ exists' = left /\ status' = status \ P
      /\ attached' = [p \in ProgramNames |-> IF p \in P THEN NoShaders ELSE attached[p]]
      /\ linked' = [p \in ProgramNames |-> IF p \in P THEN NoShaders ELSE linked[p]]
      /\ own' = [p \in ProgramNames |-> IF p \in P THEN NoShaders ELSE own[p]]
      /\ uniform' = [p \in ProgramNames |-> IF p \in P THEN 0 ELSE uniform[p]]
      /\ DestroyedShaders(shaders)
      /\ DropArtifacts(shaders, UNION {OwnModules(p) : p \in P})
  BY DEF DestroyedPrograms
<1>2. Device'
  <2>1. NoShaders \in [Kinds -> Handles \cup {None}] /\ P \in SUBSET ProgramNames
    BY DEF NoShaders, Inv, Objects, ObjectsType
  <2>2. Device /\ shaders \in SUBSET Shaders
    BY DEF Inv, Released, Objects, ObjectsType
  <2>3. /\ module' = [t \in Shaders |-> IF t \in shaders THEN None ELSE module[t]]
        /\ Retire({module[t] : t \in shaders} \cup UNION {OwnModules(p) : p \in P}, NoneMade)
    BY <1>1 DEF DropArtifacts
  <2>4. OwnersType'
    BY <1>1, <2>1, <2>2, <2>3 DEF Device, OwnersType
  <2> HIDE DEF shaders
  <2> QED
    BY <1>1, <2>1, <2>2, <2>3, <2>4, Destroy
<1>3. Dormant'
  BY <1>1 DEF Inv, Dormant
<1>4. Rewired(dropped)
  <2>1. \A s : InUse(s, left, attached, linked) <=> InUse(s, exists', attached', linked')
    BY <1>1 DEF InUse, Inv, Objects, ObjectsType
  <2>2. shaders = Released(dropped, exists', attached', linked')
    BY <2>1 DEF Released
  <2>3. /\ DestroyedShaders(Released(dropped, exists', attached', linked'))
        /\ lowered' \subseteq compiled'
    <3>1. lowered' = lowered \ shaders /\ compiled' = compiled \ shaders
      BY <1>1 DEF DropArtifacts, DestroyedShaders
    <3> QED
      BY <1>1, <2>2, <3>1 DEF Inv, Objects, ObjectsType
  <2>8. ASSUME NEW p \in P, NEW k \in Kinds
        PROVE  attached[p][k] \in dropped /\ linked[p][k] \in dropped
    <3>1. {attached[p][k], linked[p][k]} \in pairs
      OBVIOUS
    <3> HIDE DEF pairs
    <3> QED
      BY <3>1
  <2> HIDE DEF shaders, dropped
  <2>4. /\ exists' \subseteq ProgramNames /\ status' \subseteq exists'
        /\ attached' \in [ProgramNames -> [Kinds -> Shaders \cup {None}]]
        /\ linked' \in [ProgramNames -> [Kinds -> Shaders \cup {None}]]
        /\ uniform' \in [ProgramNames -> Values]
    BY <1>1 DEF Inv, Objects, ObjectsType, NoShaders, Values
  <2>5. KindsMatch'
    BY <1>1 DEF Inv, Objects, KindsMatch, NoShaders
  <2>6. \A p \in exists', k \in Kinds :
          /\ attached'[p][k] \in alive \cup {None}
          /\ linked'[p][k] \in alive \cup {None}
          /\ p \in status' => linked'[p][k] \in alive
    BY <1>1 DEF Inv, Objects, ObjectsType, ReferencesLive
  <2>7. ASSUME NEW s \in pending, s \notin dropped
        PROVE  InUse(s, exists', attached', linked')
    <3>1. PICK p \in exists, k \in Kinds : attached[p][k] = s \/ linked[p][k] = s
      BY DEF InUse, Inv, Objects, DeletedHeld
    <3>2. p \notin P
      BY <2>7, <2>8, <3>1
    <3> QED
      BY <1>1, <2>1, <3>1, <3>2 DEF InUse
  <2> QED
    BY <2>3, <2>4, <2>5, <2>6, <2>7 DEF Rewired
<1>5. Objects'
  BY <1>4, Rewire DEF Inv
<1> QED
  BY <1>2, <1>3, <1>5 DEF Inv

LEMMA DeleteProgramKeepsInv ==
    ASSUME Inv, NEW p \in ProgramNames, DeleteProgram(p)
    PROVE  Inv'
<1>1. CASE p = current
  <2>1. Device' /\ Dormant'
    BY <1>1, DeviceSame DEF DeleteProgram, Inv, Dormant, shaderVars, deviceVars
  <2>2. Objects'
    BY <1>1 DEF DeleteProgram, Inv, Objects, ObjectsType, ReferencesLive, DeletedHeld, KindsMatch,
           Sourced, InUse, shaderVars
  <2> QED
    BY <2>1, <2>2 DEF Inv
<1>2. CASE p # current
  <2>1. DestroyedPrograms({p}) /\ UNCHANGED <<deleted, current>> /\ p \in exists \ deleted
    BY <1>2 DEF DeleteProgram
  <2>2. exists' = exists \ {p}
    BY <2>1 DEF DestroyedPrograms
  <2>3. /\ current' \in exists' \cup {None} /\ deleted' \subseteq exists'
        /\ deleted' \subseteq {current'} /\ {p} \in SUBSET exists
    BY <1>2, <2>1, <2>2 DEF Inv, Objects, ObjectsType, DeletedHeld
  <2> QED
    BY <2>1, <2>3, DestroyedProgramsKeepInv
<1> QED
  BY <1>1, <1>2

LEMMA UseProgramKeepsInv ==
    ASSUME Inv, NEW p \in ProgramNames \cup {None}, UseProgram(p)
    PROVE  Inv'
<1> DEFINE P == {current} \cap deleted
<1>1. /\ p = None \/ p \in status \ deleted
      /\ p # current /\ current' = p
      /\ DestroyedPrograms(P) /\ deleted' = deleted \ {current}
  BY DEF UseProgram
<1>2. exists' = exists \ P
  BY <1>1 DEF DestroyedPrograms
<1>3. /\ current' \in exists' \cup {None} /\ deleted' \subseteq exists'
      /\ deleted' \subseteq {current'} /\ P \in SUBSET exists
  BY <1>1, <1>2 DEF Inv, Objects, ObjectsType, DeletedHeld
<1> HIDE DEF P
<1> QED
  BY <1>1, <1>3, DestroyedProgramsKeepInv

-----------------------------------------------------------------------------
(* Linking and uniforms.                                                    *)

(* The modules of a program, and where new ones come from.                  *)
LEMMA OwnModulesOf ==
    ASSUME OwnersType, NEW p \in ProgramNames
    PROVE  /\ \A h : h \in OwnModules(p) <=> \E k \in Kinds : own[p][k] = h
           /\ Room(p) \in SUBSET Handles /\ Room(p) \subseteq Free \cup OwnModules(p)
  BY DEF OwnersType, OwnModules, Room, Free

LEMMA LinkablePairs ==
    ASSUME ObjectsType, KindsMatch, NEW p \in ProgramNames, Linkable(p)
    PROVE  /\ Attached(p) \subseteq compiled /\ Attached(p) \subseteq Shaders
           /\ Missing(p) \subseteq Attached(p) /\ Reading(p) \subseteq Attached(p)
           /\ \A s \in Attached(p) : \E k \in Kinds : attached[p][k] = s
           /\ \A k \in Kinds : attached[p][k] \in Attached(p)
           /\ \A k, j \in Kinds : attached[p][k] = attached[p][j] => k = j
<1>1. \A k \in Kinds : attached[p][k] # None
  BY NamesAssumption DEF Linkable, ObjectsType
<1>2. \A k, j \in Kinds : attached[p][k] = attached[p][j] => k = j
  BY <1>1 DEF KindsMatch
<1> QED
  BY <1>2 DEF Linkable, Attached, Missing, Reading, ObjectsType

LEMMA NotLinkedKeeps ==
    ASSUME Inv, NEW p \in ProgramNames, NotLinked(p), lowered' \subseteq compiled
    PROVE  Objects' /\ Dormant' /\ own' \in [ProgramNames -> [Kinds -> Handles \cup {None}]]
<1>1. Objects'
  BY DEF NotLinked, LinkStarts, Inv, Objects, ObjectsType, ReferencesLive, DeletedHeld, KindsMatch,
         Sourced, InUse, Values
<1>2. Dormant' /\ own' \in [ProgramNames -> [Kinds -> Handles \cup {None}]]
  BY DEF NotLinked, LinkStarts, Inv, Dormant, Device, OwnersType, NoShaders
<1> QED
  BY <1>1, <1>2

LEMMA LinkFailsKeepsInv ==
    ASSUME Inv, NEW p \in ProgramNames, LinkFails(p)
    PROVE  Inv'
<1>1. Objects' /\ Dormant' /\ own' \in [ProgramNames -> [Kinds -> Handles \cup {None}]]
  BY NotLinkedKeeps DEF LinkFails, Inv, Objects, ObjectsType
<1>2. Device'
  <2>1. OwnersType'
    BY <1>1 DEF LinkFails, Inv, Device, OwnersType
  <2>2. module' = [s \in Shaders |-> IF s \in {} THEN None ELSE module[s]]
    BY DEF LinkFails, Inv, Device, OwnersType
  <2>3. own' = [q \in ProgramNames |-> IF q \in {p} THEN NoShaders ELSE own[q]]
    BY DEF LinkFails, NotLinked, Inv, Device, OwnersType
  <2>4. {module[s] : s \in {}} \cup UNION {OwnModules(q) : q \in {p}} = OwnModules(p)
    OBVIOUS
  <2>5. Device /\ {} \in SUBSET Shaders /\ {p} \in SUBSET ProgramNames
    BY DEF Inv
  <2>6. Retire(OwnModules(p), NoneMade)
    BY DEF LinkFails
  <2> QED
    BY <2>1, <2>2, <2>3, <2>4, <2>5, <2>6, Destroy
<1> QED
  BY <1>1, <1>2 DEF Inv

LEMMA LinkStopsKeepsInv ==
    ASSUME Inv, NEW p \in ProgramNames, LinkStops(p)
    PROVE  Inv'
<1>1. PICK tried \in SUBSET Attached(p), ready \in SUBSET Missing(p) :
         /\ lowered' = lowered \cup tried
         /\ \E new \in Injection(ready, Room(p)) :
               /\ module' = [s \in Shaders |-> IF s \in ready THEN new[s] ELSE module[s]]
               /\ Retire(OwnModules(p), Made(new, 0))
  BY DEF LinkStops
<1>2. PICK new \in Injection(ready, Room(p)) :
         /\ module' = [s \in Shaders |-> IF s \in ready THEN new[s] ELSE module[s]]
         /\ Retire(OwnModules(p), Made(new, 0))
  BY <1>1
<1>3. /\ Attached(p) \subseteq compiled /\ Missing(p) \subseteq Attached(p)
      /\ ready \subseteq Missing(p) /\ ready \subseteq compiled
  BY LinkablePairs DEF LinkStops, Inv, Objects
<1>4. Objects' /\ Dormant' /\ own' \in [ProgramNames -> [Kinds -> Handles \cup {None}]]
  <2>1. lowered' \subseteq compiled
    BY <1>1, <1>3 DEF Inv, Objects, ObjectsType
  <2> QED
    BY <2>1, NotLinkedKeeps DEF LinkStops
<1>5. /\ \A h : h \in OwnModules(p) <=> \E k \in Kinds : own[p][k] = h
      /\ Room(p) \in SUBSET Handles /\ Room(p) \subseteq Free \cup OwnModules(p)
  BY OwnModulesOf DEF Inv, Device
<1>6. OwnersType'
  <2>1. \A s \in ready : new[s] \in Handles
    BY <1>5 DEF Injection
  <2> QED
    BY <1>2, <1>4, <2>1 DEF Inv, Device, OwnersType
<1>7. Renewed(p, ready, ready, {}, {}, Kinds, NoShaders, OwnModules(p), new, 0,
              OwnModules(p) \ {None} # {})
  <2>1. \A h : h \in OwnModules(p) <=> (\E s \in {} : module[s] = h)
                                   \/ (p \in ProgramNames /\ \E k \in {} \cup Kinds : own[p][k] = h)
    BY <1>5
  <2>2. \E T \in SUBSET Handles : T \subseteq Free \cup OwnModules(p) /\ new \in Injection(ready, T)
    BY <1>5
  <2>3. /\ code' = Changed(OwnModules(p), Made(new, 0))
        /\ cache' = IF OwnModules(p) \ {None} # {} THEN {} ELSE cache
    BY <1>2 DEF Retire, Invalidate
  <2>4. \A s \in Shaders :
           module'[s] = IF s \in ready THEN new[s] ELSE IF s \in {} THEN None ELSE module[s]
    BY <1>2
  <2>5. \A q \in ProgramNames, k \in Kinds :
           own'[q][k] = IF q = p /\ k \in {} THEN new[NoShaders[k]]
                        ELSE IF q = p /\ k \in Kinds THEN None ELSE own[q][k]
    BY DEF LinkStops, NotLinked, Inv, Device, OwnersType, NoShaders
  <2>6. \A s \in ready : module[s] = None
    BY <1>3 DEF Missing
  <2> QED
    BY <1>3, <2>1, <2>2, <2>3, <2>4, <2>5, <2>6 DEF Renewed, Values
<1>8. Device'
  BY <1>6, <1>7, Renew DEF Inv, Objects
<1> QED
  BY <1>4, <1>8 DEF Inv

LEMMA LinkDoneKeepsInv ==
    ASSUME Inv, NEW p \in ProgramNames, LinkDone(p)
    PROVE  Inv'
<1> DEFINE candidates == {linked[p][k] : k \in Kinds}
           gone == Released(candidates, exists, attached, linked')
           old == OwnModules(p) \cup {module[s] : s \in gone}
           cleared == old \ {None} # {} \/ Reading(p) # {}
           shaders == Missing(p) \cup Reading(p)
           reading == {k \in Kinds : Reads(attached[p][k])}
<1>1. /\ p \in exists /\ Linkable(p)
      /\ uniform' = [uniform EXCEPT ![p] = 0]
      /\ UNCHANGED <<exists, deleted, attached, current>>
      /\ status' = status \cup {p}
      /\ linked' = [linked EXCEPT ![p] = attached[p]]
      /\ DestroyedShaders(gone)
  BY DEF LinkDone, LinkStarts
<1>2. PICK tried \in SUBSET Attached(p) : lowered' = (lowered \ gone) \cup tried
  BY DEF LinkDone
<1>3. PICK new \in Injection(shaders, Room(p)) :
         /\ module' = [s \in Shaders |->
                CASE s \in Missing(p) -> new[s] [] s \in gone -> None [] OTHER -> module[s]]
         /\ own' = [own EXCEPT ![p] = [k \in Kinds |->
                IF Reads(attached[p][k]) THEN new[attached[p][k]] ELSE None]]
         /\ code' = Changed(old, Made(new, 0))
         /\ Invalidate(cleared)
  BY DEF LinkDone
<1>4. /\ Attached(p) \subseteq compiled /\ Attached(p) \subseteq Shaders
      /\ Missing(p) \subseteq Attached(p) /\ Reading(p) \subseteq Attached(p)
      /\ \A s \in Attached(p) : \E k \in Kinds : attached[p][k] = s
      /\ \A k \in Kinds : attached[p][k] \in Attached(p)
      /\ \A k, j \in Kinds : attached[p][k] = attached[p][j] => k = j
  BY <1>1, LinkablePairs DEF Inv, Objects
<1>5. /\ gone \subseteq pending /\ Attached(p) \cap gone = {}
  BY <1>1, <1>4 DEF Released, InUse
<1>6. \A q \in ProgramNames, k \in Kinds :
         linked'[q][k] = IF q = p THEN attached[p][k] ELSE linked[q][k]
  BY <1>1 DEF Inv, Objects, ObjectsType
<1>7. Rewired(candidates)
  <2>1. gone = Released(candidates, exists', attached', linked')
    BY <1>1
  <2> HIDE DEF gone, candidates
  <2>2. lowered' \subseteq compiled'
    BY <1>1, <1>2, <1>4, <1>5 DEF DestroyedShaders, Inv, Objects, ObjectsType
  <2>3. /\ exists' \subseteq ProgramNames /\ deleted' \subseteq exists' /\ status' \subseteq exists'
        /\ attached' \in [ProgramNames -> [Kinds -> Shaders \cup {None}]]
        /\ linked' \in [ProgramNames -> [Kinds -> Shaders \cup {None}]]
        /\ uniform' \in [ProgramNames -> Values]
        /\ current' \in exists' \cup {None} /\ deleted' \subseteq {current'}
    BY <1>1 DEF Inv, Objects, ObjectsType, DeletedHeld, Values
  <2>4. KindsMatch'
    BY <1>1, <1>6 DEF Inv, Objects, KindsMatch
  <2>5. \A q \in exists', k \in Kinds :
          /\ attached'[q][k] \in alive \cup {None}
          /\ linked'[q][k] \in alive \cup {None}
          /\ q \in status' => linked'[q][k] \in alive
    BY <1>1, <1>4, <1>6 DEF Inv, Objects, ObjectsType, ReferencesLive
  <2>6. ASSUME NEW s \in pending, s \notin candidates
        PROVE  InUse(s, exists', attached', linked')
    <3>1. PICK q \in exists, k \in Kinds : attached[q][k] = s \/ linked[q][k] = s
      BY DEF InUse, Inv, Objects, DeletedHeld
    <3>2. q = p => linked[q][k] # s
      BY <2>6 DEF candidates
    <3> QED
      BY <1>1, <1>6, <3>1, <3>2 DEF InUse, Inv, Objects, ObjectsType
  <2> QED
    BY <1>1, <2>1, <2>2, <2>3, <2>4, <2>5, <2>6 DEF Rewired
<1>8. Objects'
  BY <1>7, Rewire DEF Inv
<1>9. /\ \A h : h \in OwnModules(p) <=> \E k \in Kinds : own[p][k] = h
      /\ Room(p) \in SUBSET Handles /\ Room(p) \subseteq Free \cup OwnModules(p)
  BY OwnModulesOf DEF Inv, Device
<1>10. \A s \in shaders : new[s] \in Handles
  <2> HIDE DEF shaders
  <2>1. new \in [shaders -> Room(p)]
    BY <1>3 DEF Injection
  <2> QED
    BY <1>9, <2>1
<1>11. \A s \in Shaders :
          module'[s] = IF s \in Missing(p) THEN new[s] ELSE IF s \in gone THEN None ELSE module[s]
  <2>1. Missing(p) \cap gone = {}
    BY <1>4, <1>5
  <2> HIDE DEF gone
  <2> QED
    BY <1>3, <2>1
<1>12. \A q \in ProgramNames, k \in Kinds :
          own'[q][k] = IF q = p /\ k \in reading THEN new[attached[p][k]]
                       ELSE IF q = p /\ k \in Kinds \ reading THEN None ELSE own[q][k]
  BY <1>3 DEF Inv, Device, OwnersType
<1>13. \A k \in reading : attached[p][k] \in shaders \ Missing(p)
  BY <1>4 DEF Reading, Missing
<1>14. OwnersType'
  <2>1. module' \in [Shaders -> Handles \cup {None}]
    <3>1. \A s \in Shaders : module'[s] \in Handles \cup {None}
      BY <1>10, <1>11 DEF Inv, Device, OwnersType
    <3> QED
      BY <1>3, <3>1
  <2>2. [k \in Kinds |-> IF Reads(attached[p][k]) THEN new[attached[p][k]] ELSE None]
           \in [Kinds -> Handles \cup {None}]
    BY <1>10, <1>13
  <2> QED
    BY <1>3, <2>1, <2>2 DEF Inv, Device, OwnersType
<1>15. Renewed(p, shaders, Missing(p), gone, reading, Kinds \ reading, attached[p], old, new, 0, cleared)
  <2>1. /\ shaders \subseteq compiled /\ gone \subseteq Shaders
        /\ \A s \in Missing(p) : module[s] = None
    BY <1>4, <1>5 DEF Inv, Objects, ObjectsType, Missing
  <2>2. \A h : h \in old <=> (\E s \in gone : module[s] = h)
                         \/ (p \in ProgramNames /\ \E k \in reading \cup (Kinds \ reading) : own[p][k] = h)
    BY <1>9
  <2>3. \E T \in SUBSET Handles : T \subseteq Free \cup old /\ new \in Injection(shaders, T)
    BY <1>9
  <2>4. cache' = IF cleared THEN {} ELSE cache
    BY <1>3 DEF Invalidate
  <2>5. ~cleared => old \subseteq {None}
    OBVIOUS
  <2>6. \A s \in shaders \ Missing(p) : \E k \in reading : attached[p][k] = s
    BY <1>4 DEF Reading
  <2>7. \A k, j \in reading : attached[p][k] = attached[p][j] => k = j
    BY <1>4
  <2>8. code' = Changed(old, Made(new, 0))
    BY <1>3
  <2> HIDE DEF old, gone, cleared
  <2>9. Missing(p) \subseteq shaders /\ reading \subseteq Kinds /\ Kinds \ reading \subseteq Kinds
    OBVIOUS
  <2> HIDE DEF shaders, reading
  <2> QED
    BY <1>11, <1>12, <1>13, <2>1, <2>2, <2>3, <2>4, <2>5, <2>6, <2>7, <2>8, <2>9 DEF Renewed, Values
<1>16. Device'
  BY <1>14, <1>15, Renew DEF Inv, Objects
<1>17. Dormant'
  BY <1>1, <1>3 DEF Inv, Dormant, Objects, ObjectsType
<1> QED
  BY <1>8, <1>16, <1>17 DEF Inv

LEMMA SetUniformKeepsInv ==
    ASSUME Inv, NEW value \in Values, SetUniform(value)
    PROVE  Inv'
<1> DEFINE p == current
           K == Rebuilt(p)
           shaders == {linked[p][k] : k \in K}
           old == {own[p][k] : k \in K}
<1>1. PICK new \in Injection(shaders, Free) :
         /\ own' = [own EXCEPT ![p] = [k \in Kinds |->
                IF k \in K THEN new[linked[p][k]] ELSE own[p][k]]]
         /\ code' = Changed(old, Made(new, value))
         /\ cache' = {}
  BY DEF SetUniform, Rebuilding, Invalidate, Inv, Objects, ObjectsType, Device, OwnersType
<1>2. /\ p \in status /\ p \in ProgramNames /\ K \subseteq Kinds
      /\ \A k \in K : linked[p][k] \in compiled
  BY DEF SetUniform, Rebuilding, Inv, Objects, ObjectsType, Rebuilt, Reads
<1>3. \A k, j \in K : linked[p][k] = linked[p][j] => k = j
  <2>1. \A k \in K : linked[p][k] # None
    BY <1>2, NamesAssumption DEF Inv, Objects, ObjectsType
  <2> QED
    BY <1>2, <2>1 DEF Inv, Objects, KindsMatch
<1>4. Objects'
  <2>1. /\ UNCHANGED <<alive, pending, source, compiled, lowered, exists, deleted, attached, linked,
                       status, current>>
        /\ uniform' = [uniform EXCEPT ![current] = value]
    BY DEF SetUniform, shaderVars
  <2>2. ObjectsType'
    BY <2>1 DEF Inv, Objects, ObjectsType
  <2> QED
    BY <2>1, <2>2 DEF Inv, Objects, ReferencesLive, DeletedHeld, KindsMatch, Sourced, InUse
<1>5. Dormant'
  BY <1>1, <1>2 DEF SetUniform, Inv, Dormant, Objects, ObjectsType
<1> HIDE DEF K
<1>6. /\ module' = module
      /\ \A q \in ProgramNames, k \in Kinds :
            own'[q][k] = IF q = p /\ k \in K THEN new[linked[p][k]]
                         ELSE IF q = p /\ k \in {} THEN None ELSE own[q][k]
  BY <1>1, <1>2 DEF SetUniform, shaderVars, Inv, Device, OwnersType
<1>7. OwnersType'
  <2>1. \A k \in K : new[linked[p][k]] \in Handles
    BY DEF Injection, Free
  <2>2. \A k \in Kinds : own[p][k] \in Handles \cup {None}
    BY <1>2 DEF Inv, Device, OwnersType
  <2>3. [k \in Kinds |-> IF k \in K THEN new[linked[p][k]] ELSE own[p][k]]
           \in [Kinds -> Handles \cup {None}]
    BY <2>1, <2>2
  <2> QED
    BY <1>1, <1>6, <2>3 DEF Inv, Device, OwnersType
<1>8. Renewed(p, shaders, {}, {}, K, {}, linked[p], old, new, value, TRUE)
  <2>1. shaders \subseteq compiled /\ \A k \in K : linked[p][k] \in shaders
    BY <1>2
  <2>2. \A h : h \in old <=> (\E s \in {} : module[s] = h)
                         \/ (p \in ProgramNames /\ \E k \in K \cup {} : own[p][k] = h)
    BY <1>2
  <2>3. \E T \in SUBSET Handles : T \subseteq Free \cup old /\ new \in Injection(shaders, T)
    <3>1. Free \in SUBSET Handles
      BY DEF Free
    <3> QED
      BY <3>1
  <2>4. \A s \in shaders \ {} : \E k \in K : linked[p][k] = s
    OBVIOUS
  <2>5. code' = Changed(old, Made(new, value)) /\ cache' = IF TRUE THEN {} ELSE cache
    BY <1>1
  <2> HIDE DEF old, shaders
  <2> QED
    BY <1>2, <1>3, <1>6, <2>1, <2>2, <2>3, <2>4, <2>5 DEF Renewed
<1>9. Device'
  BY <1>7, <1>8, Renew DEF Inv, Objects
<1> QED
  BY <1>4, <1>5, <1>9 DEF Inv

-----------------------------------------------------------------------------
(* Drawing.                                                                 *)

(* What a draw caches is the code its modules hold now.                     *)
LEMMA DrawKeepsInv ==
    ASSUME Inv, Draw
    PROVE  Inv'
<1> DEFINE modules == Executes(current)
           entry == [modules |-> modules, code |-> [k \in Kinds |-> code[modules[k]]]]
<1>1. /\ UNCHANGED <<shaderVars, programVars, code>>
      /\ cache' \subseteq cache \cup {entry}
  BY DEF Draw
<1>2. current \in ProgramNames /\ \A k \in Kinds : linked[current][k] \in Shaders
  BY DEF Draw, DrawReady, Inv, Objects, ObjectsType
<1>3. \A k \in Kinds : modules[k] \in Handles /\ code[modules[k]] \in Code
  <2> SUFFICES ASSUME NEW k \in Kinds PROVE modules[k] \in Handles /\ code[modules[k]] \in Code
    OBVIOUS
  <2>1. modules[k] # None
    BY DEF Draw, DrawReady
  <2>2. CASE own[current][k] # None
    BY <1>2, <2>1, <2>2 DEF Executes, Inv, Device, OwnersType, DeviceType, Owned, ProgramModules
  <2>3. CASE own[current][k] = None
    BY <1>2, <2>1, <2>3 DEF Executes, Inv, Device, OwnersType, DeviceType, Owned, ShaderModules
  <2> QED
    BY <2>2, <2>3
<1>4. entry \in [modules : [Kinds -> Handles], code : [Kinds -> Code]]
  BY <1>3 DEF Executes
<1>5. \A k \in Kinds : code[entry.modules[k]] = entry.code[k]
  OBVIOUS
<1> HIDE DEF entry
<1>6. Device'
  <2>1. UNCHANGED <<module, own, code>>
    BY <1>1 DEF shaderVars, programVars
  <2>2. OwnersType' /\ Owned'
    BY <2>1 DEF Inv, Device, OwnersType, Owned, ShaderModules, ProgramModules, Apart, NoLeaks
  <2>3. DeviceType' /\ CacheMatchesModules'
    BY <1>1, <1>4, <1>5, <2>1 DEF Inv, Device, DeviceType, CacheMatchesModules
  <2> QED
    BY <2>2, <2>3 DEF Device
<1>7. Objects' /\ Dormant'
  BY <1>1 DEF shaderVars, programVars, Inv, Objects, ObjectsType, ReferencesLive, DeletedHeld,
     KindsMatch, Sourced, InUse, Dormant
<1> QED
  BY <1>6, <1>7 DEF Inv

\* What a failing update made stood on free handles, and is gone again.
LEMMA SetUniformFailsKeepsInv ==
    ASSUME Inv, NEW value \in Values, SetUniformFails(value)
    PROVE  Inv'
<1>0. PICK begun \in SUBSET Rebuilt(current) :
         \E new \in Injection({linked[current][k] : k \in begun}, Free) : code' = DestroyedMade(new, value)
  BY DEF SetUniformFails
<1>1. PICK new \in Injection({linked[current][k] : k \in begun}, Free) : code' = DestroyedMade(new, value)
  BY <1>0
<1>2. Range(new) \subseteq Free
  BY DEF Injection, Range
<1>3. \A h \in Handles : code'[h] = code[h]
  BY <1>1, <1>2 DEF DestroyedMade, Free
<1>4. UNCHANGED <<module, own, code, cache>>
  <2>1. code \in [Handles -> Code \cup {None}]
    BY DEF Inv, Device, DeviceType
  <2>2. code' = [h \in Handles |-> code[h]]
    BY <1>1, <1>3 DEF DestroyedMade
  <2>3. code' = code
    BY <2>1, <2>2
  <2> QED
    BY <2>3 DEF SetUniformFails, shaderVars, programVars
<1>5. Device' /\ Dormant'
  <2>1. UNCHANGED <<exists, attached, linked>>
    BY DEF SetUniformFails, programVars
  <2> QED
    BY <1>4, <2>1, DeviceSame DEF Inv, Dormant
<1>6. UNCHANGED <<alive, pending, source, compiled, lowered, exists, deleted, attached, linked, status,
                  uniform, current>>
  BY DEF SetUniformFails, shaderVars, programVars
<1>7. Objects'
  BY <1>6 DEF Inv, Objects, ObjectsType, ReferencesLive, DeletedHeld, KindsMatch, Sourced, InUse
<1> QED
  BY <1>5, <1>7 DEF Inv

-----------------------------------------------------------------------------
(* The theorems.                                                            *)

LEMMA NextKeepsInv == Inv /\ [Next]_vars => Inv'
<1> SUFFICES ASSUME Inv, [Next]_vars PROVE Inv'
  OBVIOUS
<1>1. ASSUME NEW s \in Shaders,
             \/ CreateShader(s) \/ DeleteShader(s) \/ ShaderSource(s) \/ CompileShader(s)
             \/ LowerShader(s) \/ RealizeShaderModule(s)
      PROVE  Inv'
  BY <1>1, CreateShaderKeepsInv, DeleteShaderKeepsInv, ShaderSourceKeepsInv, CompileShaderKeepsInv,
     LowerShaderKeepsInv, RealizeShaderModuleKeepsInv
<1>2. ASSUME NEW s \in Shaders, NEW p \in ProgramNames, AttachShader(p, s) \/ DetachShader(p, s)
      PROVE  Inv'
  BY <1>2, AttachShaderKeepsInv, DetachShaderKeepsInv
<1>3. ASSUME NEW p \in ProgramNames,
             \/ CreateProgram(p) \/ DeleteProgram(p)
             \/ LinkFails(p) \/ LinkStops(p) \/ LinkDone(p)
      PROVE  Inv'
  BY <1>3, CreateProgramKeepsInv, DeleteProgramKeepsInv, LinkFailsKeepsInv, LinkStopsKeepsInv,
     LinkDoneKeepsInv
<1>4. ASSUME NEW p \in ProgramNames \cup {None}, UseProgram(p)
      PROVE  Inv'
  BY <1>4, UseProgramKeepsInv
<1>5. ASSUME NEW value \in Values, SetUniform(value) \/ SetUniformFails(value)
      PROVE  Inv'
  BY <1>5, SetUniformKeepsInv, SetUniformFailsKeepsInv
<1>6. CASE Draw
  BY <1>6, DrawKeepsInv
<1>7. CASE UNCHANGED vars
  <2>1. Device' /\ Dormant'
    BY <1>7, DeviceSame DEF Inv, Dormant, vars
  <2>2. Objects'
    BY <1>7 DEF Inv, Objects, ObjectsType, ReferencesLive, DeletedHeld, KindsMatch, Sourced, InUse, vars
  <2> QED
    BY <2>1, <2>2 DEF Inv
<1> QED
  BY <1>1, <1>2, <1>3, <1>4, <1>5, <1>6, <1>7 DEF Next

(* The inductive invariant holds in every reachable state.                  *)
THEOREM InvariantHolds == Spec => []Inv
  BY InitInv, NextKeepsInv, PTL DEF Spec

(* Whatever order shaders and programs are deleted, detached, linked again  *)
(* and used in, each lives until the last reference to it is dropped and no *)
(* longer (ringl_shader_release_if_delete_pending, program.c).              *)
THEOREM ShadersKeptHolds == Spec => []ShadersKept
<1>1. Inv => ShadersKept
  BY InvParts DEF ShadersKept
<1> QED
  BY InvariantHolds, <1>1, PTL

(* A handle that stands for no module has no holder, any other has one.     *)
LEMMA OneHolder ==
    ASSUME Owned, NEW h \in Handles
    PROVE  IF code[h] = None THEN Holders(h) = {} ELSE \E x : Holders(h) = {x}
<1>1. h # None
  BY NamesAssumption
<1>2. CASE code[h] = None
  BY <1>1, <1>2 DEF Holders, Owned, ShaderModules, ProgramModules
<1>3. ASSUME code[h] # None, NEW s \in Shaders, module[s] = h
      PROVE  Holders(h) = {s}
  BY <1>1, <1>3 DEF Holders, Owned, ShaderModules, Apart
<1>4. ASSUME code[h] # None, NEW p \in ProgramNames, NEW k \in Kinds, own[p][k] = h
      PROVE  Holders(h) = {<<p, k>>}
  <2>1. {s \in Shaders : module[s] = h} = {}
    BY <1>1, <1>4 DEF Owned, Apart
  <2>2. <<p, k>> \in {stage \in ProgramNames \X Kinds : own[stage[1]][stage[2]] = h}
    BY <1>4
  <2>3. ASSUME NEW stage \in ProgramNames \X Kinds, own[stage[1]][stage[2]] = h
        PROVE  stage = <<p, k>>
    <3>1. stage = <<stage[1], stage[2]>> /\ stage[1] \in ProgramNames /\ stage[2] \in Kinds
      OBVIOUS
    <3>2. stage[1] = p /\ stage[2] = k
      BY <1>1, <1>4, <2>3, <3>1 DEF Owned, ProgramModules
    <3> QED
      BY <3>1, <3>2
  <2> QED
    BY <2>1, <2>2, <2>3 DEF Holders
<1> QED
  BY <1>2, <1>3, <1>4 DEF Owned, NoLeaks

(* Every module of the device has one owner: no link, uniform update or     *)
(* deletion leaks a module or destroys one that is still held.              *)
THEOREM ModulesOwnedHolds == Spec => []ModulesOwned
<1>1. Inv => ModulesOwned
  <2> SUFFICES ASSUME Inv, NEW h \in Handles
               PROVE  Cardinality(Holders(h)) = IF code[h] = None THEN 0 ELSE 1
    BY DEF ModulesOwned
  <2>1. IF code[h] = None THEN Holders(h) = {} ELSE \E x : Holders(h) = {x}
    BY OneHolder DEF Inv, Device
  <2> QED
    BY <2>1, FS_EmptySet, FS_Singleton
<1> QED
  BY InvariantHolds, <1>1, PTL

(* A draw never runs a pipeline that was built from other modules which had *)
(* the same handles (ringl_invalidate_graphics_artifacts).                  *)
THEOREM CacheMatchesModulesHolds == Spec => []CacheMatchesModules
<1>1. Inv => CacheMatchesModules
  BY InvParts
<1> QED
  BY InvariantHolds, <1>1, PTL

-----------------------------------------------------------------------------
(* Interfaces.                                                              *)

(* What the tables of a program are.                                        *)
Entry == [name : STRING \X Int, target : STRING, value : Int]
Tables == [Classes -> Seq(Entry)]
Collection == [ok : BOOLEAN, tables : Tables]

(* A name is in one place of one table only.                                *)
NamesApart(tables) ==
    \A c, e \in Classes : \A p \in DOMAIN tables[c], q \in DOMAIN tables[e] :
        tables[c][p].name = tables[e][q].name => c = e /\ p = q

(* Every entry is an element of what the shaders declare.                   *)
AllDeclared(tables, declared) ==
    \A c \in Classes : \A p \in DOMAIN tables[c] :
        \E d \in declared : \E k \in 1..d.size : d.class = c /\ tables[c][p] = Elements(d)[k]

WithinLimits(tables) == \A c \in Classes : Len(tables[c]) <= Limit(c)

(* Tables grow at their ends.                                               *)
Extends(tables, longer) ==
    \A c \in Classes : \A p \in DOMAIN tables[c] :
        p \in DOMAIN longer[c] /\ longer[c][p] = tables[c][p]

(* The elements of d, one after the other.                                  *)
WholeFrom(tables, d, p) ==
    \A k \in 1..d.size : p + k \in DOMAIN tables[d.class] /\ tables[d.class][p + k] = Elements(d)[k]
AbsentFrom(tables, d) ==
    \A c \in Classes : \A p \in DOMAIN tables[c], k \in 1..d.size :
        tables[c][p].name # Elements(d)[k].name
Holds(tables, d) == \A k \in 1..d.size : Elements(d)[k].name \in Names(tables[d.class])

(* No declaration but d is of the name of d.                                *)
Sole(d, declared) == \A e \in declared : e.base = d.base => e = d

Sound(tables, declared) ==
    /\ NamesApart(tables) /\ WithinLimits(tables) /\ AllDeclared(tables, declared)

-----------------------------------------------------------------------------
(* Elements and names.                                                      *)

IndexOf(d, k) == IF d.size = 1 THEN Scalar ELSE k - 1

(* A declaration is as many entries as it has elements, each of a name of   *)
(* its own.                                                                 *)
LEMMA ElementsFacts ==
  ASSUME NEW d \in UniformDeclaration
  PROVE  /\ Elements(d) \in Seq(Entry) /\ DOMAIN Elements(d) = 1..d.size
         /\ d.size \in Nat \ {0} /\ d.class \in Classes
         /\ \A k \in 1..d.size :
               /\ Elements(d)[k].name = <<d.base, IndexOf(d, k)>>
               /\ Elements(d)[k].target = d.target /\ Elements(d)[k].value = 0
               /\ Elements(d)[k] \in Entry /\ IndexOf(d, k) \in Int
         /\ \A j, k \in 1..d.size : Elements(d)[j].name = Elements(d)[k].name => j = k
<1>1. /\ d.size \in Nat \ {0} /\ d.base \in STRING /\ d.target \in STRING /\ d.class \in Classes
  BY DEF UniformDeclaration
<1>2. DOMAIN Elements(d) = 1..d.size BY DEF Elements
<1>3. ASSUME NEW k \in 1..d.size
      PROVE  /\ Elements(d)[k].name = <<d.base, IndexOf(d, k)>>
             /\ Elements(d)[k].target = d.target /\ Elements(d)[k].value = 0
             /\ Elements(d)[k] \in Entry /\ IndexOf(d, k) \in Int
  <2>1. Elements(d)[k] = [name |-> <<d.base, IndexOf(d, k)>>, target |-> d.target, value |-> 0]
    BY DEF Elements, IndexOf
  <2>2. IndexOf(d, k) \in Int BY <1>1 DEF Scalar, IndexOf
  <2>3. <<d.base, IndexOf(d, k)>> \in STRING \X Int BY <1>1, <2>2
  <2>4. Elements(d)[k] \in Entry BY <1>1, <2>1, <2>3 DEF Entry
  <2> QED BY <2>1, <2>2, <2>4
<1>4. Elements(d) \in Seq(Entry)
  <2>1. Elements(d) = [k \in 1..d.size |-> Elements(d)[k]] BY DEF Elements
  <2>2. [k \in 1..d.size |-> Elements(d)[k]] \in [1..d.size -> Entry] BY <1>3
  <2>3. Elements(d) \in [1..d.size -> Entry] BY <2>1, <2>2
  <2> QED BY <1>1, <2>3
<1>5. ASSUME NEW j \in 1..d.size, NEW k \in 1..d.size,
             Elements(d)[j].name = Elements(d)[k].name
      PROVE  j = k
  <2>1. IndexOf(d, j) = IndexOf(d, k) BY <1>3, <1>5
  <2>2. CASE d.size = 1 BY <2>2
  <2>3. CASE d.size # 1 BY <2>1, <2>3 DEF IndexOf
  <2> QED BY <2>2, <2>3
<1> QED BY <1>1, <1>2, <1>3, <1>4, <1>5

(* Elements of declarations of different names have different names.        *)
LEMMA ElementNames ==
  ASSUME NEW d \in UniformDeclaration, NEW e \in UniformDeclaration,
         NEW j \in 1..d.size, NEW k \in 1..e.size,
         Elements(d)[j].name = Elements(e)[k].name
  PROVE  d.base = e.base
<1>1. Elements(d)[j].name = <<d.base, IndexOf(d, j)>> BY ElementsFacts
<1>2. Elements(e)[k].name = <<e.base, IndexOf(e, k)>> BY ElementsFacts
<1>3. <<d.base, IndexOf(d, j)>> = <<e.base, IndexOf(e, k)>> BY <1>1, <1>2
<1> QED BY <1>3

(* A name is in a table when an entry has it.                               *)
LEMMA NamesOf ==
  ASSUME NEW table, NEW n
  PROVE  n \in Names(table) <=> \E p \in DOMAIN table : table[p].name = n
BY DEF Names

-----------------------------------------------------------------------------
(* One entry is added.                                                      *)

Appended(tables, class, e) == [tables EXCEPT ![class] = Append(tables[class], e)]

(* An entry that is there changes nothing; another one goes to the end of   *)
(* its table, if no table has its name.                                     *)
LEMMA AddingCases ==
  ASSUME NEW x \in Collection, NEW class \in Classes, NEW e \in Entry
  PROVE  /\ Adding(x, class, e) \in Collection
         /\ Adding(x, class, e).ok =>
               /\ x.ok
               /\ \/ e.name \in Names(x.tables[class]) /\ Adding(x, class, e) = x
                  \/ /\ \A c \in Classes : e.name \notin Names(x.tables[c])
                     /\ Len(x.tables[class]) < Limit(class)
                     /\ Adding(x, class, e).tables = Appended(x.tables, class, e)
         /\ x.ok /\ Accepts(x.tables, class, e) => Adding(x, class, e).ok
<1> DEFINE y == Adding(x, class, e)
<1>1. x.ok \in BOOLEAN /\ x.tables \in Tables /\ DOMAIN x = {"ok", "tables"} BY DEF Collection
<1>2. x.tables[class] \in Seq(Entry) /\ DOMAIN x.tables = Classes BY <1>1 DEF Tables
<1> DEFINE refused == [x EXCEPT !.ok = FALSE]
<1> DEFINE longer == [x EXCEPT !.tables[class] = Append(@, e)]
<1>3. CASE ~ x.ok \/ ~ Accepts(x.tables, class, e)
  <2>1. y = refused BY <1>3 DEF Adding
  <2>2. refused \in Collection /\ ~ refused.ok BY <1>1 DEF Collection
  <2> HIDE DEF y, refused
  <2>3. y \in Collection /\ ~ y.ok BY <2>1, <2>2
  <2> QED BY <1>3, <2>3 DEF y
<1>4. CASE x.ok /\ Accepts(x.tables, class, e) /\ e.name \in Names(x.tables[class])
  <2>1. y = x BY <1>4 DEF Adding
  <2> HIDE DEF y
  <2> QED BY <1>1, <1>4, <2>1 DEF y
<1>5. CASE x.ok /\ Accepts(x.tables, class, e) /\ e.name \notin Names(x.tables[class])
  <2>1. y = longer BY <1>5 DEF Adding
  <2>2. Append(x.tables[class], e) \in Seq(Entry) BY <1>2
  <2>3. /\ longer.ok = x.ok
        /\ longer.tables = [x.tables EXCEPT ![class] = Append(x.tables[class], e)]
        /\ longer = [x EXCEPT !.tables = [x.tables EXCEPT ![class] = Append(x.tables[class], e)]]
    BY <1>1
  <2>4. [x.tables EXCEPT ![class] = Append(x.tables[class], e)] \in Tables
    BY <1>1, <1>2, <2>2 DEF Tables
  <2>5. longer \in Collection BY <1>1, <2>3, <2>4 DEF Collection
  <2>6. \A c \in Classes : e.name \notin Names(x.tables[c]) BY <1>5 DEF Accepts
  <2>7. Len(x.tables[class]) < Limit(class) BY <1>5 DEF Accepts
  <2> HIDE DEF y, longer
  <2>8. y.ok /\ y \in Collection
        /\ y.tables = Appended(x.tables, class, e)
    BY <1>5, <2>1, <2>3, <2>5 DEF Appended
  <2> QED BY <1>5, <2>6, <2>7, <2>8 DEF y
<1> QED BY <1>3, <1>4, <1>5

(* What an appended entry leaves as it was.                                 *)
LEMMA AppendFacts ==
  ASSUME NEW x \in Collection, NEW class \in Classes, NEW e \in Entry
  PROVE  /\ \A c \in Classes : x.tables[c] \in Seq(Entry) /\ DOMAIN x.tables[c] = 1..Len(x.tables[c])
                               /\ Len(x.tables[c]) \in Nat
         /\ \A c \in Classes \ {class} : Appended(x.tables, class, e)[c] = x.tables[c]
         /\ Len(Appended(x.tables, class, e)[class]) = Len(x.tables[class]) + 1
         /\ DOMAIN Appended(x.tables, class, e)[class] = 1..(Len(x.tables[class]) + 1)
         /\ \A p \in DOMAIN x.tables[class] : Appended(x.tables, class, e)[class][p] = x.tables[class][p]
         /\ Appended(x.tables, class, e)[class][Len(x.tables[class]) + 1] = e
<1>1. x.tables \in [Classes -> Seq(Entry)] BY DEF Collection, Tables
<1>2. \A c \in Classes : x.tables[c] \in Seq(Entry) /\ DOMAIN x.tables[c] = 1..Len(x.tables[c])
                         /\ Len(x.tables[c]) \in Nat
  BY <1>1
<1>3. Appended(x.tables, class, e)[class] = Append(x.tables[class], e) BY <1>1 DEF Appended
<1>4. \A c \in Classes \ {class} : Appended(x.tables, class, e)[c] = x.tables[c] BY <1>1 DEF Appended
<1>5. x.tables[class] \in Seq(Entry) BY <1>2
<1>6. /\ Len(Appended(x.tables, class, e)[class]) = Len(x.tables[class]) + 1
      /\ DOMAIN Appended(x.tables, class, e)[class] = 1..(Len(x.tables[class]) + 1)
      /\ \A p \in DOMAIN x.tables[class] : Appended(x.tables, class, e)[class][p] = x.tables[class][p]
      /\ Appended(x.tables, class, e)[class][Len(x.tables[class]) + 1] = e
  BY <1>3, <1>5
<1> QED BY <1>2, <1>4, <1>6

(* An element of a declaration is added: names stay apart, the table stays  *)
(* within its limit and keeps what it has.                                  *)
WithElement(t, u, declared, d, k) ==
    /\ Sound(u, declared) /\ Extends(t, u)
    /\ Elements(d)[k].name \in Names(u[d.class])
    /\ \A c \in Classes : \A p \in DOMAIN u[c] :
          p \in DOMAIN t[c] \/ (c = d.class /\ u[c][p] = Elements(d)[k])

LEMMA AddingSound ==
  ASSUME NEW x \in Collection, NEW declared \in SUBSET UniformDeclaration,
         NEW d \in declared, NEW k \in 1..d.size, NEW y,
         y = Adding(x, d.class, Elements(d)[k]), y.ok, Sound(x.tables, declared)
  PROVE  WithElement(x.tables, y.tables, declared, d, k)
<1> USE DEF WithElement
<1> DEFINE e == Elements(d)[k]
<1> DEFINE class == d.class
<1>1. d \in UniformDeclaration OBVIOUS
<1>2. e \in Entry /\ class \in Classes BY <1>1, ElementsFacts
<1>3. y = Adding(x, class, e) OBVIOUS
<1> HIDE DEF e, class
<1>4. CASE e.name \in Names(x.tables[class]) /\ y = x
  <2>1. Extends(x.tables, y.tables) BY <1>4 DEF Extends
  <2> QED BY <1>4, <2>1 DEF e, class
<1>5. CASE /\ \A c \in Classes : e.name \notin Names(x.tables[c])
           /\ Len(x.tables[class]) < Limit(class)
           /\ y.tables = Appended(x.tables, class, e)
  <2> DEFINE n == Len(x.tables[class])
  <2>0. y.tables = Appended(x.tables, class, e) BY <1>5
  <2> HIDE DEF n
  <2>1. /\ \A c \in Classes : x.tables[c] \in Seq(Entry) /\ DOMAIN x.tables[c] = 1..Len(x.tables[c])
                               /\ Len(x.tables[c]) \in Nat
        /\ \A c \in Classes \ {class} : y.tables[c] = x.tables[c]
        /\ Len(y.tables[class]) = n + 1
        /\ DOMAIN y.tables[class] = 1..(n + 1)
        /\ \A p \in DOMAIN x.tables[class] : y.tables[class][p] = x.tables[class][p]
        /\ y.tables[class][n + 1] = e
    BY <1>2, <2>0, AppendFacts DEF n
  <2>2. n \in Nat /\ DOMAIN x.tables[class] = 1..n BY <1>2, <2>1 DEF n
  <2>3. Extends(x.tables, y.tables)
    <3> SUFFICES ASSUME NEW c \in Classes, NEW p \in DOMAIN x.tables[c]
                 PROVE  p \in DOMAIN y.tables[c] /\ y.tables[c][p] = x.tables[c][p]
      BY DEF Extends
    <3>1. CASE c = class BY <2>1, <2>2, <3>1
    <3>2. CASE c # class BY <2>1, <3>2
    <3> QED BY <3>1, <3>2
  <2>4. ASSUME NEW c \in Classes, NEW p \in DOMAIN y.tables[c]
        PROVE  \/ p \in DOMAIN x.tables[c] /\ y.tables[c][p] = x.tables[c][p]
               \/ c = class /\ p = n + 1 /\ y.tables[c][p] = e
    <3>1. CASE c = class
      <4>1. p \in 1..(n + 1) BY <2>1, <3>1
      <4>2. CASE p = n + 1 BY <2>1, <3>1, <4>2
      <4>3. CASE p \in 1..n BY <2>1, <2>2, <3>1, <4>3
      <4> QED BY <2>2, <4>1, <4>2, <4>3
    <3>2. CASE c # class BY <2>1, <3>2
    <3> QED BY <3>1, <3>2
  <2>5. \A c \in Classes : \A p \in DOMAIN x.tables[c] : x.tables[c][p].name # e.name
    BY <1>5, NamesOf
  <2>6. NamesApart(y.tables)
    <3> SUFFICES ASSUME NEW c \in Classes, NEW f \in Classes,
                        NEW p \in DOMAIN y.tables[c], NEW q \in DOMAIN y.tables[f],
                        y.tables[c][p].name = y.tables[f][q].name
                 PROVE  c = f /\ p = q
      BY DEF NamesApart
    <3>1. CASE /\ p \in DOMAIN x.tables[c] /\ y.tables[c][p] = x.tables[c][p]
               /\ q \in DOMAIN x.tables[f] /\ y.tables[f][q] = x.tables[f][q]
      BY <3>1 DEF Sound, NamesApart
    <3>2. CASE /\ p \in DOMAIN x.tables[c] /\ y.tables[c][p] = x.tables[c][p]
               /\ f = class /\ q = n + 1 /\ y.tables[f][q] = e
      BY <2>5, <3>2
    <3>3. CASE /\ c = class /\ p = n + 1 /\ y.tables[c][p] = e
               /\ q \in DOMAIN x.tables[f] /\ y.tables[f][q] = x.tables[f][q]
      BY <2>5, <3>3
    <3>4. CASE c = class /\ p = n + 1 /\ f = class /\ q = n + 1 BY <3>4
    <3> QED BY <2>4, <3>1, <3>2, <3>3, <3>4
  <2>7. WithinLimits(y.tables)
    <3> SUFFICES ASSUME NEW c \in Classes PROVE Len(y.tables[c]) <= Limit(c) BY DEF WithinLimits
    <3>1. CASE c = class
      <4>1. Limit(class) \in Int BY InterfacesAssumption DEF Limit
      <4>2. n < Limit(class) BY <1>5 DEF n
      <4> QED BY <2>1, <2>2, <3>1, <4>1, <4>2
    <3>2. CASE c # class
      <4>1. y.tables[c] = x.tables[c] BY <2>1, <3>2
      <4> QED BY <4>1 DEF Sound, WithinLimits
    <3> QED BY <3>1, <3>2
  <2>8. AllDeclared(y.tables, declared)
    <3> SUFFICES ASSUME NEW c \in Classes, NEW p \in DOMAIN y.tables[c]
                 PROVE  \E g \in declared : \E j \in 1..g.size :
                            g.class = c /\ y.tables[c][p] = Elements(g)[j]
      BY DEF AllDeclared
    <3>1. CASE p \in DOMAIN x.tables[c] /\ y.tables[c][p] = x.tables[c][p]
      BY <3>1 DEF Sound, AllDeclared
    <3>2. CASE c = class /\ y.tables[c][p] = e BY <3>2 DEF class, e
    <3> QED BY <2>4, <3>1, <3>2
  <2>9. e.name \in Names(y.tables[class])
    <3>1. n + 1 \in DOMAIN y.tables[class] BY <2>1, <2>2
    <3> QED BY <2>1, <3>1, NamesOf
  <2> QED BY <2>3, <2>4, <2>6, <2>7, <2>8, <2>9 DEF Sound, class, e
<1>6. /\ x.ok
      /\ \/ e.name \in Names(x.tables[class]) /\ y = x
         \/ /\ \A c \in Classes : e.name \notin Names(x.tables[c])
            /\ Len(x.tables[class]) < Limit(class)
            /\ y.tables = Appended(x.tables, class, e)
  <2> DEFINE z == Adding(x, class, e)
  <2>1. z.ok =>
           /\ x.ok
           /\ \/ e.name \in Names(x.tables[class]) /\ z = x
              \/ /\ \A c \in Classes : e.name \notin Names(x.tables[c])
                 /\ Len(x.tables[class]) < Limit(class)
                 /\ z.tables = Appended(x.tables, class, e)
    BY <1>2, AddingCases
  <2>2. z = y BY <1>3
  <2> HIDE DEF z
  <2> QED BY <2>1, <2>2
<1> QED BY <1>4, <1>5, <1>6

(* An element that no entry of its table is named like is appended; one     *)
(* that is there changes nothing.                                           *)
LEMMA AddingPlaces ==
  ASSUME NEW x \in Collection, NEW class \in Classes, NEW e \in Entry,
         Adding(x, class, e).ok
  PROVE  /\ e.name \in Names(x.tables[class]) => Adding(x, class, e) = x
         /\ e.name \notin Names(x.tables[class]) =>
               /\ Len(Adding(x, class, e).tables[class]) = Len(x.tables[class]) + 1
               /\ Adding(x, class, e).tables[class][Len(x.tables[class]) + 1] = e
               /\ Extends(x.tables, Adding(x, class, e).tables)
<1> DEFINE y == Adding(x, class, e)
<1>1. \/ e.name \in Names(x.tables[class]) /\ y = x
      \/ /\ e.name \notin Names(x.tables[class])
         /\ y.tables = Appended(x.tables, class, e)
  BY AddingCases
<1>2. /\ \A c \in Classes \ {class} : Appended(x.tables, class, e)[c] = x.tables[c]
      /\ Len(Appended(x.tables, class, e)[class]) = Len(x.tables[class]) + 1
      /\ DOMAIN Appended(x.tables, class, e)[class] = 1..(Len(x.tables[class]) + 1)
      /\ \A p \in DOMAIN x.tables[class] : Appended(x.tables, class, e)[class][p] = x.tables[class][p]
      /\ Appended(x.tables, class, e)[class][Len(x.tables[class]) + 1] = e
      /\ DOMAIN x.tables[class] = 1..Len(x.tables[class]) /\ Len(x.tables[class]) \in Nat
  BY AppendFacts
<1> HIDE DEF y
<1>3. ASSUME e.name \notin Names(x.tables[class])
      PROVE  /\ Len(y.tables[class]) = Len(x.tables[class]) + 1
             /\ y.tables[class][Len(x.tables[class]) + 1] = e
             /\ Extends(x.tables, y.tables)
  <2>1. y.tables = Appended(x.tables, class, e) BY <1>1, <1>3
  <2>2. Extends(x.tables, y.tables)
    <3> SUFFICES ASSUME NEW c \in Classes, NEW p \in DOMAIN x.tables[c]
                 PROVE  p \in DOMAIN y.tables[c] /\ y.tables[c][p] = x.tables[c][p]
      BY DEF Extends
    <3>1. CASE c = class BY <1>2, <2>1, <3>1
    <3>2. CASE c # class BY <1>2, <2>1, <3>2
    <3> QED BY <3>1, <3>2
  <2> QED BY <1>2, <2>1, <2>2
<1>4. e.name \in Names(x.tables[class]) => y = x BY <1>1
<1> QED BY <1>3, <1>4 DEF y

-----------------------------------------------------------------------------
(* Tables with room.                                                        *)

(* The values of a function on a finite set are finitely many.              *)
LEMMA FiniteRange ==
  ASSUME NEW S, IsFiniteSet(S), NEW f, DOMAIN f = S, NEW T, T = {f[x] : x \in S}
  PROVE  IsFiniteSet(T)
<1>1. [x \in S |-> f[x]] \in Surjection(S, T) BY DEF Surjection
<1> QED BY <1>1, FS_Surjection

(* A table with every name once has as many names as entries.               *)
LEMMA NamesCounted ==
  ASSUME NEW table \in Seq(Entry),
         \A p, q \in DOMAIN table : table[p].name = table[q].name => p = q
  PROVE  IsFiniteSet(Names(table)) /\ Cardinality(Names(table)) = Len(table)
<1> DEFINE n == Len(table)
<1> DEFINE f == [p \in 1..n |-> table[p].name]
<1>1. n \in Nat /\ DOMAIN table = 1..n OBVIOUS
<1>2. Names(table) = {table[p].name : p \in 1..n} BY <1>1 DEF Names
<1> HIDE DEF n
<1>3. f \in Bijection(1..n, Names(table))
  <2>1. f \in [1..n -> Names(table)] BY <1>2
  <2>2. \A a, b \in 1..n : f[a] = f[b] => a = b BY <1>1
  <2>3. \A y \in Names(table) : \E p \in 1..n : f[p] = y BY <1>2
  <2> QED BY <2>1, <2>2, <2>3 DEF Bijection, Injection, Surjection, IsInjective
<1>4. ExistsBijection(1..n, Names(table)) BY <1>3 DEF ExistsBijection
<1>5. IsFiniteSet(1..n) /\ Cardinality(1..n) = n BY <1>1, FS_Interval
<1> QED BY <1>1, <1>3, <1>4, <1>5, FS_Bijection, FS_CountingElements DEF n

(* The names of one type, and when the tables have room for all.            *)
ElementsOf(declared, c) ==
    UNION {Names(Elements(d)) : d \in {e \in declared : e.class = c}}
Fits(declared) ==
    /\ IsFiniteSet(declared)
    /\ \A d, e \in declared : d.base = e.base => d = e
    /\ \A c \in Classes :
          Cardinality(ElementsOf(declared, c)) < Limit(c) + IF c \in RoomFirst THEN 0 ELSE 1

LEMMA ElementsOfFinite ==
  ASSUME NEW declared \in SUBSET UniformDeclaration, IsFiniteSet(declared), NEW c
  PROVE  IsFiniteSet(ElementsOf(declared, c))
<1> DEFINE D == {e \in declared : e.class = c}
<1> DEFINE f == [d \in D |-> Names(Elements(d))]
<1> DEFINE S == {f[d] : d \in D}
<1>1. IsFiniteSet(D) BY FS_Subset
<1>2. DOMAIN f = D OBVIOUS
<1>3. ElementsOf(declared, c) = UNION S BY DEF ElementsOf
<1>4. \A d \in D : IsFiniteSet(f[d])
  <2> TAKE d \in D
  <2>1. d \in UniformDeclaration OBVIOUS
  <2>2. Elements(d) \in Seq(Entry) /\ DOMAIN Elements(d) = 1..d.size
        /\ \A j, k \in 1..d.size : Elements(d)[j].name = Elements(d)[k].name => j = k
    BY <2>1, ElementsFacts
  <2>3. IsFiniteSet(Names(Elements(d))) BY <2>2, NamesCounted
  <2> QED BY <2>3
<1> HIDE DEF D, f
<1>5. IsFiniteSet(S) BY <1>1, <1>2, FiniteRange
<1>6. \A T \in S : IsFiniteSet(T) BY <1>4
<1> HIDE DEF S
<1> QED BY <1>3, <1>5, <1>6, FS_UNION

(* Where everything fits, what is added is accepted.                        *)
LEMMA AddingAccepted ==
  ASSUME NEW x \in Collection, x.ok, NEW declared \in SUBSET UniformDeclaration,
         Fits(declared), Sound(x.tables, declared),
         NEW d \in declared, NEW k \in 1..d.size
  PROVE  Adding(x, d.class, Elements(d)[k]).ok
<1> DEFINE e == Elements(d)[k]
<1> DEFINE class == d.class
<1> DEFINE table == x.tables[class]
<1>1. d \in UniformDeclaration OBVIOUS
<1>2. e \in Entry /\ class \in Classes /\ e.target = d.target /\ DOMAIN Elements(d) = 1..d.size
  BY <1>1, ElementsFacts
<1>3. table \in Seq(Entry) BY <1>2 DEF Collection, Tables
(* Who is named like e is e's own element, declared as it is.               *)
<1>4. ASSUME NEW c \in Classes, NEW p \in DOMAIN x.tables[c], x.tables[c][p].name = e.name
      PROVE  c = class /\ x.tables[c][p].target = e.target
  <2>1. PICK g \in declared : \E j \in 1..g.size : g.class = c /\ x.tables[c][p] = Elements(g)[j]
    BY DEF Sound, AllDeclared
  <2>2. PICK j \in 1..g.size : g.class = c /\ x.tables[c][p] = Elements(g)[j] BY <2>1
  <2>3. g \in UniformDeclaration OBVIOUS
  <2>4. Elements(g)[j].name = Elements(d)[k].name BY <1>4, <2>2
  <2>5. g.base = d.base BY <1>1, <2>3, <2>4, ElementNames
  <2>6. g = d BY <2>5 DEF Fits
  <2>7. x.tables[c][p].target = d.target BY <1>1, <2>2, <2>6, ElementsFacts
  <2> QED BY <1>2, <2>2, <2>6, <2>7
<1>5. Names(table) \cup {e.name} \subseteq ElementsOf(declared, class)
  <2>1. ASSUME NEW n \in Names(table) PROVE n \in ElementsOf(declared, class)
    <3>1. PICK p \in DOMAIN table : table[p].name = n BY NamesOf
    <3>2. PICK g \in declared : \E j \in 1..g.size : g.class = class /\ table[p] = Elements(g)[j]
      BY <1>2 DEF Sound, AllDeclared
    <3>3. PICK j \in 1..g.size : g.class = class /\ table[p] = Elements(g)[j] BY <3>2
    <3>4. g \in UniformDeclaration OBVIOUS
    <3>5. n \in Names(Elements(g)) BY <3>1, <3>3, <3>4, ElementsFacts, NamesOf
    <3> QED BY <3>3, <3>5 DEF ElementsOf
  <2>2. e.name \in Names(Elements(d)) BY <1>2, NamesOf
  <2>3. e.name \in ElementsOf(declared, class) BY <2>2 DEF ElementsOf
  <2> QED BY <2>1, <2>3
<1>6. IsFiniteSet(Names(table)) /\ Cardinality(Names(table)) = Len(table)
  <2>1. \A p, q \in DOMAIN table : table[p].name = table[q].name => p = q
    BY <1>2 DEF Sound, NamesApart
  <2> QED BY <1>3, <2>1, NamesCounted
<1> DEFINE all == Cardinality(ElementsOf(declared, class))
<1>7. IsFiniteSet(ElementsOf(declared, class)) BY ElementsOfFinite DEF Fits
<1> HIDE DEF e, class, table
<1>8. /\ Cardinality(Names(table) \cup {e.name}) =
            IF e.name \in Names(table) THEN Len(table) ELSE Len(table) + 1
      /\ Cardinality(Names(table) \cup {e.name}) <= all
  BY <1>5, <1>6, <1>7, FS_AddElement, FS_Subset
<1>9. all \in Nat /\ all < Limit(class) + IF class \in RoomFirst THEN 0 ELSE 1
  BY <1>2, <1>7, FS_CardinalityType DEF Fits
<1> HIDE DEF all
<1>10. Limit(class) \in Int BY InterfacesAssumption DEF Limit
<1>11. Len(table) \in Nat BY <1>3
<1>12. Len(table) < Limit(class) \/ (e.name \in Names(table) /\ class \notin RoomFirst)
  <2>1. CASE e.name \notin Names(table) BY <1>8, <1>9, <1>10, <1>11, <2>1
  <2>2. CASE e.name \in Names(table) /\ class \in RoomFirst BY <1>8, <1>9, <1>10, <1>11, <2>2
  <2> QED BY <2>1, <2>2
<1>13. CASE e.name \in Names(table)
  <2>1. PICK p \in DOMAIN table : table[p].name = e.name BY <1>13, NamesOf
  <2>2. table[p].target = e.target BY <1>2, <1>4, <2>1 DEF table
  <2>3. \E f \in ToSet(table) : f.name = e.name /\ f.target = e.target BY <2>1, <2>2 DEF ToSet
  <2>4. Accepts(x.tables, class, e) BY <1>12, <1>13, <2>3 DEF Accepts, table
  <2> QED BY <1>2, <2>4, AddingCases DEF e, class
<1>14. CASE e.name \notin Names(table)
  <2>1. \A c \in Classes : e.name \notin Names(x.tables[c])
    <3> SUFFICES ASSUME NEW c \in Classes, e.name \in Names(x.tables[c]) PROVE FALSE OBVIOUS
    <3>1. PICK p \in DOMAIN x.tables[c] : x.tables[c][p].name = e.name BY NamesOf
    <3>2. c = class BY <1>4, <3>1
    <3> QED BY <1>14, <3>2 DEF table
  <2>2. Accepts(x.tables, class, e) BY <1>12, <1>14, <2>1 DEF Accepts, table
  <2> QED BY <1>2, <2>2, AddingCases DEF e, class
<1> QED BY <1>13, <1>14

-----------------------------------------------------------------------------
(* The three loops, each with the state after every round.                  *)

LEMMA AddingAllRounds ==
  ASSUME NEW x \in Collection, NEW d \in UniformDeclaration
  PROVE  \E s \in [0..d.size -> Collection] :
            /\ s[0] = x /\ AddingAll(x, d) = s[d.size]
            /\ \A k \in 1..d.size : s[k] = Adding(s[k - 1], d.class, Elements(d)[k])
<1> DEFINE n == d.size
<1> DEFINE step == [k \in 1..n |-> [z \in Collection |-> Adding(z, d.class, Elements(d)[k])]]
<1>1. n \in Nat /\ d.class \in Classes /\ \A k \in 1..n : Elements(d)[k] \in Entry
  BY ElementsFacts
<1>2. \A k \in 1..n : \A z \in Collection : Adding(z, d.class, Elements(d)[k]) \in Collection
  BY <1>1, AddingCases
<1> DEFINE Eq(u) == u = [k \in 0..n |-> IF k = 0 THEN x ELSE Adding(u[k - 1], d.class, Elements(d)[k])]
<1> DEFINE g == CHOOSE u : Eq(u)
<1>3. AddingAll(x, d) = g[n] BY DEF AddingAll
<1> HIDE DEF n
<1>4. step \in [1..n -> [Collection -> Collection]] BY <1>2
<1> HIDE DEF step
<1>5. PICK s \in [0..n -> Collection] : s[0] = x /\ \A k \in 1..n : s[k] = step[k][s[k - 1]]
  <2>1. n \in Nat /\ x \in Collection BY <1>1
  <2>2. \E s : Iterated(s, n, Collection, x, step) BY <2>1, <1>4, IterationExists DEF StepsOf
  <2> QED BY <2>2 DEF Iterated
<1>6. ASSUME NEW k \in 1..n PROVE s[k] = Adding(s[k - 1], d.class, Elements(d)[k])
  <2>1. k - 1 \in 0..n BY <1>1
  <2>2. s[k - 1] \in Collection BY <2>1
  <2>3. step[k][s[k - 1]] = Adding(s[k - 1], d.class, Elements(d)[k]) BY <2>2 DEF step
  <2> QED BY <1>5, <2>3
<1>7. Eq(s)
  <2>1. \A k \in 0..n : k # 0 => k \in 1..n BY <1>1
  <2>2. \A k \in 0..n : s[k] = IF k = 0 THEN x ELSE Adding(s[k - 1], d.class, Elements(d)[k])
    BY <1>5, <1>6, <2>1
  <2>3. s = [k \in 0..n |-> s[k]] OBVIOUS
  <2> QED BY <2>2, <2>3
<1>8. Eq(g) BY <1>7
<1> HIDE DEF g
<1>9. g[0] = x /\ \A k \in 1..n : g[k] = Adding(g[k - 1], d.class, Elements(d)[k])
  BY <1>1, <1>8
<1>10. \A k \in 1..n : s[k - 1] = g[k - 1] => s[k] = g[k] BY <1>6, <1>9
<1>11. \A k \in 0..n : s[k] = g[k]
  <2>1. Following(s, g, n) BY <1>5, <1>9, <1>10 DEF Following
  <2> QED BY <1>1, <2>1, IterationUnique
<1>12. AddingAll(x, d) = s[n] BY <1>1, <1>3, <1>11
<1> QED BY <1>5, <1>6, <1>12 DEF n

LEMMA CollectingRounds ==
  ASSUME NEW x \in Collection, NEW L \in Seq(UniformDeclaration), NEW class
  PROVE  \E s \in [0..Len(L) -> Collection] :
            /\ s[0] = x /\ Collecting(x, L, class) = s[Len(L)]
            /\ \A j \in 1..Len(L) :
                  s[j] = IF L[j].class = class THEN AddingAll(s[j - 1], L[j]) ELSE s[j - 1]
<1> DEFINE n == Len(L)
<1> DEFINE step == [j \in 1..n |-> [z \in Collection |->
                       IF L[j].class = class THEN AddingAll(z, L[j]) ELSE z]]
<1>1. n \in Nat /\ \A j \in 1..n : L[j] \in UniformDeclaration OBVIOUS
<1> DEFINE Eq(u) == u = [j \in 0..n |-> IF j = 0 THEN x
                                        ELSE IF L[j].class = class THEN AddingAll(u[j - 1], L[j])
                                        ELSE u[j - 1]]
<1> DEFINE g == CHOOSE u : Eq(u)
<1>2. Collecting(x, L, class) = g[n] BY DEF Collecting
<1> HIDE DEF n
<1>3. ASSUME NEW j \in 1..n, NEW z \in Collection
      PROVE  (IF L[j].class = class THEN AddingAll(z, L[j]) ELSE z) \in Collection
  <2>1. L[j] \in UniformDeclaration BY <1>1
  <2>2. PICK s \in [0..L[j].size -> Collection] : AddingAll(z, L[j]) = s[L[j].size]
    BY <2>1, AddingAllRounds
  <2>3. L[j].size \in 0..L[j].size BY <2>1, ElementsFacts
  <2>4. AddingAll(z, L[j]) \in Collection BY <2>2, <2>3
  <2> QED BY <2>4
<1>4. step \in [1..n -> [Collection -> Collection]] BY <1>3
<1> HIDE DEF step
<1>5. PICK s \in [0..n -> Collection] : s[0] = x /\ \A j \in 1..n : s[j] = step[j][s[j - 1]]
  <2>1. \E s : Iterated(s, n, Collection, x, step) BY <1>1, <1>4, IterationExists DEF StepsOf
  <2> QED BY <2>1 DEF Iterated
<1>6. ASSUME NEW j \in 1..n
      PROVE  s[j] = IF L[j].class = class THEN AddingAll(s[j - 1], L[j]) ELSE s[j - 1]
  <2>1. j - 1 \in 0..n BY <1>1
  <2>2. s[j - 1] \in Collection BY <2>1
  <2>3. step[j][s[j - 1]] = IF L[j].class = class THEN AddingAll(s[j - 1], L[j]) ELSE s[j - 1]
    BY <2>2 DEF step
  <2> QED BY <1>5, <2>3
<1>7. Eq(s)
  <2>1. \A j \in 0..n : j # 0 => j \in 1..n BY <1>1
  <2>2. \A j \in 0..n : s[j] = IF j = 0 THEN x
                               ELSE IF L[j].class = class THEN AddingAll(s[j - 1], L[j])
                               ELSE s[j - 1]
    BY <1>5, <1>6, <2>1
  <2>3. s = [j \in 0..n |-> s[j]] OBVIOUS
  <2> QED BY <2>2, <2>3
<1>8. Eq(g) BY <1>7
<1> HIDE DEF g
<1>9. g[0] = x /\ \A j \in 1..n :
         g[j] = IF L[j].class = class THEN AddingAll(g[j - 1], L[j]) ELSE g[j - 1]
  BY <1>1, <1>8
<1>10. \A j \in 1..n : s[j - 1] = g[j - 1] => s[j] = g[j] BY <1>6, <1>9
<1>11. \A j \in 0..n : s[j] = g[j]
  <2>1. Following(s, g, n) BY <1>5, <1>9, <1>10 DEF Following
  <2> QED BY <1>1, <2>1, IterationUnique
<1>12. Collecting(x, L, class) = s[n] BY <1>1, <1>2, <1>11
<1> QED BY <1>5, <1>6, <1>12 DEF n

LEMMA CollectedRounds ==
  ASSUME NEW i, WellFormed(i)
  PROVE  \E s \in [0..Len(CollectionOrder) -> Collection] :
            /\ s[0] = [ok |-> SamplersMatch(i), tables |-> NoUniforms]
            /\ Collected(i) = s[Len(CollectionOrder)]
            /\ \A r \in 1..Len(CollectionOrder) :
                  s[r] = Collecting(s[r - 1], i.vertex \o i.fragment, CollectionOrder[r])
<1> DEFINE n == Len(CollectionOrder)
<1> DEFINE L == i.vertex \o i.fragment
<1> DEFINE x == [ok |-> SamplersMatch(i), tables |-> NoUniforms]
<1> DEFINE step == [r \in 1..n |-> [z \in Collection |-> Collecting(z, L, CollectionOrder[r])]]
<1>1. L \in Seq(UniformDeclaration) BY DEF WellFormed
<1>2. n \in Nat BY DEF CollectionOrder
<1>3. x \in Collection
  <2>1. SamplersMatch(i) \in BOOLEAN BY DEF SamplersMatch
  <2>2. NoUniforms \in Tables
    <3>1. <<>> \in Seq(Entry) OBVIOUS
    <3> QED BY <3>1 DEF NoUniforms, Tables
  <2> QED BY <2>1, <2>2 DEF Collection
<1> DEFINE Eq(u) == u = [r \in 0..n |-> IF r = 0 THEN x ELSE Collecting(u[r - 1], L, CollectionOrder[r])]
<1> DEFINE g == CHOOSE u : Eq(u)
<1>4. Collected(i) = g[n] BY DEF Collected
<1> HIDE DEF n, L, x
<1>5. ASSUME NEW r \in 1..n, NEW z \in Collection
      PROVE  Collecting(z, L, CollectionOrder[r]) \in Collection
  <2>1. PICK s \in [0..Len(L) -> Collection] : Collecting(z, L, CollectionOrder[r]) = s[Len(L)]
    BY <1>1, CollectingRounds
  <2>2. Len(L) \in 0..Len(L) BY <1>1
  <2> QED BY <2>1, <2>2
<1>6. step \in [1..n -> [Collection -> Collection]] BY <1>5
<1> HIDE DEF step
<1>7. PICK s \in [0..n -> Collection] : s[0] = x /\ \A r \in 1..n : s[r] = step[r][s[r - 1]]
  <2>1. \E s : Iterated(s, n, Collection, x, step) BY <1>2, <1>3, <1>6, IterationExists DEF StepsOf
  <2> QED BY <2>1 DEF Iterated
<1>8. ASSUME NEW r \in 1..n
      PROVE  s[r] = Collecting(s[r - 1], L, CollectionOrder[r])
  <2>1. r - 1 \in 0..n BY <1>2
  <2>2. s[r - 1] \in Collection BY <2>1
  <2>3. step[r][s[r - 1]] = Collecting(s[r - 1], L, CollectionOrder[r]) BY <2>2 DEF step
  <2> QED BY <1>7, <2>3
<1>9. Eq(s)
  <2>1. \A r \in 0..n : r # 0 => r \in 1..n BY <1>2
  <2>2. \A r \in 0..n : s[r] = IF r = 0 THEN x ELSE Collecting(s[r - 1], L, CollectionOrder[r])
    BY <1>7, <1>8, <2>1
  <2>3. s = [r \in 0..n |-> s[r]] OBVIOUS
  <2> QED BY <2>2, <2>3
<1>10. Eq(g) BY <1>9
<1> HIDE DEF g
<1>11. g[0] = x /\ \A r \in 1..n : g[r] = Collecting(g[r - 1], L, CollectionOrder[r])
  BY <1>2, <1>10
<1>12. \A r \in 1..n : s[r - 1] = g[r - 1] => s[r] = g[r] BY <1>8, <1>11
<1>13. \A r \in 0..n : s[r] = g[r]
  <2>1. Following(s, g, n) BY <1>7, <1>11, <1>12 DEF Following
  <2> QED BY <1>2, <2>1, IterationUnique
<1>14. Collected(i) = s[n] BY <1>2, <1>4, <1>13
<1> QED BY <1>7, <1>8, <1>14 DEF n, L, x

-----------------------------------------------------------------------------
(* What a round, a collector and all of them keep.                          *)

LEMMA ExtendsTrans ==
  ASSUME NEW t, NEW u, NEW v, Extends(t, u), Extends(u, v)
  PROVE  Extends(t, v)
BY DEF Extends

LEMMA ExtendsSelf ==
  ASSUME NEW t
  PROVE  Extends(t, t)
BY DEF Extends

LEMMA ExtendsNames ==
  ASSUME NEW t, NEW u, Extends(t, u), NEW c \in Classes
  PROVE  Names(t[c]) \subseteq Names(u[c])
<1> SUFFICES ASSUME NEW n \in Names(t[c]) PROVE n \in Names(u[c]) OBVIOUS
<1>1. PICK p \in DOMAIN t[c] : t[c][p].name = n BY NamesOf
<1>2. p \in DOMAIN u[c] /\ u[c][p] = t[c][p] BY DEF Extends
<1> QED BY <1>1, <1>2, NamesOf

(* What is new is an element of d, one of the first k.                      *)
OnlyNew(t, u, d, k) ==
    \A c \in Classes : \A p \in DOMAIN u[c] :
        p \in DOMAIN t[c] \/ (c = d.class /\ \E j \in 1..k : u[c][p] = Elements(d)[j])

(* After k elements of d.                                                   *)
RoundKept(x, z, d, declared, k) ==
    z.ok =>
      /\ x.ok /\ Sound(z.tables, declared) /\ Extends(x.tables, z.tables)
      /\ \A j \in 1..k : Elements(d)[j].name \in Names(z.tables[d.class])
      /\ OnlyNew(x.tables, z.tables, d, k)
      /\ AbsentFrom(x.tables, d) =>
            /\ Len(z.tables[d.class]) = Len(x.tables[d.class]) + k
            /\ \A j \in 1..k : z.tables[d.class][Len(x.tables[d.class]) + j] = Elements(d)[j]

LEMMA RoundKeeps ==
  ASSUME NEW x \in Collection, NEW z \in Collection,
         NEW declared \in SUBSET UniformDeclaration, NEW d \in declared,
         NEW k \in 1..d.size, RoundKept(x, z, d, declared, k - 1)
  PROVE  RoundKept(x, Adding(z, d.class, Elements(d)[k]), d, declared, k)
<1> DEFINE class == d.class
<1> DEFINE e == Elements(d)[k]
<1> DEFINE y == Adding(z, d.class, Elements(d)[k])
<1>1. d \in UniformDeclaration /\ k \in Nat \ {0} /\ d.size \in Nat BY ElementsFacts
<1>2. e \in Entry /\ class \in Classes BY <1>1, ElementsFacts
<1> SUFFICES ASSUME y.ok
             PROVE  /\ x.ok /\ Sound(y.tables, declared) /\ Extends(x.tables, y.tables)
                    /\ \A j \in 1..k : Elements(d)[j].name \in Names(y.tables[class])
                    /\ OnlyNew(x.tables, y.tables, d, k)
                    /\ AbsentFrom(x.tables, d) =>
                          /\ Len(y.tables[class]) = Len(x.tables[class]) + k
                          /\ \A j \in 1..k :
                                y.tables[class][Len(x.tables[class]) + j] = Elements(d)[j]
  BY DEF RoundKept
<1>3. z.ok BY <1>2, AddingCases
<1>4. /\ x.ok /\ Sound(z.tables, declared) /\ Extends(x.tables, z.tables)
      /\ \A j \in 1..(k - 1) : Elements(d)[j].name \in Names(z.tables[class])
      /\ OnlyNew(x.tables, z.tables, d, k - 1)
      /\ AbsentFrom(x.tables, d) =>
            /\ Len(z.tables[class]) = Len(x.tables[class]) + (k - 1)
            /\ \A j \in 1..(k - 1) : z.tables[class][Len(x.tables[class]) + j] = Elements(d)[j]
  BY <1>3 DEF RoundKept
<1> HIDE DEF y
<1>5. /\ Sound(y.tables, declared) /\ Extends(z.tables, y.tables)
      /\ e.name \in Names(y.tables[class])
      /\ \A c \in Classes : \A p \in DOMAIN y.tables[c] :
            p \in DOMAIN z.tables[c] \/ (c = class /\ y.tables[c][p] = e)
  <2>1. y = Adding(z, d.class, Elements(d)[k]) /\ y.ok /\ Sound(z.tables, declared)
    BY <1>4 DEF y
  <2>2. WithElement(z.tables, y.tables, declared, d, k) BY <2>1, AddingSound
  <2> QED BY <2>2 DEF WithElement
<1>6. Extends(x.tables, y.tables) BY <1>4, <1>5, ExtendsTrans
<1>7. ASSUME NEW j \in 1..k PROVE Elements(d)[j].name \in Names(y.tables[class])
  <2>1. CASE j = k BY <1>5, <2>1
  <2>2. CASE j \in 1..(k - 1)
    <3>1. Names(z.tables[class]) \subseteq Names(y.tables[class]) BY <1>2, <1>5, ExtendsNames
    <3> QED BY <1>4, <2>2, <3>1
  <2> QED BY <1>1, <2>1, <2>2
<1>8. OnlyNew(x.tables, y.tables, d, k)
  <2> SUFFICES ASSUME NEW c \in Classes, NEW p \in DOMAIN y.tables[c], p \notin DOMAIN x.tables[c]
               PROVE  c = d.class /\ \E j \in 1..k : y.tables[c][p] = Elements(d)[j]
    BY DEF OnlyNew
  <2>1. CASE p \in DOMAIN z.tables[c]
    <3>1. c = d.class /\ \E j \in 1..(k - 1) : z.tables[c][p] = Elements(d)[j]
      BY <1>4, <2>1 DEF OnlyNew
    <3>2. y.tables[c][p] = z.tables[c][p] BY <1>5, <2>1 DEF Extends
    <3>3. 1..(k - 1) \subseteq 1..k BY <1>1
    <3> QED BY <3>1, <3>2, <3>3
  <2>2. CASE c = class /\ y.tables[c][p] = e
    <3>1. k \in 1..k BY <1>1
    <3> QED BY <2>2, <3>1
  <2> QED BY <1>5, <2>1, <2>2
<1>9. ASSUME AbsentFrom(x.tables, d)
      PROVE  /\ Len(y.tables[class]) = Len(x.tables[class]) + k
             /\ \A j \in 1..k : y.tables[class][Len(x.tables[class]) + j] = Elements(d)[j]
  <2>1. e.name \notin Names(z.tables[class])
    <3> SUFFICES ASSUME NEW p \in DOMAIN z.tables[class], z.tables[class][p].name = e.name
                 PROVE  FALSE
      BY NamesOf
    <3>1. CASE p \in DOMAIN x.tables[class]
      <4>1. z.tables[class][p] = x.tables[class][p] BY <1>2, <1>4, <3>1 DEF Extends
      <4> QED BY <1>2, <1>9, <3>1, <4>1 DEF AbsentFrom
    <3>2. CASE \E j \in 1..(k - 1) : z.tables[class][p] = Elements(d)[j]
      <4>1. PICK j \in 1..(k - 1) : z.tables[class][p] = Elements(d)[j] BY <3>2
      <4>2. j \in 1..d.size /\ j # k BY <1>1
      <4>3. Elements(d)[j].name = Elements(d)[k].name BY <4>1
      <4> QED BY <1>1, <4>2, <4>3, ElementsFacts
    <3> QED BY <1>2, <1>4, <3>1, <3>2 DEF OnlyNew
  <2>2. /\ Len(y.tables[class]) = Len(z.tables[class]) + 1
        /\ y.tables[class][Len(z.tables[class]) + 1] = e
    BY <1>2, <2>1, AddingPlaces DEF y
  <2>3. /\ Len(z.tables[class]) = Len(x.tables[class]) + (k - 1)
        /\ \A j \in 1..(k - 1) : z.tables[class][Len(x.tables[class]) + j] = Elements(d)[j]
    BY <1>4, <1>9
  <2>4. z.tables[class] \in Seq(Entry) /\ x.tables[class] \in Seq(Entry)
    BY <1>2 DEF Collection, Tables
  <2> DEFINE n == Len(x.tables[class])
  <2>5. n \in Nat BY <2>4
  <2>6. DOMAIN z.tables[class] = 1..(n + (k - 1)) BY <2>3, <2>4
  <2> HIDE DEF n, class, e
  <2>7. ASSUME NEW j \in 1..k PROVE y.tables[class][n + j] = Elements(d)[j]
    <3>1. CASE j = k
      <4>1. Len(z.tables[class]) + 1 = n + k BY <1>1, <2>3, <2>5 DEF n
      <4> QED BY <2>2, <3>1, <4>1 DEF e
    <3>2. CASE j \in 1..(k - 1)
      <4>1. n + j \in DOMAIN z.tables[class] BY <1>1, <2>5, <2>6, <3>2
      <4>2. y.tables[class][n + j] = z.tables[class][n + j] BY <1>2, <1>5, <4>1 DEF Extends
      <4> QED BY <2>3, <3>2, <4>2 DEF n
    <3> QED BY <1>1, <3>1, <3>2
  <2>8. Len(y.tables[class]) = n + k BY <1>1, <2>2, <2>3, <2>5 DEF n
  <2> QED BY <2>7, <2>8 DEF n
<1> QED BY <1>4, <1>5, <1>6, <1>7, <1>8, <1>9

LEMMA AddingAllKeeps ==
  ASSUME NEW x \in Collection, NEW declared \in SUBSET UniformDeclaration, NEW d \in declared,
         x.ok => Sound(x.tables, declared)
  PROVE  /\ AddingAll(x, d) \in Collection
         /\ RoundKept(x, AddingAll(x, d), d, declared, d.size)
         /\ x.ok /\ Fits(declared) => AddingAll(x, d).ok
<1>1. d \in UniformDeclaration /\ d.size \in Nat BY ElementsFacts
<1>2. PICK s \in [0..d.size -> Collection] :
         /\ s[0] = x /\ AddingAll(x, d) = s[d.size]
         /\ \A k \in 1..d.size : s[k] = Adding(s[k - 1], d.class, Elements(d)[k])
  BY <1>1, AddingAllRounds
<1> DEFINE T == {k \in 0..d.size : /\ RoundKept(x, s[k], d, declared, k)
                                   /\ x.ok /\ Fits(declared) => s[k].ok}
<1>3. 0 \in T
  <2>1. x.tables[d.class] \in Seq(Entry) BY <1>1, ElementsFacts DEF Collection, Tables
  <2>2. OnlyNew(x.tables, x.tables, d, 0) BY DEF OnlyNew
  <2>3. Extends(x.tables, x.tables) BY ExtendsSelf
  <2>4. Len(x.tables[d.class]) = Len(x.tables[d.class]) + 0 BY <2>1
  <2>5. RoundKept(x, x, d, declared, 0) BY <2>2, <2>3, <2>4 DEF RoundKept
  <2> QED BY <1>1, <1>2, <2>5
<1>4. ASSUME NEW k \in 1..d.size, k - 1 \in T PROVE k \in T
  <2>1. k - 1 \in 0..d.size /\ k \in 0..d.size BY <1>1
  <2>2. s[k - 1] \in Collection /\ RoundKept(x, s[k - 1], d, declared, k - 1) BY <1>4, <2>1
  <2>3. RoundKept(x, Adding(s[k - 1], d.class, Elements(d)[k]), d, declared, k)
    BY <2>2, RoundKeeps
  <2>4. ASSUME x.ok, Fits(declared) PROVE Adding(s[k - 1], d.class, Elements(d)[k]).ok
    <3>1. s[k - 1].ok BY <1>4, <2>1, <2>4
    <3>2. Sound(s[k - 1].tables, declared) BY <2>2, <3>1 DEF RoundKept
    <3> QED BY <2>2, <2>4, <3>1, <3>2, AddingAccepted
  <2> QED BY <1>2, <2>1, <2>3, <2>4
<1> HIDE DEF T
<1>5. \A k \in 0..d.size : k \in T BY <1>1, <1>3, <1>4, UpTo
<1>6. d.size \in T /\ d.size \in 0..d.size BY <1>1, <1>5
<1> QED BY <1>2, <1>6 DEF T

(* Of uniforms that no other declaration shares the name of, all elements   *)
(* are together or none is there.                                           *)
Kept(tables, declared) ==
    /\ Sound(tables, declared)
    /\ \A d \in declared : Sole(d, declared) =>
          AbsentFrom(tables, d) \/ \E p \in Nat : WholeFrom(tables, d, p)

UniformKept(x, y, declared, d) ==
    /\ y.ok => x.ok /\ Kept(y.tables, declared) /\ Extends(x.tables, y.tables) /\ Holds(y.tables, d)
    /\ x.ok /\ Fits(declared) => y.ok

LEMMA UniformKeeps ==
  ASSUME NEW x \in Collection, NEW declared \in SUBSET UniformDeclaration, NEW d \in declared,
         x.ok => Kept(x.tables, declared)
  PROVE  UniformKept(x, AddingAll(x, d), declared, d)
<1> DEFINE y == AddingAll(x, d)
<1>1. d \in UniformDeclaration /\ d.size \in Nat \ {0} /\ d.class \in Classes BY ElementsFacts
<1>2. x.ok => Sound(x.tables, declared) BY DEF Kept
<1>3. /\ y \in Collection /\ RoundKept(x, y, d, declared, d.size)
      /\ x.ok /\ Fits(declared) => y.ok
  BY <1>2, AddingAllKeeps
<1> HIDE DEF y
<1> SUFFICES ASSUME y.ok
             PROVE  x.ok /\ Kept(y.tables, declared) /\ Extends(x.tables, y.tables) /\ Holds(y.tables, d)
  BY <1>3 DEF UniformKept, y
<1>4. /\ x.ok /\ Sound(y.tables, declared) /\ Extends(x.tables, y.tables)
      /\ \A j \in 1..d.size : Elements(d)[j].name \in Names(y.tables[d.class])
      /\ OnlyNew(x.tables, y.tables, d, d.size)
      /\ AbsentFrom(x.tables, d) =>
            /\ Len(y.tables[d.class]) = Len(x.tables[d.class]) + d.size
            /\ \A j \in 1..d.size : y.tables[d.class][Len(x.tables[d.class]) + j] = Elements(d)[j]
  BY <1>3 DEF RoundKept
<1>5. ASSUME NEW e \in declared, NEW p \in Nat, WholeFrom(x.tables, e, p)
      PROVE  WholeFrom(y.tables, e, p)
  <2>1. e.class \in Classes BY ElementsFacts
  <2> QED BY <1>4, <1>5, <2>1 DEF WholeFrom, Extends
<1>6. ASSUME AbsentFrom(x.tables, d)
      PROVE  \E p \in Nat : WholeFrom(y.tables, d, p)
  <2> DEFINE n == Len(x.tables[d.class])
  <2>1. x.tables[d.class] \in Seq(Entry) /\ y.tables[d.class] \in Seq(Entry)
    BY <1>1, <1>3 DEF Collection, Tables
  <2>2. n \in Nat /\ DOMAIN y.tables[d.class] = 1..(n + d.size) BY <1>1, <1>4, <1>6, <2>1
  <2>3. \A k \in 1..d.size : y.tables[d.class][n + k] = Elements(d)[k] BY <1>4, <1>6
  <2> HIDE DEF n
  <2>4. \A k \in 1..d.size : n + k \in 1..(n + d.size) BY <1>1, <2>2
  <2>5. WholeFrom(y.tables, d, n) BY <2>2, <2>3, <2>4 DEF WholeFrom
  <2> QED BY <2>2, <2>5
<1>7. ASSUME NEW e \in declared, Sole(e, declared), e # d, AbsentFrom(x.tables, e)
      PROVE  AbsentFrom(y.tables, e)
  <2> SUFFICES ASSUME NEW c \in Classes, NEW p \in DOMAIN y.tables[c], NEW k \in 1..e.size
               PROVE  y.tables[c][p].name # Elements(e)[k].name
    BY DEF AbsentFrom
  <2>1. CASE p \in DOMAIN x.tables[c]
    <3>1. y.tables[c][p] = x.tables[c][p] BY <1>4, <2>1 DEF Extends
    <3> QED BY <1>7, <2>1, <3>1 DEF AbsentFrom
  <2>2. CASE \E j \in 1..d.size : y.tables[c][p] = Elements(d)[j]
    <3>1. PICK j \in 1..d.size : y.tables[c][p] = Elements(d)[j] BY <2>2
    <3>2. d.base # e.base BY <1>7 DEF Sole
    <3>3. e \in UniformDeclaration OBVIOUS
    <3>4. Elements(d)[j].name # Elements(e)[k].name BY <1>1, <3>2, <3>3, ElementNames
    <3> QED BY <3>1, <3>4
  <2> QED BY <1>4, <2>1, <2>2 DEF OnlyNew
<1>8. Kept(y.tables, declared)
  <2> SUFFICES ASSUME NEW e \in declared, Sole(e, declared)
               PROVE  AbsentFrom(y.tables, e) \/ \E p \in Nat : WholeFrom(y.tables, e, p)
    BY <1>4 DEF Kept
  <2>1. CASE \E p \in Nat : WholeFrom(x.tables, e, p) BY <1>5, <2>1
  <2>2. CASE AbsentFrom(x.tables, e) /\ e = d BY <1>6, <2>2
  <2>3. CASE AbsentFrom(x.tables, e) /\ e # d BY <1>7, <2>3
  <2> QED BY <1>4, <2>1, <2>2, <2>3 DEF Kept
<1> QED BY <1>4, <1>8 DEF Holds

LEMMA HoldsLonger ==
  ASSUME NEW t, NEW u, Extends(t, u), NEW d \in UniformDeclaration, Holds(t, d)
  PROVE  Holds(u, d)
<1>1. d.class \in Classes BY ElementsFacts
<1>2. Names(t[d.class]) \subseteq Names(u[d.class]) BY <1>1, ExtendsNames
<1> QED BY <1>2 DEF Holds

(* After the first j declarations for one type.                             *)
CollectorKept(x, z, L, class, j) ==
    /\ z.ok => /\ x.ok /\ Kept(z.tables, ToSet(L)) /\ Extends(x.tables, z.tables)
               /\ \A m \in 1..j : L[m].class = class => Holds(z.tables, L[m])
    /\ x.ok /\ Fits(ToSet(L)) => z.ok

LEMMA CollectorKeeps ==
  ASSUME NEW x \in Collection, NEW L \in Seq(UniformDeclaration), NEW class,
         x.ok => Kept(x.tables, ToSet(L))
  PROVE  /\ Collecting(x, L, class) \in Collection
         /\ CollectorKept(x, Collecting(x, L, class), L, class, Len(L))
<1> DEFINE n == Len(L)
<1>1. n \in Nat /\ ToSet(L) \in SUBSET UniformDeclaration
      /\ \A j \in 1..n : L[j] \in ToSet(L) /\ L[j] \in UniformDeclaration
  BY DEF ToSet
<1>2. PICK s \in [0..n -> Collection] :
         /\ s[0] = x /\ Collecting(x, L, class) = s[n]
         /\ \A j \in 1..n : s[j] = IF L[j].class = class THEN AddingAll(s[j - 1], L[j]) ELSE s[j - 1]
  BY CollectingRounds
<1> HIDE DEF n
<1> DEFINE T == {j \in 0..n : CollectorKept(x, s[j], L, class, j)}
<1>3. 0 \in T
  <2>1. Extends(x.tables, x.tables) BY ExtendsSelf
  <2>2. CollectorKept(x, x, L, class, 0) BY <2>1 DEF CollectorKept
  <2> QED BY <1>1, <1>2, <2>2
<1>4. ASSUME NEW j \in 1..n, j - 1 \in T PROVE j \in T
  <2> DEFINE z == s[j - 1]
  <2>1. j - 1 \in 0..n /\ j \in 0..n BY <1>1
  <2>2. z \in Collection /\ CollectorKept(x, z, L, class, j - 1) BY <1>4, <2>1
  <2>3. s[j] = IF L[j].class = class THEN AddingAll(z, L[j]) ELSE z BY <1>2
  <2> HIDE DEF z
  <2>4. CASE L[j].class # class
    <3>1. s[j] = z BY <2>3, <2>4
    <3>2. \A m \in 1..j : m = j \/ m \in 1..(j - 1) BY <1>1
    <3>3. CollectorKept(x, z, L, class, j) BY <2>2, <2>4, <3>2 DEF CollectorKept
    <3> QED BY <2>1, <3>1, <3>3
  <2>5. CASE L[j].class = class
    <3> DEFINE y == AddingAll(z, L[j])
    <3>1. z.ok => Kept(z.tables, ToSet(L)) BY <2>2 DEF CollectorKept
    <3>2. UniformKept(z, y, ToSet(L), L[j]) BY <1>1, <2>2, <3>1, UniformKeeps
    <3> HIDE DEF y
    <3>3. CollectorKept(x, y, L, class, j)
      <4> SUFFICES ASSUME y.ok
                   PROVE  /\ x.ok /\ Kept(y.tables, ToSet(L)) /\ Extends(x.tables, y.tables)
                          /\ \A m \in 1..j : L[m].class = class => Holds(y.tables, L[m])
        BY <2>2, <3>2 DEF CollectorKept, UniformKept
      <4>1. z.ok /\ Kept(y.tables, ToSet(L)) /\ Extends(z.tables, y.tables) /\ Holds(y.tables, L[j])
        BY <3>2 DEF UniformKept
      <4>2. /\ x.ok /\ Extends(x.tables, z.tables)
            /\ \A m \in 1..(j - 1) : L[m].class = class => Holds(z.tables, L[m])
        BY <2>2, <4>1 DEF CollectorKept
      <4>3. Extends(x.tables, y.tables) BY <4>1, <4>2, ExtendsTrans
      <4>4. ASSUME NEW m \in 1..j, L[m].class = class PROVE Holds(y.tables, L[m])
        <5>1. CASE m = j BY <4>1, <5>1
        <5>2. CASE m \in 1..(j - 1)
          <6>1. L[m] \in UniformDeclaration BY <1>1
          <6>2. Holds(z.tables, L[m]) BY <4>2, <4>4, <5>2
          <6> QED BY <4>1, <6>1, <6>2, HoldsLonger
        <5> QED BY <1>1, <5>1, <5>2
      <4> QED BY <4>1, <4>2, <4>3, <4>4
    <3>4. s[j] = y BY <2>3, <2>5 DEF y
    <3> QED BY <2>1, <3>3, <3>4
  <2> QED BY <2>4, <2>5
<1> HIDE DEF T
<1>5. \A j \in 0..n : j \in T BY <1>1, <1>3, <1>4, UpTo
<1>6. n \in T /\ n \in 0..n BY <1>1, <1>5
<1>7. s[n] \in Collection /\ CollectorKept(x, s[n], L, class, n) BY <1>6 DEF T
<1> QED BY <1>2, <1>7 DEF n

(* The members of two lists, one after the other.                           *)
LEMMA ConcatMembers ==
  ASSUME NEW S, NEW v \in Seq(S), NEW w \in Seq(S)
  PROVE  /\ v \o w \in Seq(S) /\ ToSet(v \o w) = ToSet(v) \cup ToSet(w)
         /\ IsFiniteSet(ToSet(v)) /\ ToSet(v) \in SUBSET S
         /\ IsFiniteSet(ToSet(w)) /\ ToSet(w) \in SUBSET S
<1> DEFINE L == v \o w
<1> DEFINE m == Len(v)
<1> DEFINE n == Len(w)
<1>1. m \in Nat /\ n \in Nat /\ DOMAIN v = 1..m /\ DOMAIN w = 1..n OBVIOUS
<1>2. L \in Seq(S) /\ Len(L) = m + n /\ DOMAIN L = 1..(m + n) OBVIOUS
<1>3. \A k \in 1..(m + n) : L[k] = IF k <= m THEN v[k] ELSE w[k - m] OBVIOUS
<1>4. /\ \A k \in 1..m : k \in 1..(m + n) /\ k <= m
      /\ \A k \in 1..n : m + k \in 1..(m + n) /\ ~ (m + k <= m) /\ (m + k) - m = k
      /\ \A k \in 1..(m + n) : k <= m => k \in 1..m
      /\ \A k \in 1..(m + n) : ~ (k <= m) => k - m \in 1..n
  BY <1>1
<1> HIDE DEF L, m, n
<1>5. /\ \A d : d \in ToSet(L) <=> \E k \in 1..(m + n) : L[k] = d
      /\ \A d : d \in ToSet(v) <=> \E k \in 1..m : v[k] = d
      /\ \A d : d \in ToSet(w) <=> \E k \in 1..n : w[k] = d
  BY <1>1, <1>2 DEF ToSet
<1>6. ASSUME NEW d \in ToSet(L) PROVE d \in ToSet(v) \cup ToSet(w)
  <2>1. PICK k \in 1..(m + n) : L[k] = d BY <1>5
  <2>2. CASE k <= m
    <3>1. v[k] = d /\ k \in 1..m BY <1>3, <1>4, <2>1, <2>2
    <3> QED BY <1>5, <3>1
  <2>3. CASE ~ (k <= m)
    <3>1. w[k - m] = d /\ k - m \in 1..n BY <1>3, <1>4, <2>1, <2>3
    <3> QED BY <1>5, <3>1
  <2> QED BY <2>2, <2>3
<1>7. ASSUME NEW d \in ToSet(v) PROVE d \in ToSet(L)
  <2>1. PICK k \in 1..m : v[k] = d BY <1>5
  <2>2. L[k] = d /\ k \in 1..(m + n) BY <1>3, <1>4, <2>1
  <2> QED BY <1>5, <2>2
<1>8. ASSUME NEW d \in ToSet(w) PROVE d \in ToSet(L)
  <2>1. PICK k \in 1..n : w[k] = d BY <1>5
  <2>2. L[m + k] = d /\ m + k \in 1..(m + n) BY <1>3, <1>4, <2>1
  <2> QED BY <1>5, <2>2
<1>9. ToSet(L) = ToSet(v) \cup ToSet(w) BY <1>6, <1>7, <1>8
<1>10. IsFiniteSet(1..m) /\ IsFiniteSet(1..n) BY <1>1, FS_Interval
<1>11. ToSet(v) = {v[k] : k \in 1..m} /\ ToSet(w) = {w[k] : k \in 1..n} BY <1>1 DEF ToSet
<1>12. IsFiniteSet(ToSet(v)) /\ IsFiniteSet(ToSet(w)) BY <1>1, <1>10, <1>11, FiniteRange
<1>13. ToSet(v) \in SUBSET S /\ ToSet(w) \in SUBSET S
  <2>1. \A k \in 1..m : v[k] \in S BY <1>1
  <2>2. \A k \in 1..n : w[k] \in S BY <1>1
  <2> QED BY <2>1, <2>2, <1>11
<1> QED BY <1>2, <1>9, <1>12, <1>13 DEF L

(* What all collectors together make of two shaders: a table for every      *)
(* type with all that is declared of it, every name once, within limits;    *)
(* and they succeed if everything fits.                                     *)
LEMMA DeclarationsFacts ==
  ASSUME NEW i, WellFormed(i)
  PROVE  /\ i.vertex \o i.fragment \in Seq(UniformDeclaration)
         /\ ToSet(i.vertex \o i.fragment) = Declarations(i)
         /\ Declarations(i) \in SUBSET UniformDeclaration /\ IsFiniteSet(Declarations(i))
<1>1. i.vertex \in Seq(UniformDeclaration) /\ i.fragment \in Seq(UniformDeclaration) BY DEF WellFormed
<1>2. /\ i.vertex \o i.fragment \in Seq(UniformDeclaration)
      /\ ToSet(i.vertex \o i.fragment) = ToSet(i.vertex) \cup ToSet(i.fragment)
      /\ IsFiniteSet(ToSet(i.vertex)) /\ ToSet(i.vertex) \in SUBSET UniformDeclaration
      /\ IsFiniteSet(ToSet(i.fragment)) /\ ToSet(i.fragment) \in SUBSET UniformDeclaration
  BY <1>1, ConcatMembers
<1>3. IsFiniteSet(ToSet(i.vertex) \cup ToSet(i.fragment)) BY <1>2, FS_Union
<1> QED BY <1>2, <1>3 DEF Declarations

LEMMA EveryClassCollected ==
  /\ Len(CollectionOrder) = 16
  /\ \A c \in Classes : \E q \in 1..16 : CollectionOrder[q] = c
<1>1. Len(CollectionOrder) = 16 BY DEF CollectionOrder
<1>2. /\ CollectionOrder[1] = "sampler" /\ CollectionOrder[2] = "float"
      /\ CollectionOrder[3] = "vec2" /\ CollectionOrder[4] = "vec3"
      /\ CollectionOrder[5] = "vec4" /\ CollectionOrder[6] = "mat4"
      /\ CollectionOrder[7] = "mat2" /\ CollectionOrder[8] = "mat3"
      /\ CollectionOrder[9] = "int" /\ CollectionOrder[10] = "bool"
      /\ CollectionOrder[11] = "bvec2" /\ CollectionOrder[12] = "bvec3"
      /\ CollectionOrder[13] = "bvec4" /\ CollectionOrder[14] = "ivec2"
      /\ CollectionOrder[15] = "ivec3" /\ CollectionOrder[16] = "ivec4"
  BY DEF CollectionOrder
<1>3. Classes \subseteq {"sampler", "float", "vec2", "vec3", "vec4", "mat4", "mat2", "mat3",
                         "int", "ivec2", "ivec3", "ivec4", "bool", "bvec2", "bvec3", "bvec4"}
  <2> SUFFICES ASSUME NEW k \in DOMAIN LocationOrder
               PROVE  LocationOrder[k] \in
                        {"sampler", "float", "vec2", "vec3", "vec4", "mat4", "mat2", "mat3",
                         "int", "ivec2", "ivec3", "ivec4", "bool", "bvec2", "bvec3", "bvec4"}
    BY DEF Classes, ToSet
  <2>1. k \in 1..16 BY DEF LocationOrder
  <2> QED BY <2>1 DEF LocationOrder
<1>4. /\ 1 \in 1..16 /\ 2 \in 1..16 /\ 3 \in 1..16 /\ 4 \in 1..16 /\ 5 \in 1..16 /\ 6 \in 1..16
      /\ 7 \in 1..16 /\ 8 \in 1..16 /\ 9 \in 1..16 /\ 10 \in 1..16 /\ 11 \in 1..16 /\ 12 \in 1..16
      /\ 13 \in 1..16 /\ 14 \in 1..16 /\ 15 \in 1..16 /\ 16 \in 1..16
  OBVIOUS
<1>5. ASSUME NEW c \in Classes PROVE \E q \in 1..16 : CollectionOrder[q] = c
  BY <1>2, <1>3, <1>4
<1> QED BY <1>1, <1>5

AllCollected(tables, declared) ==
    Kept(tables, declared) /\ \A d \in declared : Holds(tables, d)

(* After the types of the first r collectors.                               *)
CollectorsKept(z, L, r) ==
    /\ z.ok => /\ Kept(z.tables, ToSet(L))
               /\ \A q \in 1..r : \A m \in 1..Len(L) :
                     L[m].class = CollectionOrder[q] => Holds(z.tables, L[m])
    /\ Fits(ToSet(L)) => z.ok

LEMMA CollectedKept ==
  ASSUME NEW i, WellFormed(i)
  PROVE  /\ Collected(i) \in Collection
         /\ Collected(i).ok => AllCollected(Collected(i).tables, Declarations(i))
         /\ Fits(Declarations(i)) => Collected(i).ok
<1> DEFINE n == Len(CollectionOrder)
<1> DEFINE L == i.vertex \o i.fragment
<1>1. /\ L \in Seq(UniformDeclaration) /\ ToSet(L) = Declarations(i)
      /\ ToSet(L) \in SUBSET UniformDeclaration
  BY DeclarationsFacts
<1>2. PICK s \in [0..n -> Collection] :
         /\ s[0] = [ok |-> SamplersMatch(i), tables |-> NoUniforms] /\ Collected(i) = s[n]
         /\ \A r \in 1..n : s[r] = Collecting(s[r - 1], L, CollectionOrder[r])
  BY CollectedRounds
<1>3. n \in Nat /\ n = 16 BY EveryClassCollected
<1> HIDE DEF n, L
<1> DEFINE T == {r \in 0..n : CollectorsKept(s[r], L, r)}
<1>4. 0 \in T
  <2>1. s[0].tables = NoUniforms /\ s[0].ok = SamplersMatch(i) BY <1>2
  <2>2. \A c \in Classes : DOMAIN NoUniforms[c] = {} /\ Len(NoUniforms[c]) = 0 BY DEF NoUniforms
  <2>3. \A c \in Classes : Limit(c) \in Nat BY InterfacesAssumption DEF Limit
  <2>4. NamesApart(NoUniforms) /\ AllDeclared(NoUniforms, ToSet(L)) BY <2>2 DEF NamesApart, AllDeclared
  <2>5. WithinLimits(NoUniforms) BY <2>2, <2>3 DEF WithinLimits
  <2>6. \A d \in ToSet(L) : AbsentFrom(NoUniforms, d) BY <2>2 DEF AbsentFrom
  <2>7. Kept(NoUniforms, ToSet(L)) BY <2>4, <2>5, <2>6 DEF Kept, Sound
  <2>8. ASSUME Fits(ToSet(L)) PROVE SamplersMatch(i)
    <3> SUFFICES ASSUME NEW d \in ToSet(i.vertex), NEW e \in ToSet(i.fragment), d.base = e.base
                 PROVE  d.size = e.size /\ d.target = e.target
      BY DEF SamplersMatch
    <3>1. d \in ToSet(L) /\ e \in ToSet(L) BY <1>1 DEF Declarations
    <3>2. d = e BY <2>8, <3>1 DEF Fits
    <3> QED BY <3>2
  <2>9. CollectorsKept(s[0], L, 0) BY <2>1, <2>7, <2>8 DEF CollectorsKept
  <2> QED BY <1>3, <2>9
<1>5. ASSUME NEW r \in 1..n, r - 1 \in T PROVE r \in T
  <2> DEFINE z == s[r - 1]
  <2> DEFINE class == CollectionOrder[r]
  <2> DEFINE y == Collecting(z, L, class)
  <2>1. r - 1 \in 0..n /\ r \in 0..n BY <1>3
  <2>2. z \in Collection /\ CollectorsKept(z, L, r - 1) BY <1>5, <2>1
  <2>3. s[r] = y BY <1>2
  <2> HIDE DEF z
  <2>4. z.ok => Kept(z.tables, ToSet(L)) BY <2>2 DEF CollectorsKept
  <2>5. CollectorKept(z, y, L, class, Len(L)) BY <1>1, <2>2, <2>4, CollectorKeeps
  <2> HIDE DEF y, class
  <2>6. CollectorsKept(y, L, r)
    <3>1. Fits(ToSet(L)) => y.ok BY <2>2, <2>5 DEF CollectorsKept, CollectorKept
    <3>2. ASSUME y.ok
          PROVE  /\ Kept(y.tables, ToSet(L))
                 /\ \A q \in 1..r : \A m \in 1..Len(L) :
                       L[m].class = CollectionOrder[q] => Holds(y.tables, L[m])
      <4>1. /\ z.ok /\ Kept(y.tables, ToSet(L)) /\ Extends(z.tables, y.tables)
            /\ \A m \in 1..Len(L) : L[m].class = class => Holds(y.tables, L[m])
        BY <2>5, <3>2 DEF CollectorKept
      <4>2. \A q \in 1..(r - 1) : \A m \in 1..Len(L) :
               L[m].class = CollectionOrder[q] => Holds(z.tables, L[m])
        BY <2>2, <4>1 DEF CollectorsKept
      <4>3. ASSUME NEW q \in 1..r, NEW m \in 1..Len(L), L[m].class = CollectionOrder[q]
            PROVE  Holds(y.tables, L[m])
        <5>1. CASE q = r BY <4>1, <4>3, <5>1 DEF class
        <5>2. CASE q \in 1..(r - 1)
          <6>1. Holds(z.tables, L[m]) BY <4>2, <4>3, <5>2
          <6>2. L[m] \in UniformDeclaration BY <1>1
          <6> QED BY <4>1, <6>1, <6>2, HoldsLonger
        <5> QED BY <1>3, <5>1, <5>2
      <4> QED BY <4>1, <4>3
    <3> QED BY <3>1, <3>2 DEF CollectorsKept
  <2> QED BY <2>1, <2>3, <2>6
<1> HIDE DEF T
<1>6. \A r \in 0..n : r \in T BY <1>3, <1>4, <1>5, UpTo
<1>7. n \in T /\ n \in 0..n BY <1>3, <1>6
<1>8. s[n] \in Collection /\ CollectorsKept(s[n], L, n) BY <1>7 DEF T
<1>9. ASSUME s[n].ok, NEW d \in ToSet(L) PROVE Holds(s[n].tables, d)
  <2>1. PICK m \in 1..Len(L) : d = L[m] BY <1>1 DEF ToSet
  <2>2. d.class \in Classes BY <1>1, ElementsFacts
  <2>3. PICK q \in 1..n : CollectionOrder[q] = d.class BY <1>3, <2>2, EveryClassCollected
  <2> QED BY <1>8, <1>9, <2>1, <2>3 DEF CollectorsKept
<1>10. s[n].ok => AllCollected(s[n].tables, ToSet(L)) BY <1>8, <1>9 DEF AllCollected, CollectorsKept
<1>11. Fits(ToSet(L)) => s[n].ok BY <1>8 DEF CollectorsKept
<1> QED BY <1>1, <1>2, <1>8, <1>10, <1>11

LEMMA CompatibleFits ==
  ASSUME NEW i, WellFormed(i), Compatible(i)
  PROVE  Fits(Declarations(i))
<1>1. IsFiniteSet(Declarations(i)) BY DeclarationsFacts
<1>2. \A c \in Classes :
         ElementsOf(Declarations(i), c) =
            UNION {Names(Elements(d)) : d \in {e \in Declarations(i) : e.class = c}}
  BY DEF ElementsOf
<1> QED BY <1>1, <1>2 DEF Fits, Compatible

-----------------------------------------------------------------------------
(* Widths add up.                                                           *)

WidthOf(list) == [k \in 1..Len(list) |-> list[k].width]

(* s counts the components of the first entries of a list.                  *)
SumsOf(list, s) ==
    /\ s \in [0..Len(list) -> Int] /\ s[0] = 0
    /\ \A k \in 1..Len(list) : s[k] = s[k - 1] + list[k].width
    /\ \A k \in 0..Len(list) : WidthsOf(list, k) = s[k]
    /\ \A k, n \in 0..Len(list) : k <= n => s[k] <= s[n]

HasWidths(list) ==
    /\ Len(list) \in Nat /\ DOMAIN list = 1..Len(list)
    /\ \A k \in 1..Len(list) : list[k].width \in Nat \ {0}

LEMMA WidthSums ==
  ASSUME NEW list, HasWidths(list)
  PROVE  \E s : SumsOf(list, s)
<1> DEFINE n == Len(list)
<1> DEFINE f == WidthOf(list)
<1>1. n \in Nat /\ f \in [1..n -> Nat] /\ \A k \in 1..n : f[k] = list[k].width
  BY DEF HasWidths, WidthOf
<1>2. f \in [1..n -> Int] BY <1>1
<1> HIDE DEF n, f
<1>3. PICK s : PrefixOf(s, f, n) BY <1>1, <1>2, PrefixExists
<1>4. /\ s \in [0..n -> Int] /\ s[0] = 0
      /\ \A k \in 1..n : s[k] = s[k - 1] + f[k]
  BY <1>3 DEF PrefixOf
<1>5. ASSUME NEW m \in 0..n PROVE WidthsOf(list, m) = s[m]
  <2> DEFINE g == [k \in 1..m |-> list[k].width]
  <2> DEFINE t == [k \in 0..m |-> s[k]]
  <2>1. m \in Nat /\ \A k \in 1..m : k \in 1..n BY <1>1
  <2>2. \A k \in 1..m : g[k] = f[k] BY <1>1, <2>1
  <2>3. g \in [1..m -> Int] BY <1>1, <2>1
  <2>4. \A k \in 0..m : k \in 0..n BY <1>1
  <2>5. t \in [0..m -> Int] /\ t[0] = 0
    <3>1. 0 \in 0..m BY <2>1
    <3> QED BY <1>4, <2>4, <3>1
  <2>6. ASSUME NEW k \in 1..m PROVE t[k] = t[k - 1] + g[k]
    <3>1. k \in 0..m /\ k - 1 \in 0..m BY <2>1
    <3>2. s[k] = s[k - 1] + f[k] BY <1>4, <2>1
    <3> QED BY <2>2, <3>1, <3>2
  <2> HIDE DEF g, t
  <2>7. PrefixOf(t, g, m) BY <2>5, <2>6 DEF PrefixOf
  <2>8. Total(g, m) = t[m] BY <2>1, <2>3, <2>7, TotalPrefix
  <2>9. m \in 0..m BY <2>1
  <2>10. t[m] = s[m] BY <2>9 DEF t
  <2> QED BY <2>8, <2>10 DEF WidthsOf, g
<1>6. ASSUME NEW k \in 0..n, NEW m \in 0..n, k <= m PROVE s[k] <= s[m]
  <2> DEFINE T == {j \in 0..n : k <= j => s[k] <= s[j]}
  <2>1. 0 \in T
    <3>1. k <= 0 => k = 0 BY <1>1
    <3>2. s[0] \in Int BY <1>1, <1>4
    <3> QED BY <1>1, <3>1, <3>2
  <2>2. ASSUME NEW j \in 1..n, j - 1 \in T PROVE j \in T
    <3>1. j - 1 \in 0..n /\ j \in 0..n BY <1>1
    <3>2. s[j] = s[j - 1] + f[j] /\ f[j] \in Nat BY <1>1, <1>4
    <3>3. s[j] \in Int /\ s[j - 1] \in Int /\ s[k] \in Int BY <1>4, <3>1
    <3>4. CASE k <= j - 1
      <4>1. s[k] <= s[j - 1] BY <2>2, <3>4
      <4> QED BY <3>1, <3>2, <3>3, <4>1
    <3>5. CASE k = j BY <3>1, <3>3, <3>5
    <3>6. CASE ~ (k <= j) BY <3>1, <3>6
    <3> QED BY <1>1, <3>4, <3>5, <3>6
  <2> HIDE DEF T
  <2>3. \A j \in 0..n : j \in T BY <1>1, <2>1, <2>2, UpTo
  <2>4. m \in T BY <2>3
  <2> QED BY <1>6, <2>4 DEF T
<1> QED BY <1>1, <1>4, <1>5, <1>6 DEF SumsOf, n

LEMMA WellFormedWidths ==
  ASSUME NEW i, WellFormed(i)
  PROVE  HasWidths(i.attributes) /\ HasWidths(i.outputs) /\ HasWidths(i.inputs)
<1>1. /\ i.attributes \in Seq(AttributeDeclaration)
      /\ i.outputs \in Seq(VaryingDeclaration) /\ i.inputs \in Seq(VaryingDeclaration)
  BY DEF WellFormed
<1>2. \A d \in AttributeDeclaration : d.width \in Nat \ {0}
  <2>1. \A w \in 1..4 : w \in Nat \ {0} OBVIOUS
  <2> QED BY <2>1 DEF AttributeDeclaration
<1>3. \A d \in VaryingDeclaration : d.width \in Nat \ {0} BY DEF VaryingDeclaration
<1>4. ASSUME NEW S, \A d \in S : d.width \in Nat \ {0}, NEW list \in Seq(S) PROVE HasWidths(list)
  <2>1. Len(list) \in Nat /\ DOMAIN list = 1..Len(list) /\ \A k \in 1..Len(list) : list[k] \in S
    OBVIOUS
  <2> QED BY <1>4, <2>1 DEF HasWidths
<1> QED BY <1>1, <1>2, <1>3, <1>4

(* Entries of one list that are entries of another list, each of another    *)
(* one, are no wider than it.                                               *)
Placing(place, inputs, outputs) ==
    /\ \A f \in 1..Len(inputs) : /\ place[f] \in 1..Len(outputs)
                                 /\ outputs[place[f]].width = inputs[f].width
    /\ \A f, g \in 1..Len(inputs) : place[f] = place[g] => f = g

LEMMA NarrowerList ==
  ASSUME NEW inputs, HasWidths(inputs), NEW outputs, HasWidths(outputs),
         NEW place, Placing(place, inputs, outputs)
  PROVE  Widths(inputs) <= Widths(outputs)
<1> DEFINE m == Len(inputs)
<1> DEFINE n == Len(outputs)
<1>1. m \in Nat /\ n \in Nat BY DEF HasWidths
<1>2. PICK s : SumsOf(inputs, s) BY WidthSums
<1>3. /\ s \in [0..m -> Int] /\ s[0] = 0 /\ Widths(inputs) = s[m]
      /\ \A k \in 1..m : s[k] = s[k - 1] + inputs[k].width
  <2>1. m \in 0..m BY <1>1
  <2> QED BY <1>2, <2>1 DEF SumsOf, Widths
<1> DEFINE f == [k \in 1..n |-> outputs[k].width]
<1>4. Widths(outputs) = Total(f, n) BY DEF Widths, WidthsOf
<1>5. f \in [1..n -> Nat] /\ f \in [1..n -> Int] BY <1>1 DEF HasWidths
<1>6. \A k \in 1..m : /\ place[k] \in 1..n /\ f[place[k]] = inputs[k].width
                      /\ inputs[k].width \in Nat
  BY DEF Placing, HasWidths
<1>7. \A k, l \in 1..m : place[k] = place[l] => k = l BY DEF Placing
<1> HIDE DEF m, n, f
(* The list without the first k entries that are taken from it.             *)
<1> DEFINE Without(g, k) ==
       /\ g \in [1..n -> Nat] /\ Total(g, n) = Total(f, n) - s[k]
       /\ \A l \in 1..m : l > k => g[place[l]] = f[place[l]]
<1> DEFINE T == {k \in 0..m : \E g : Without(g, k)}
<1>8. Total(f, n) \in Int BY <1>1, <1>5, TotalNat
<1>9. 0 \in T
  <2>1. Total(f, n) = Total(f, n) - s[0] BY <1>3, <1>8
  <2>2. Without(f, 0) BY <1>5, <2>1
  <2>3. 0 \in 0..m BY <1>1
  <2> QED BY <2>2, <2>3
<1>10. ASSUME NEW k \in 1..m, k - 1 \in T PROVE k \in T
  <2>1. k - 1 \in 0..m /\ k \in 0..m BY <1>1
  <2>2. PICK g : Without(g, k - 1) BY <1>10
  <2>3. g \in [1..n -> Int] /\ place[k] \in 1..n /\ 0 \in Int BY <1>6, <2>2
  <2> DEFINE h == [g EXCEPT ![place[k]] = 0]
  <2>4. Total(h, n) = Total(g, n) - g[place[k]] + 0 BY <1>1, <2>3, TotalUpdate
  <2>5. k > k - 1 BY <2>1
  <2>6. g[place[k]] = f[place[k]] BY <2>2, <2>5
  <2>7. g[place[k]] = inputs[k].width BY <1>6, <2>6
  <2>8. Total(h, n) = Total(f, n) - s[k]
    <3>1. s[k] = s[k - 1] + inputs[k].width /\ s[k - 1] \in Int BY <1>3, <2>1
    <3>2. Total(g, n) = Total(f, n) - s[k - 1] BY <2>2
    <3>3. inputs[k].width \in Int BY <1>6
    <3> HIDE DEF h
    <3> QED BY <1>8, <2>4, <2>7, <3>1, <3>2, <3>3
  <2>9. h \in [1..n -> Nat] BY <2>2, <2>3
  <2>10. ASSUME NEW l \in 1..m, l > k PROVE h[place[l]] = f[place[l]]
    <3>1. l # k /\ l > k - 1 BY <2>1, <2>10
    <3>2. place[l] # place[k] BY <1>7, <3>1
    <3>3. place[l] \in 1..n BY <1>6
    <3> QED BY <2>2, <2>3, <3>1, <3>2, <3>3
  <2> HIDE DEF h
  <2>11. Without(h, k) BY <2>8, <2>9, <2>10
  <2> HIDE DEF Without
  <2>12. \E w : Without(w, k) BY <2>11
  <2> QED BY <2>1, <2>12
<1> HIDE DEF T
<1>11. \A k \in 0..m : k \in T BY <1>1, <1>9, <1>10, UpTo
<1>12. m \in T /\ m \in 0..m BY <1>1, <1>11
<1>13. PICK g : Without(g, m) BY <1>12 DEF T
<1>14. Total(g, n) \in Nat BY <1>1, <1>13, TotalNat
<1>15. s[m] \in Int BY <1>3, <1>12
<1>16. Total(f, n) - s[m] \in Nat BY <1>13, <1>14
<1>17. s[m] <= Total(f, n) BY <1>8, <1>15, <1>16
<1> QED BY <1>3, <1>4, <1>17

-----------------------------------------------------------------------------
(* Varyings: every input is given a part of its own in either stage.        *)

VaryingFacts(i, s, t) ==
    \A f \in DOMAIN i.inputs : \E v \in DOMAIN i.outputs :
        /\ i.outputs[v].name = i.inputs[f].name
        /\ Placed(i)[f] = [vertex |-> 4 + s[v - 1], fragment |-> t[f - 1]]
        /\ s[v - 1] \in Nat /\ t[f - 1] \in Nat
        /\ \A w \in DOMAIN i.outputs : i.outputs[w].name = i.inputs[f].name => w = v

(* Where an input is placed, if the vertex shader has an output of its name. *)
LEMMA PlacedAt ==
  ASSUME NEW i, WellFormed(i), NEW s, SumsOf(i.outputs, s), NEW t, SumsOf(i.inputs, t),
         \A f \in DOMAIN i.inputs : Output(i, i.inputs[f]) # {}
  PROVE  VaryingFacts(i, s, t)
<1>1. HasWidths(i.outputs) /\ HasWidths(i.inputs) BY WellFormedWidths
<1>2. NamedOnce(i.outputs) BY DEF WellFormed
<1> SUFFICES ASSUME NEW f \in DOMAIN i.inputs
             PROVE  \E v \in DOMAIN i.outputs :
                      /\ i.outputs[v].name = i.inputs[f].name
                      /\ Placed(i)[f] = [vertex |-> 4 + s[v - 1], fragment |-> t[f - 1]]
                      /\ s[v - 1] \in Nat /\ t[f - 1] \in Nat
                      /\ \A w \in DOMAIN i.outputs : i.outputs[w].name = i.inputs[f].name => w = v
  BY DEF VaryingFacts
<1>3. PICK v \in DOMAIN i.outputs : i.outputs[v].name = i.inputs[f].name BY DEF Output
<1>4. \A w \in DOMAIN i.outputs : i.outputs[w].name = i.inputs[f].name => w = v
  BY <1>2, <1>3 DEF NamedOnce
<1>5. Output(i, i.inputs[f]) = {v} BY <1>3, <1>4 DEF Output
<1>6. (CHOOSE w \in Output(i, i.inputs[f]) : TRUE) = v BY <1>5
<1>7. Placed(i)[f] = [vertex |-> 4 + WidthsOf(i.outputs, v - 1),
                      fragment |-> WidthsOf(i.inputs, f - 1)]
  BY <1>6 DEF Placed
<1>8. v - 1 \in 0..Len(i.outputs) /\ f - 1 \in 0..Len(i.inputs) BY <1>1 DEF HasWidths
<1>9. WidthsOf(i.outputs, v - 1) = s[v - 1] /\ WidthsOf(i.inputs, f - 1) = t[f - 1]
  BY <1>8 DEF SumsOf
<1>10. s[v - 1] \in Nat
  <2>1. 0 \in 0..Len(i.outputs) /\ 0 <= v - 1 BY <1>1, <1>8 DEF HasWidths
  <2>2. s[0] = 0 /\ s[v - 1] \in Int /\ s[0] <= s[v - 1] BY <1>8, <2>1 DEF SumsOf
  <2> QED BY <2>2
<1>11. t[f - 1] \in Nat
  <2>1. 0 \in 0..Len(i.inputs) /\ 0 <= f - 1 BY <1>1, <1>8 DEF HasWidths
  <2>2. t[0] = 0 /\ t[f - 1] \in Int /\ t[0] <= t[f - 1] BY <1>8, <2>1 DEF SumsOf
  <2> QED BY <2>2
<1> QED BY <1>3, <1>4, <1>7, <1>9, <1>10, <1>11

LEMMA SpanWithin ==
  ASSUME NEW a \in Int, NEW w \in Int, NEW low \in Int, NEW high \in Int,
         low <= a, a + w <= high + 1
  PROVE  (a..(a + w - 1)) \subseteq low..high
OBVIOUS

LEMMA SpansApart ==
  ASSUME NEW a \in Int, NEW w \in Int, NEW b \in Int, NEW x \in Int, a + w <= b
  PROVE  /\ (a..(a + w - 1)) \cap (b..(b + x - 1)) = {}
         /\ (b..(b + x - 1)) \cap (a..(a + w - 1)) = {}
OBVIOUS

(* Parts of a list of widths do not overlap.                                *)
LEMMA PartsApart ==
  ASSUME NEW list, HasWidths(list), NEW s, SumsOf(list, s), NEW offset \in Int,
         NEW v \in DOMAIN list, NEW w \in DOMAIN list, v # w
  PROVE  ((offset + s[v - 1])..(offset + s[v - 1] + list[v].width - 1))
            \cap ((offset + s[w - 1])..(offset + s[w - 1] + list[w].width - 1)) = {}
<1>1. /\ v \in 1..Len(list) /\ w \in 1..Len(list) /\ Len(list) \in Nat
      /\ list[v].width \in Nat /\ list[w].width \in Nat
  BY DEF HasWidths
<1>2. v - 1 \in 0..Len(list) /\ w - 1 \in 0..Len(list) /\ v \in 0..Len(list) /\ w \in 0..Len(list)
  BY <1>1
<1>3. /\ s[v - 1] \in Int /\ s[w - 1] \in Int /\ s[v] \in Int /\ s[w] \in Int
      /\ s[v] = s[v - 1] + list[v].width /\ s[w] = s[w - 1] + list[w].width
  BY <1>1, <1>2 DEF SumsOf
<1>4. v < w => s[v] <= s[w - 1]
  <2>1. v < w => v <= w - 1 BY <1>1
  <2> QED BY <1>2, <2>1 DEF SumsOf
<1>5. w < v => s[w] <= s[v - 1]
  <2>1. w < v => w <= v - 1 BY <1>1
  <2> QED BY <1>2, <2>1 DEF SumsOf
<1> DEFINE a == s[v - 1]
<1> DEFINE b == s[w - 1]
<1> DEFINE x == list[v].width
<1> DEFINE y == list[w].width
<1>6. a \in Int /\ b \in Int /\ x \in Int /\ y \in Int BY <1>1, <1>3
<1>7. a + x <= b \/ b + y <= a
  <2>1. v < w \/ w < v BY <1>1
  <2> QED BY <1>3, <1>4, <1>5, <2>1
<1> HIDE DEF a, b, x, y
<1>8. /\ offset + a \in Int /\ offset + b \in Int
      /\ (offset + a) + x <= offset + b \/ (offset + b) + y <= offset + a
  BY <1>6, <1>7
<1>9. ((offset + a)..((offset + a) + x - 1)) \cap ((offset + b)..((offset + b) + y - 1)) = {}
  BY <1>6, <1>8, SpansApart
<1> QED BY <1>9 DEF a, b, x, y

SpanOf(i, f, stage) == Placed(i)[f][stage]..(Placed(i)[f][stage] + i.inputs[f].width - 1)

(* Varyings that match are placed apart and within bounds.                  *)
LEMMA VaryingsPlaced ==
  ASSUME NEW i, WellFormed(i), VaryingsMatch(i)
  PROVE  /\ DOMAIN Placed(i) = DOMAIN i.inputs
         /\ \A f \in DOMAIN i.inputs :
              /\ SpanOf(i, f, "vertex") \subseteq 4..(MaxVaryings + 3)
              /\ SpanOf(i, f, "fragment") \subseteq 0..(MaxVaryings - 1)
              /\ \A g \in DOMAIN i.inputs \ {f}, s \in Stages : SpanOf(i, f, s) \cap SpanOf(i, g, s) = {}
<1>1. HasWidths(i.outputs) /\ HasWidths(i.inputs) BY WellFormedWidths
<1>2. PICK s : SumsOf(i.outputs, s) BY <1>1, WidthSums
<1>3. PICK t : SumsOf(i.inputs, t) BY <1>1, WidthSums
<1>4. \A f \in DOMAIN i.inputs : Output(i, i.inputs[f]) # {} BY DEF VaryingsMatch
<1>5. VaryingFacts(i, s, t) BY <1>2, <1>3, <1>4, PlacedAt
<1>6. MaxVaryings \in Nat BY InterfacesAssumption
<1>7. DOMAIN Placed(i) = DOMAIN i.inputs BY DEF Placed
<1>8. NamedOnce(i.inputs) BY DEF WellFormed
<1>9. ASSUME NEW f \in DOMAIN i.inputs
      PROVE  /\ SpanOf(i, f, "vertex") \subseteq 4..(MaxVaryings + 3)
             /\ SpanOf(i, f, "fragment") \subseteq 0..(MaxVaryings - 1)
             /\ \A g \in DOMAIN i.inputs \ {f}, r \in Stages : SpanOf(i, f, r) \cap SpanOf(i, g, r) = {}
  <2>1. PICK v \in DOMAIN i.outputs :
           /\ i.outputs[v].name = i.inputs[f].name
           /\ Placed(i)[f] = [vertex |-> 4 + s[v - 1], fragment |-> t[f - 1]]
           /\ s[v - 1] \in Nat /\ t[f - 1] \in Nat
           /\ \A w \in DOMAIN i.outputs : i.outputs[w].name = i.inputs[f].name => w = v
    BY <1>5 DEF VaryingFacts
  <2>2. PICK w \in Output(i, i.inputs[f]) : i.outputs[w] = i.inputs[f] BY DEF VaryingsMatch
  <2>3. w = v /\ i.outputs[v] = i.inputs[f] BY <2>1, <2>2 DEF Output
  <2>4. i.inputs[f].width \in Nat BY <1>1 DEF HasWidths
  <2>5. /\ Placed(i)[f].vertex = 4 + s[v - 1] /\ Placed(i)[f].fragment = t[f - 1]
        /\ Placed(i)[f]["vertex"] = 4 + s[v - 1] /\ Placed(i)[f]["fragment"] = t[f - 1]
    BY <2>1
  <2>6. /\ 4 + s[v - 1] + i.inputs[f].width <= MaxVaryings + 4
        /\ t[f - 1] + i.inputs[f].width <= MaxVaryings
    BY <2>5 DEF VaryingsMatch
  <2>7. SpanOf(i, f, "vertex") \subseteq 4..(MaxVaryings + 3)
    <3>1. SpanOf(i, f, "vertex") = (4 + s[v - 1])..(4 + s[v - 1] + i.inputs[f].width - 1)
      BY <2>5 DEF SpanOf
    <3>2. 4 + s[v - 1] \in Int /\ i.inputs[f].width \in Int /\ 4 <= 4 + s[v - 1] BY <2>1, <2>4
    <3>3. (4 + s[v - 1]) + i.inputs[f].width <= (MaxVaryings + 3) + 1 BY <1>6, <2>6, <3>2
    <3>4. 4 \in Int /\ MaxVaryings + 3 \in Int BY <1>6
    <3> QED BY <3>1, <3>2, <3>3, <3>4, SpanWithin
  <2>8. SpanOf(i, f, "fragment") \subseteq 0..(MaxVaryings - 1)
    <3>1. SpanOf(i, f, "fragment") = t[f - 1]..(t[f - 1] + i.inputs[f].width - 1)
      BY <2>5 DEF SpanOf
    <3>2. t[f - 1] \in Int /\ i.inputs[f].width \in Int /\ 0 <= t[f - 1] BY <2>1, <2>4
    <3>3. t[f - 1] + i.inputs[f].width <= (MaxVaryings - 1) + 1 BY <1>6, <2>6, <3>2
    <3>4. 0 \in Int /\ MaxVaryings - 1 \in Int BY <1>6
    <3> QED BY <3>1, <3>2, <3>3, <3>4, SpanWithin
  <2>9. ASSUME NEW g \in DOMAIN i.inputs \ {f}, NEW r \in Stages
        PROVE  SpanOf(i, f, r) \cap SpanOf(i, g, r) = {}
    <3>1. PICK x \in DOMAIN i.outputs :
             /\ i.outputs[x].name = i.inputs[g].name
             /\ Placed(i)[g] = [vertex |-> 4 + s[x - 1], fragment |-> t[g - 1]]
             /\ s[x - 1] \in Nat /\ t[g - 1] \in Nat
             /\ \A y \in DOMAIN i.outputs : i.outputs[y].name = i.inputs[g].name => y = x
      BY <1>5 DEF VaryingFacts
    <3>2. PICK y \in Output(i, i.inputs[g]) : i.outputs[y] = i.inputs[g] BY DEF VaryingsMatch
    <3>3. y = x /\ i.outputs[x] = i.inputs[g] BY <3>1, <3>2 DEF Output
    <3>4. i.inputs[f].name # i.inputs[g].name BY <1>8 DEF NamedOnce
    <3>5. v # x BY <2>1, <3>1, <3>4
    <3>6. CASE r = "vertex"
      <4>1. SpanOf(i, f, r) = (4 + s[v - 1])..(4 + s[v - 1] + i.outputs[v].width - 1)
        BY <2>3, <2>5, <3>6 DEF SpanOf
      <4>2. SpanOf(i, g, r) = (4 + s[x - 1])..(4 + s[x - 1] + i.outputs[x].width - 1)
        BY <3>1, <3>3, <3>6 DEF SpanOf
      <4> QED BY <1>1, <1>2, <3>5, <4>1, <4>2, PartsApart
    <3>7. CASE r = "fragment"
      <4>1. SpanOf(i, f, r) = (0 + t[f - 1])..(0 + t[f - 1] + i.inputs[f].width - 1)
        BY <2>1, <2>5, <3>7 DEF SpanOf
      <4>2. SpanOf(i, g, r) = (0 + t[g - 1])..(0 + t[g - 1] + i.inputs[g].width - 1)
        BY <3>1, <3>7 DEF SpanOf
      <4> QED BY <1>1, <1>3, <4>1, <4>2, PartsApart
    <3> QED BY <3>6, <3>7 DEF Stages
  <2> QED BY <2>7, <2>8, <2>9
<1> QED BY <1>7, <1>9

(* Inputs that are outputs, and outputs within the limit, match.            *)
LEMMA CompatibleVaryings ==
  ASSUME NEW i, WellFormed(i), ToSet(i.inputs) \subseteq ToSet(i.outputs),
         Widths(i.outputs) <= MaxVaryings
  PROVE  VaryingsMatch(i)
<1>1. HasWidths(i.outputs) /\ HasWidths(i.inputs) BY WellFormedWidths
<1>2. PICK s : SumsOf(i.outputs, s) BY <1>1, WidthSums
<1>3. PICK t : SumsOf(i.inputs, t) BY <1>1, WidthSums
<1>4. MaxVaryings \in Nat BY InterfacesAssumption
<1>5. NamedOnce(i.inputs) /\ NamedOnce(i.outputs) BY DEF WellFormed
<1>6. \A f \in DOMAIN i.inputs : \E v \in DOMAIN i.outputs : i.outputs[v] = i.inputs[f]
  <2> TAKE f \in DOMAIN i.inputs
  <2>1. i.inputs[f] \in ToSet(i.inputs) BY DEF ToSet
  <2>2. i.inputs[f] \in ToSet(i.outputs) BY <2>1
  <2> QED BY <2>2 DEF ToSet
<1>7. \A f \in DOMAIN i.inputs : Output(i, i.inputs[f]) # {}
  <2> TAKE f \in DOMAIN i.inputs
  <2>1. PICK v \in DOMAIN i.outputs : i.outputs[v] = i.inputs[f] BY <1>6
  <2>2. v \in Output(i, i.inputs[f]) BY <2>1 DEF Output
  <2> QED BY <2>2
<1>8. VaryingFacts(i, s, t) BY <1>2, <1>3, <1>7, PlacedAt
<1> DEFINE place == [f \in DOMAIN i.inputs |-> CHOOSE v \in DOMAIN i.outputs : i.outputs[v] = i.inputs[f]]
<1>9. \A f \in DOMAIN i.inputs : place[f] \in DOMAIN i.outputs /\ i.outputs[place[f]] = i.inputs[f]
  BY <1>6
<1> HIDE DEF place
<1>10. Placing(place, i.inputs, i.outputs)
  <2>1. DOMAIN i.inputs = 1..Len(i.inputs) /\ DOMAIN i.outputs = 1..Len(i.outputs)
    BY <1>1 DEF HasWidths
  <2>2. ASSUME NEW f \in 1..Len(i.inputs)
        PROVE  place[f] \in 1..Len(i.outputs) /\ i.outputs[place[f]].width = i.inputs[f].width
    BY <1>9, <2>1
  <2>3. ASSUME NEW f \in 1..Len(i.inputs), NEW g \in 1..Len(i.inputs), place[f] = place[g]
        PROVE  f = g
    <3>1. i.inputs[f] = i.inputs[g] BY <1>9, <2>1, <2>3
    <3> QED BY <1>5, <2>1, <3>1 DEF NamedOnce
  <2> QED BY <2>2, <2>3 DEF Placing
<1>11. Widths(i.inputs) <= Widths(i.outputs) BY <1>1, <1>10, NarrowerList
<1> DEFINE m == Len(i.inputs)
<1> DEFINE n == Len(i.outputs)
<1>12. m \in Nat /\ n \in Nat /\ DOMAIN i.inputs = 1..m /\ DOMAIN i.outputs = 1..n
  BY <1>1 DEF HasWidths
<1>13. Widths(i.outputs) = s[n] /\ Widths(i.inputs) = t[m] /\ s[n] \in Int /\ t[m] \in Int
  <2>1. m \in 0..m /\ n \in 0..n BY <1>12
  <2> QED BY <1>2, <1>3, <2>1 DEF Widths, SumsOf
<1>14. ASSUME NEW f \in DOMAIN i.inputs
       PROVE  /\ \E v \in Output(i, i.inputs[f]) : i.outputs[v] = i.inputs[f]
              /\ Placed(i)[f].vertex + i.inputs[f].width <= MaxVaryings + 4
              /\ Placed(i)[f].fragment + i.inputs[f].width <= MaxVaryings
  <2>1. PICK v \in DOMAIN i.outputs :
           /\ i.outputs[v].name = i.inputs[f].name
           /\ Placed(i)[f] = [vertex |-> 4 + s[v - 1], fragment |-> t[f - 1]]
           /\ s[v - 1] \in Nat /\ t[f - 1] \in Nat
           /\ \A w \in DOMAIN i.outputs : i.outputs[w].name = i.inputs[f].name => w = v
    BY <1>8 DEF VaryingFacts
  <2>2. i.outputs[v] = i.inputs[f] BY <1>9, <2>1
  <2>3. v \in Output(i, i.inputs[f]) BY <2>1 DEF Output
  <2>4. s[v] = s[v - 1] + i.inputs[f].width /\ t[f] = t[f - 1] + i.inputs[f].width
    BY <1>2, <1>3, <1>12, <2>2 DEF SumsOf
  <2>5. s[v] <= s[n] /\ t[f] <= t[m]
    <3>1. v \in 0..n /\ n \in 0..n /\ v <= n /\ f \in 0..m /\ m \in 0..m /\ f <= m BY <1>12
    <3> QED BY <1>2, <1>3, <3>1 DEF SumsOf
  <2>6. i.inputs[f].width \in Nat BY <1>1 DEF HasWidths
  <2>7. Placed(i)[f].vertex = 4 + s[v - 1] /\ Placed(i)[f].fragment = t[f - 1] BY <2>1
  <2> HIDE DEF m, n
  <2>8. 4 + s[v - 1] + i.inputs[f].width <= MaxVaryings + 4
    BY <1>4, <1>13, <2>1, <2>4, <2>5, <2>6
  <2>9. t[f - 1] + i.inputs[f].width <= MaxVaryings
    BY <1>4, <1>11, <1>13, <2>1, <2>4, <2>5, <2>6
  <2> QED BY <2>2, <2>3, <2>7, <2>8, <2>9
<1> QED BY <1>14 DEF VaryingsMatch

-----------------------------------------------------------------------------
(* Attributes.                                                              *)

(* A set of numbers has one with any given count of smaller ones.           *)
LEMMA Ranked ==
  ASSUME NEW M \in Nat, NEW F \in SUBSET (0..(M - 1)), NEW n \in Nat, n < Cardinality(F)
  PROVE  IsFiniteSet(F) /\ \E l \in F : Cardinality({m \in F : m < l}) = n
<1> DEFINE Below(x) == {m \in F : m < x}
<1>1. IsFiniteSet(F)
  <2>1. IsFiniteSet(0..(M - 1)) BY FS_Interval
  <2> QED BY <2>1, FS_Subset
<1>2. \A x : IsFiniteSet(Below(x)) /\ Cardinality(Below(x)) \in Nat
  BY <1>1, FS_Subset, FS_CardinalityType
<1>0. \A m \in F : m \in Int /\ 0 <= m /\ m < M OBVIOUS
<1> SUFFICES ASSUME \A l \in F : Cardinality(Below(l)) # n PROVE FALSE BY <1>1
<1> DEFINE T == {x \in 0..M : Cardinality(Below(x)) <= n}
<1>3. 0 \in T
  <2>0. \A m \in F : ~ (m < 0) BY <1>0
  <2>1. Below(0) = {} BY <2>0
  <2>2. Cardinality(Below(0)) = 0 BY <2>1, FS_EmptySet
  <2> QED BY <2>2
<1>4. ASSUME NEW x \in 1..M, x - 1 \in T PROVE x \in T
  <2>0. x \in 0..M /\ x - 1 \in 0..M /\ Cardinality(Below(x - 1)) <= n BY <1>4
  <2>1. CASE x - 1 \notin F
    <3>0. \A m \in F : m < x <=> m < x - 1 BY <1>0, <2>1
    <3>1. Below(x) = Below(x - 1) BY <3>0
    <3> QED BY <2>0, <3>1
  <2>2. CASE x - 1 \in F
    <3>0. \A m \in F : m < x <=> (m < x - 1 \/ m = x - 1) BY <1>0
    <3>1. Below(x) = Below(x - 1) \cup {x - 1} BY <2>2, <3>0
    <3>2. x - 1 \notin Below(x - 1) OBVIOUS
    <3>3. IsFiniteSet(Below(x - 1)) BY <1>2
    <3> DEFINE B == Below(x - 1)
    <3> DEFINE C == Below(x)
    <3>4. C = B \cup {x - 1} /\ x - 1 \notin B /\ IsFiniteSet(B) BY <3>1, <3>2, <3>3
    <3>5. Cardinality(B) # n /\ Cardinality(B) <= n /\ Cardinality(B) \in Nat BY <1>2, <2>0, <2>2
    <3> HIDE DEF B, C
    <3>6. Cardinality(C) = Cardinality(B) + 1 BY <3>4, FS_AddElement
    <3>7. Cardinality(C) <= n BY <3>5, <3>6
    <3> QED BY <2>0, <3>7 DEF C
  <2> QED BY <2>1, <2>2
<1> HIDE DEF T
<1>5. \A x \in 0..M : x \in T BY <1>3, <1>4, UpTo
<1>6. M \in T BY <1>5
<1>7. Below(M) = F BY <1>0
<1>8. Cardinality(F) <= n BY <1>6, <1>7 DEF T
<1> QED BY <1>1, <1>8, FS_CardinalityType

BindingsFine ==
    /\ bindings \in Seq([name : AttributeNames, location : 0..(MaxAttribs - 1)])
    /\ NamedOnce(bindings)

(* A name is bound to one location at most.                                 *)
LEMMA BoundOnce ==
  ASSUME BindingsFine, NEW name
  PROVE  /\ Bound(name) \subseteq 0..(MaxAttribs - 1)
         /\ \A l, m \in Bound(name) : l = m
         /\ \A l : l \in Bound(name) <=> \E k \in DOMAIN bindings : bindings[k].name = name
                                                                  /\ bindings[k].location = l
<1>1. \A l : l \in Bound(name) <=> \E k \in DOMAIN bindings : bindings[k].name = name
                                                             /\ bindings[k].location = l
  BY DEF Bound, ToSet
<1>2. \A k \in DOMAIN bindings : bindings[k].location \in 0..(MaxAttribs - 1)
  <2> DEFINE R == [name : AttributeNames, location : 0..(MaxAttribs - 1)]
  <2>1. bindings \in Seq(R) BY DEF BindingsFine
  <2> HIDE DEF R
  <2>2. \A k \in DOMAIN bindings : bindings[k] \in R BY <2>1
  <2> QED BY <2>2 DEF R
<1>3. ASSUME NEW l \in Bound(name), NEW m \in Bound(name) PROVE l = m
  <2>1. PICK j \in DOMAIN bindings : bindings[j].name = name /\ bindings[j].location = l BY <1>1
  <2>2. PICK k \in DOMAIN bindings : bindings[k].name = name /\ bindings[k].location = m BY <1>1
  <2>3. j = k BY <2>1, <2>2 DEF BindingsFine, NamedOnce
  <2> QED BY <2>1, <2>2, <2>3
<1> QED BY <1>1, <1>2, <1>3

(* There is a free location for every attribute that is not bound.          *)
LEMMA AssignedFacts ==
  ASSUME BindingsFine, NEW attributes \in Seq(AttributeDeclaration), AttributesFit(attributes)
  PROVE  /\ DOMAIN Assigned(attributes) = DOMAIN attributes
         /\ \A j \in DOMAIN attributes :
               /\ Assigned(attributes)[j] \in 0..(MaxAttribs - 1)
               /\ Bound(attributes[j].name) \subseteq {Assigned(attributes)[j]}
         /\ \A j, k \in DOMAIN attributes : j # k => Assigned(attributes)[j] # Assigned(attributes)[k]
<1> DEFINE n == Len(attributes)
<1> DEFINE B(j) == Bound(attributes[j].name)
<1> DEFINE Taken == UNION {Bound(a.name) : a \in ToSet(attributes)}
<1> DEFINE Remaining == (0..(MaxAttribs - 1)) \ Taken
<1> DEFINE Unbound(j) == {k \in 1..(j - 1) : B(k) = {}}
<1>1. MaxAttribs \in Nat BY InterfacesAssumption
<1>2. n \in Nat /\ DOMAIN attributes = 1..n /\ n <= MaxAttribs BY DEF AttributesFit
<1>3. \A j, k \in 1..n : j # k => B(j) \cap B(k) = {} BY <1>2 DEF AttributesFit
<1>4. /\ DOMAIN Assigned(attributes) = DOMAIN attributes
      /\ \A j \in 1..n : Assigned(attributes)[j] =
            IF B(j) # {} THEN CHOOSE location \in B(j) : TRUE
            ELSE CHOOSE location \in Remaining :
                    Cardinality({l \in Remaining : l < location}) = Cardinality(Unbound(j))
  BY <1>2 DEF Assigned
<1>5. \A l : l \in Taken <=> \E j \in 1..n : l \in B(j) BY <1>2 DEF ToSet
<1>6. \A j \in 1..n : B(j) \subseteq 0..(MaxAttribs - 1) /\ \A l, m \in B(j) : l = m
  BY BoundOnce
<1> HIDE DEF n, B
<1> DEFINE Has == {j \in 1..n : B(j) # {}}
<1> DEFINE Not == {j \in 1..n : B(j) = {}}
<1>7. IsFiniteSet(1..n) /\ Cardinality(1..n) = n BY <1>2, FS_Interval
<1>8. IsFiniteSet(Has) /\ IsFiniteSet(Not) /\ Cardinality(Has) + Cardinality(Not) = n
  <2>1. Has \cup Not = 1..n /\ Has \cap Not = {} OBVIOUS
  <2>2. IsFiniteSet(Has) /\ IsFiniteSet(Not) BY <1>7, FS_Subset
  <2> HIDE DEF Has, Not
  <2>3. Cardinality(Has \cup Not) = Cardinality(Has) + Cardinality(Not) - Cardinality(Has \cap Not)
    BY <2>2, FS_Union
  <2>4. Cardinality({}) = 0 BY FS_EmptySet
  <2>5. Cardinality(Has) \in Nat /\ Cardinality(Not) \in Nat BY <2>2, FS_CardinalityType
  <2>6. Cardinality(Has \cup Not) = n /\ Cardinality(Has \cap Not) = 0 BY <1>7, <2>1, <2>4
  <2>7. Cardinality(Has) + Cardinality(Not) = n BY <1>2, <2>3, <2>5, <2>6
  <2> QED BY <2>2, <2>7
<1>9. Taken \subseteq 0..(MaxAttribs - 1) BY <1>5, <1>6
<1>10. IsFiniteSet(Taken) /\ Cardinality(Taken) <= Cardinality(Has)
  <2> DEFINE f == [j \in Has |-> CHOOSE l \in B(j) : TRUE]
  <2>1. \A j \in Has : f[j] \in B(j) OBVIOUS
  <2>2. \A j \in Has : f[j] \in Taken BY <1>5, <2>1
  <2>3. \A l \in Taken : \E j \in Has : f[j] = l
    <3> TAKE l \in Taken
    <3>1. PICK j \in 1..n : l \in B(j) BY <1>5
    <3>2. j \in Has BY <3>1
    <3>3. f[j] = l BY <1>6, <2>1, <3>1, <3>2
    <3> QED BY <3>2, <3>3
  <2>4. f \in [Has -> Taken] BY <2>2
  <2>5. f \in Surjection(Has, Taken) BY <2>3, <2>4 DEF Surjection
  <2> QED BY <1>8, <2>5, FS_Surjection
<1>11. IsFiniteSet(Remaining) /\ Cardinality(Remaining) = MaxAttribs - Cardinality(Taken)
  <2>1. IsFiniteSet(0..(MaxAttribs - 1)) /\ Cardinality(0..(MaxAttribs - 1)) = MaxAttribs
    BY <1>1, FS_Interval
  <2>2. Taken \cap (0..(MaxAttribs - 1)) = Taken BY <1>9
  <2> DEFINE S == 0..(MaxAttribs - 1)
  <2>3. S \cap Taken = Taken BY <2>2
  <2> HIDE DEF Taken, S
  <2>4. /\ IsFiniteSet(S \ Taken)
        /\ Cardinality(S \ Taken) = Cardinality(S) - Cardinality(S \cap Taken)
    BY <2>1, FS_Difference DEF S
  <2> QED BY <2>1, <2>3, <2>4 DEF S
<1>12. ASSUME NEW j \in 1..n, B(j) = {}
       PROVE  /\ IsFiniteSet(Unbound(j)) /\ Cardinality(Unbound(j)) \in Nat
              /\ Cardinality(Unbound(j)) < Cardinality(Remaining)
              /\ \A k \in 1..n : B(k) = {} /\ k < j => Cardinality(Unbound(k)) < Cardinality(Unbound(j))
  <2>1. ASSUME NEW k \in 1..n, B(k) = {}, NEW S, IsFiniteSet(S), Unbound(k) \subseteq S, k \in S
        PROVE  /\ IsFiniteSet(Unbound(k)) /\ Cardinality(Unbound(k)) \in Nat
               /\ Cardinality(Unbound(k)) < Cardinality(S)
    <3> DEFINE U == Unbound(k)
    <3>1. IsFiniteSet(U) BY <2>1, FS_Subset
    <3>2. k \notin U /\ U \cup {k} \subseteq S BY <2>1
    <3> HIDE DEF U
    <3>3. Cardinality(U \cup {k}) = Cardinality(U) + 1 BY <3>1, <3>2, FS_AddElement
    <3>4. Cardinality(U \cup {k}) <= Cardinality(S) BY <2>1, <3>2, FS_Subset
    <3>5. Cardinality(U) \in Nat /\ Cardinality(S) \in Nat BY <2>1, <3>1, FS_CardinalityType
    <3>6. Cardinality(U) < Cardinality(S) BY <3>3, <3>4, <3>5
    <3> QED BY <3>1, <3>5, <3>6 DEF U
  <2>2. Unbound(j) \subseteq Not /\ j \in Not BY <1>2, <1>12
  <2>3. /\ IsFiniteSet(Unbound(j)) /\ Cardinality(Unbound(j)) \in Nat
        /\ Cardinality(Unbound(j)) < Cardinality(Not)
    BY <1>8, <1>12, <2>1, <2>2
  <2>4. ASSUME NEW k \in 1..n, B(k) = {}, k < j
        PROVE  Cardinality(Unbound(k)) < Cardinality(Unbound(j))
    <3>1. Unbound(k) \subseteq Unbound(j) /\ k \in Unbound(j) BY <1>2, <2>4
    <3> QED BY <2>1, <2>3, <2>4, <3>1
  <2>5. Cardinality(Not) <= Cardinality(Remaining)
    <3>1. /\ Cardinality(Has) \in Nat /\ Cardinality(Not) \in Nat
          /\ Cardinality(Taken) \in Nat /\ Cardinality(Remaining) \in Nat
      BY <1>8, <1>10, <1>11, FS_CardinalityType
    <3> HIDE DEF Has, Not, Taken, Remaining
    <3> QED BY <1>1, <1>2, <1>8, <1>10, <1>11, <3>1
  <2>6. Cardinality(Not) \in Nat /\ Cardinality(Remaining) \in Nat BY <1>8, <1>11, FS_CardinalityType
  <2> HIDE DEF Unbound, Not, Remaining
  <2>7. Cardinality(Unbound(j)) < Cardinality(Remaining) BY <2>3, <2>5, <2>6
  <2> QED BY <2>3, <2>4, <2>7
<1> DEFINE A == Assigned(attributes)
<1>13. ASSUME NEW j \in 1..n, B(j) # {}
       PROVE  A[j] \in B(j) /\ B(j) = {A[j]} /\ A[j] \in Taken /\ A[j] \in 0..(MaxAttribs - 1)
  <2>1. A[j] = CHOOSE location \in B(j) : TRUE BY <1>4, <1>13
  <2> HIDE DEF A
  <2>2. A[j] \in B(j) BY <1>13, <2>1
  <2> QED BY <1>5, <1>6, <2>2
<1>14. ASSUME NEW j \in 1..n, B(j) = {}
       PROVE  A[j] \in Remaining /\ Cardinality({l \in Remaining : l < A[j]}) = Cardinality(Unbound(j))
  <2>1. Remaining \in SUBSET (0..(MaxAttribs - 1)) OBVIOUS
  <2>2. A[j] = CHOOSE location \in Remaining :
                  Cardinality({l \in Remaining : l < location}) = Cardinality(Unbound(j))
    BY <1>4, <1>14
  <2> DEFINE u == Cardinality(Unbound(j))
  <2>3. u \in Nat /\ u < Cardinality(Remaining) BY <1>12, <1>14
  <2> HIDE DEF A, Remaining, u
  <2>4. \E l \in Remaining : Cardinality({m \in Remaining : m < l}) = u BY <1>1, <2>1, <2>3, Ranked
  <2> QED BY <2>2, <2>4 DEF u
<1>15. ASSUME NEW j \in 1..n
       PROVE  A[j] \in 0..(MaxAttribs - 1) /\ B(j) \subseteq {A[j]}
  <2>1. CASE B(j) = {}
    <3>1. A[j] \in Remaining BY <1>14, <2>1
    <3> QED BY <2>1, <3>1
  <2>2. CASE B(j) # {} BY <1>13, <2>2
  <2> QED BY <2>1, <2>2
<1>16. ASSUME NEW j \in 1..n, NEW k \in 1..n, k < j PROVE A[j] # A[k]
  <2>1. CASE B(j) # {} /\ B(k) # {} BY <1>2, <1>3, <1>13, <1>16, <2>1
  <2>2. CASE B(j) # {} /\ B(k) = {} BY <1>13, <1>14, <2>2
  <2>3. CASE B(j) = {} /\ B(k) # {} BY <1>13, <1>14, <2>3
  <2>4. CASE B(j) = {} /\ B(k) = {}
    <3>1. Cardinality(Unbound(k)) < Cardinality(Unbound(j)) BY <1>12, <1>16, <2>4
    <3>2. Cardinality(Unbound(k)) \in Nat /\ Cardinality(Unbound(j)) \in Nat BY <1>12, <2>4
    <3>3. /\ Cardinality({l \in Remaining : l < A[j]}) = Cardinality(Unbound(j))
          /\ Cardinality({l \in Remaining : l < A[k]}) = Cardinality(Unbound(k))
      BY <1>14, <2>4
    <3> HIDE DEF A, Remaining, Unbound
    <3> SUFFICES ASSUME A[j] = A[k] PROVE FALSE OBVIOUS
    <3>4. Cardinality(Unbound(j)) = Cardinality(Unbound(k)) BY <3>3
    <3> QED BY <3>1, <3>2, <3>4
  <2> QED BY <2>1, <2>2, <2>3, <2>4
<1> HIDE DEF A
<1>17. ASSUME NEW j \in 1..n, NEW k \in 1..n, j # k PROVE A[j] # A[k]
  <2>1. j < k \/ k < j BY <1>2, <1>17
  <2> QED BY <1>16, <2>1
<1> QED BY <1>2, <1>4, <1>15, <1>17 DEF A, B

(* Few attributes, bound to different locations, fit.                       *)
LEMMA CompatibleAttributes ==
  ASSUME BindingsFine, NEW attributes \in Seq(AttributeDeclaration), NamedOnce(attributes),
         Len(attributes) <= MaxAttribs, Widths(attributes) <= MaxInputs,
         \A j, k \in DOMAIN bindings : j # k => bindings[j].location # bindings[k].location
  PROVE  AttributesFit(attributes)
<1> SUFFICES ASSUME NEW j \in DOMAIN attributes, NEW k \in DOMAIN attributes, j # k,
                    NEW l \in Bound(attributes[j].name), l \in Bound(attributes[k].name)
             PROVE  FALSE
  BY DEF AttributesFit
<1>1. PICK p \in DOMAIN bindings : bindings[p].name = attributes[j].name /\ bindings[p].location = l
  BY BoundOnce
<1>2. PICK q \in DOMAIN bindings : bindings[q].name = attributes[k].name /\ bindings[q].location = l
  BY BoundOnce
<1>3. p = q BY <1>1, <1>2
<1>4. attributes[j].name = attributes[k].name BY <1>1, <1>2, <1>3
<1> QED BY <1>4 DEF NamedOnce

(* A link is refused for a reason only.                                     *)
LEMMA CompatibleLinks ==
  ASSUME BindingsFine, NEW i, WellFormed(i), Compatible(i)
  PROVE  AttributesFit(i.attributes) /\ Collected(i).ok /\ VaryingsMatch(i)
<1>1. Fits(Declarations(i)) BY CompatibleFits
<1>2. Collected(i).ok BY <1>1, CollectedKept
<1>3. /\ Len(i.attributes) <= MaxAttribs
      /\ Widths(i.attributes) <= MaxInputs /\ Widths(i.outputs) <= MaxVaryings
      /\ \A j, k \in DOMAIN bindings : j # k => bindings[j].location # bindings[k].location
      /\ ToSet(i.inputs) \subseteq ToSet(i.outputs)
  BY DEF Compatible
<1>4. VaryingsMatch(i) BY <1>3, CompatibleVaryings
<1>5. i.attributes \in Seq(AttributeDeclaration) /\ NamedOnce(i.attributes) BY DEF WellFormed
<1>6. AttributesFit(i.attributes) BY <1>3, <1>5, CompatibleAttributes
<1> QED BY <1>2, <1>4, <1>6

-----------------------------------------------------------------------------
(* Locations.                                                               *)

LEMMA RankOfClass ==
  ASSUME NEW c \in Classes
  PROVE  LocationRanks[c] \in Int /\ LocationOrder[LocationRanks[c]] = c
<1>1. \E r \in DOMAIN LocationOrder : LocationOrder[r] = c BY DEF Classes, ToSet
<1>2. DOMAIN LocationOrder = 1..16 BY DEF LocationOrder
<1>3. LocationRanks[c] = CHOOSE r \in DOMAIN LocationOrder : LocationOrder[r] = c
  BY DEF LocationRanks, Ranks
<1> QED BY <1>1, <1>2, <1>3

LEMMA ClassesFinite == IsFiniteSet(Classes)
<1>1. DOMAIN LocationOrder = 1..16 BY DEF LocationOrder
<1>2. IsFiniteSet(1..16)
  <2>1. 1 \in Int /\ 16 \in Int OBVIOUS
  <2> QED BY <2>1, FS_Interval
<1>3. Classes = {LocationOrder[r] : r \in 1..16} BY <1>1 DEF Classes, ToSet
<1> QED BY <1>1, <1>2, <1>3, FiniteRange

(* The pairs of a type and an index that stand before the entries of c.     *)
Before(c) ==
    {e \in Classes \X (1..Capacity) :
        LocationRanks[e[1]] < LocationRanks[c] /\ e[2] \in DOMAIN uniforms[e[1]]}

LEMMA TablesFit ==
  ASSUME uniforms \in Tables, WithinLimits(uniforms), NEW c \in Classes
  PROVE  /\ uniforms[c] \in Seq(Entry) /\ DOMAIN uniforms[c] = 1..Len(uniforms[c])
         /\ Len(uniforms[c]) \in Nat /\ DOMAIN uniforms[c] \subseteq 1..Capacity
<1>1. uniforms[c] \in Seq(Entry) BY DEF Tables
<1>2. DOMAIN uniforms[c] = 1..Len(uniforms[c]) /\ Len(uniforms[c]) \in Nat BY <1>1
<1>3. Limit(c) \in Nat /\ Limit(c) <= Capacity /\ Capacity \in Nat
  BY InterfacesAssumption DEF Limit
<1>4. Len(uniforms[c]) <= Limit(c) BY DEF WithinLimits
<1> QED BY <1>1, <1>2, <1>3, <1>4

LEMMA FirstOfNext ==
  ASSUME uniforms \in Tables, WithinLimits(uniforms), NEW b \in Classes, NEW c \in Classes
  PROVE  /\ FirstLocation(b) \in Nat /\ FirstLocation(c) \in Nat
         /\ LocationRanks[b] < LocationRanks[c] =>
               FirstLocation(b) + Len(uniforms[b]) <= FirstLocation(c)
<1> DEFINE n == Len(uniforms[b])
<1> DEFINE Own == {<<b, p>> : p \in 1..n}
<1>0. Capacity \in Nat BY InterfacesAssumption
<1>1. n \in Nat /\ DOMAIN uniforms[b] = 1..n /\ 1..n \subseteq 1..Capacity BY TablesFit
<1>2. FirstLocation(b) = Cardinality(Before(b)) /\ FirstLocation(c) = Cardinality(Before(c))
  BY DEF FirstLocation, EntriesBefore, Before
<1>3. IsFiniteSet(Before(b)) /\ IsFiniteSet(Before(c))
  <2>1. IsFiniteSet(1..Capacity) BY <1>0, FS_Interval
  <2>2. IsFiniteSet(Classes \X (1..Capacity)) BY <2>1, ClassesFinite, FS_Product
  <2>3. Before(b) \subseteq Classes \X (1..Capacity) /\ Before(c) \subseteq Classes \X (1..Capacity)
    BY DEF Before
  <2> QED BY <2>2, <2>3, FS_Subset
<1>4. Cardinality(Before(b)) \in Nat /\ Cardinality(Before(c)) \in Nat BY <1>3, FS_CardinalityType
<1> HIDE DEF n
<1>5. IsFiniteSet(Own) /\ Cardinality(Own) = n
  <2> DEFINE f == [p \in 1..n |-> <<b, p>>]
  <2>1. \A p, q \in 1..n : f[p] = f[q] => p = q OBVIOUS
  <2>2. f \in [1..n -> Own] OBVIOUS
  <2>3. \A o \in Own : \E p \in 1..n : f[p] = o OBVIOUS
  <2>4. f \in Bijection(1..n, Own)
    BY <2>1, <2>2, <2>3 DEF Bijection, Injection, Surjection, IsInjective
  <2>5. IsFiniteSet(1..n) /\ Cardinality(1..n) = n BY <1>1, FS_Interval
  <2> HIDE DEF f, Own
  <2>6. ExistsBijection(1..n, Own) BY <2>4 DEF ExistsBijection
  <2> QED BY <1>1, <2>4, <2>5, <2>6, FS_Bijection, FS_CountingElements
<1>6. ASSUME LocationRanks[b] < LocationRanks[c]
      PROVE  Cardinality(Before(b)) + n <= Cardinality(Before(c))
  <2>1. \A e \in Classes : LocationRanks[e] \in Int BY RankOfClass
  <2>2. Before(b) \subseteq Before(c)
    <3> SUFFICES ASSUME NEW e \in Before(b) PROVE e \in Before(c) OBVIOUS
    <3>1. /\ e \in Classes \X (1..Capacity) /\ LocationRanks[e[1]] < LocationRanks[b]
          /\ e[2] \in DOMAIN uniforms[e[1]]
      BY DEF Before
    <3>2. LocationRanks[e[1]] < LocationRanks[c] BY <1>6, <2>1, <3>1
    <3> QED BY <3>1, <3>2 DEF Before
  <2>3. Own \subseteq Before(c)
    <3> SUFFICES ASSUME NEW p \in 1..n PROVE <<b, p>> \in Before(c) OBVIOUS
    <3> QED BY <1>1, <1>6 DEF Before
  <2>4. Own \cap Before(b) = {}
    <3> SUFFICES ASSUME NEW p \in 1..n, <<b, p>> \in Before(b) PROVE FALSE OBVIOUS
    <3>1. LocationRanks[b] < LocationRanks[b] BY DEF Before
    <3> QED BY <2>1, <3>1
  <2> HIDE DEF Own
  <2>5. Cardinality(Before(b) \cup Own) =
           Cardinality(Before(b)) + Cardinality(Own) - Cardinality(Before(b) \cap Own)
    BY <1>3, <1>5, FS_Union
  <2>6. Before(b) \cap Own = {} BY <2>4
  <2>7. Cardinality(Before(b) \cap Own) = 0 BY <2>6, FS_EmptySet
  <2>8. Before(b) \cup Own \subseteq Before(c) BY <2>2, <2>3
  <2>9. Cardinality(Before(b) \cup Own) <= Cardinality(Before(c)) BY <1>3, <2>8, FS_Subset
  <2>10. Cardinality(Before(b) \cup Own) = Cardinality(Before(b)) + n
    BY <1>1, <1>4, <1>5, <2>5, <2>7
  <2> QED BY <2>9, <2>10
<1> QED BY <1>2, <1>4, <1>6 DEF n

(* No two entries have one location.                                        *)
LEMMA LocationsApart ==
  ASSUME uniforms \in Tables, WithinLimits(uniforms), NEW b \in Classes, NEW c \in Classes,
         NEW p \in DOMAIN uniforms[b], NEW q \in DOMAIN uniforms[c],
         FirstLocation(b) + p - 1 = FirstLocation(c) + q - 1
  PROVE  b = c /\ p = q
<1>1. /\ p \in 1..Len(uniforms[b]) /\ q \in 1..Len(uniforms[c])
      /\ Len(uniforms[b]) \in Nat /\ Len(uniforms[c]) \in Nat
  BY TablesFit
<1>2. FirstLocation(b) \in Nat /\ FirstLocation(c) \in Nat BY FirstOfNext
<1>3. LocationRanks[b] \in Int /\ LocationRanks[c] \in Int BY RankOfClass
<1>4. CASE LocationRanks[b] < LocationRanks[c]
  <2>1. FirstLocation(b) + Len(uniforms[b]) <= FirstLocation(c) BY <1>4, FirstOfNext
  <2> QED BY <1>1, <1>2, <2>1
<1>5. CASE LocationRanks[c] < LocationRanks[b]
  <2>1. FirstLocation(c) + Len(uniforms[c]) <= FirstLocation(b) BY <1>5, FirstOfNext
  <2> QED BY <1>1, <1>2, <2>1
<1>6. CASE LocationRanks[c] = LocationRanks[b]
  <2>1. b = c BY <1>6, RankOfClass
  <2> QED BY <1>1, <1>2, <2>1
<1> QED BY <1>3, <1>4, <1>5, <1>6

-----------------------------------------------------------------------------
(* Tables that setters have written to: names and targets are as collected. *)

SameShape(t, u) ==
    \A c \in Classes :
        /\ DOMAIN u[c] = DOMAIN t[c] /\ Len(u[c]) = Len(t[c])
        /\ \A p \in DOMAIN t[c] : u[c][p].name = t[c][p].name /\ u[c][p].target = t[c][p].target

Shaped(t, declared) ==
    /\ uniforms \in Tables /\ t \in Tables /\ declared \in SUBSET UniformDeclaration
    /\ AllCollected(t, declared) /\ SameShape(t, uniforms)

LEMMA ShapedFacts ==
  ASSUME NEW t, NEW declared, Shaped(t, declared)
  PROVE  /\ NamesApart(uniforms) /\ WithinLimits(uniforms)
         /\ \A c \in Classes : Names(uniforms[c]) = ElementsOf(declared, c)
<1>1. /\ uniforms \in Tables /\ t \in Tables /\ declared \in SUBSET UniformDeclaration
      /\ SameShape(t, uniforms)
      /\ Sound(t, declared) /\ \A d \in declared : Holds(t, d)
  BY DEF Shaped, AllCollected, Kept
<1>2. NamesApart(uniforms) BY <1>1 DEF Sound, NamesApart, SameShape
<1>3. WithinLimits(uniforms) BY <1>1 DEF Sound, WithinLimits, SameShape
<1>4. ASSUME NEW c \in Classes PROVE Names(uniforms[c]) = ElementsOf(declared, c)
  <2>1. ASSUME NEW n \in Names(uniforms[c]) PROVE n \in ElementsOf(declared, c)
    <3>1. PICK p \in DOMAIN uniforms[c] : uniforms[c][p].name = n BY NamesOf
    <3>2. p \in DOMAIN t[c] /\ t[c][p].name = n BY <1>1, <3>1 DEF SameShape
    <3>3. PICK d \in declared : \E k \in 1..d.size : d.class = c /\ t[c][p] = Elements(d)[k]
      BY <1>1, <3>2 DEF Sound, AllDeclared
    <3>4. PICK k \in 1..d.size : d.class = c /\ t[c][p] = Elements(d)[k] BY <3>3
    <3>5. DOMAIN Elements(d) = 1..d.size BY <1>1, ElementsFacts
    <3>6. n \in Names(Elements(d)) BY <3>2, <3>4, <3>5, NamesOf
    <3> QED BY <3>4, <3>6 DEF ElementsOf
  <2>2. ASSUME NEW n \in ElementsOf(declared, c) PROVE n \in Names(uniforms[c])
    <3>1. PICK d \in declared : d.class = c /\ n \in Names(Elements(d)) BY DEF ElementsOf
    <3>2. DOMAIN Elements(d) = 1..d.size BY <1>1, ElementsFacts
    <3>3. PICK k \in 1..d.size : Elements(d)[k].name = n BY <3>1, <3>2, NamesOf
    <3>4. n \in Names(t[c]) BY <1>1, <3>1, <3>3 DEF Holds
    <3>5. PICK p \in DOMAIN t[c] : t[c][p].name = n BY <3>4, NamesOf
    <3>6. p \in DOMAIN uniforms[c] /\ uniforms[c][p].name = n BY <1>1, <3>5 DEF SameShape
    <3> QED BY <3>6, NamesOf
  <2> QED BY <2>1, <2>2
<1> QED BY <1>2, <1>3, <1>4

(* The elements of d stand together, and no other entry is of its name.     *)
StandsAt(d, p) ==
    /\ d \in UniformDeclaration /\ p \in Nat
    /\ \A k \in 1..d.size :
          /\ p + k \in DOMAIN uniforms[d.class]
          /\ uniforms[d.class][p + k].name = <<d.base, IndexOf(d, k)>>
          /\ uniforms[d.class][p + k].target = d.target
    /\ \A c \in Classes : \A q \in DOMAIN uniforms[c] :
          uniforms[c][q].name[1] = d.base => c = d.class /\ \E k \in 1..d.size : q = p + k

LEMMA StandsTogether ==
  ASSUME NEW t, NEW declared, Shaped(t, declared), NEW d \in declared, Sole(d, declared)
  PROVE  \E p : StandsAt(d, p)
<1>1. /\ uniforms \in Tables /\ t \in Tables /\ declared \in SUBSET UniformDeclaration
      /\ SameShape(t, uniforms)
      /\ Sound(t, declared) /\ Holds(t, d)
      /\ AbsentFrom(t, d) \/ \E p \in Nat : WholeFrom(t, d, p)
  BY DEF Shaped, AllCollected, Kept
<1>2. /\ d \in UniformDeclaration /\ d.size \in Nat \ {0} /\ d.class \in Classes
      /\ \A k \in 1..d.size : /\ Elements(d)[k].name = <<d.base, IndexOf(d, k)>>
                              /\ Elements(d)[k].target = d.target
  BY <1>1, ElementsFacts
<1>3. ~ AbsentFrom(t, d)
  <2>1. 1 \in 1..d.size BY <1>2
  <2>2. Elements(d)[1].name \in Names(t[d.class]) BY <1>1, <2>1 DEF Holds
  <2>3. PICK p \in DOMAIN t[d.class] : t[d.class][p].name = Elements(d)[1].name BY <2>2, NamesOf
  <2> QED BY <1>2, <2>1, <2>3 DEF AbsentFrom
<1>4. PICK p \in Nat : WholeFrom(t, d, p) BY <1>1, <1>3
<1>5. ASSUME NEW k \in 1..d.size
      PROVE  /\ p + k \in DOMAIN t[d.class] /\ t[d.class][p + k].name = <<d.base, IndexOf(d, k)>>
             /\ p + k \in DOMAIN uniforms[d.class]
             /\ uniforms[d.class][p + k].name = <<d.base, IndexOf(d, k)>>
             /\ uniforms[d.class][p + k].target = d.target
  <2>1. p + k \in DOMAIN t[d.class] /\ t[d.class][p + k] = Elements(d)[k] BY <1>4 DEF WholeFrom
  <2> QED BY <1>1, <1>2, <2>1 DEF SameShape
<1>6. ASSUME NEW c \in Classes, NEW q \in DOMAIN uniforms[c], uniforms[c][q].name[1] = d.base
      PROVE  c = d.class /\ \E k \in 1..d.size : q = p + k
  <2>1. q \in DOMAIN t[c] /\ t[c][q].name = uniforms[c][q].name BY <1>1 DEF SameShape
  <2>2. PICK e \in declared : \E k \in 1..e.size : e.class = c /\ t[c][q] = Elements(e)[k]
    BY <1>1, <2>1 DEF Sound, AllDeclared
  <2>3. PICK k \in 1..e.size : e.class = c /\ t[c][q] = Elements(e)[k] BY <2>2
  <2>4. t[c][q].name = <<e.base, IndexOf(e, k)>> BY <1>1, <2>3, ElementsFacts
  <2>5. e.base = d.base BY <1>6, <2>1, <2>4
  <2>6. e = d BY <2>5 DEF Sole
  <2>7. c = d.class /\ k \in 1..d.size /\ t[c][q].name = t[d.class][p + k].name
    BY <1>5, <2>3, <2>4, <2>6
  <2>8. q = p + k BY <1>1, <1>2, <1>5, <2>1, <2>7 DEF Sound, NamesApart
  <2> QED BY <2>7, <2>8
<1>7. StandsAt(d, p) BY <1>1, <1>4, <1>5, <1>6 DEF StandsAt
<1> QED BY <1>7

(* The location of an array is that of its first element.                   *)
LEMMA LocationAt ==
  ASSUME uniforms \in Tables, WithinLimits(uniforms), NEW d, NEW p, StandsAt(d, p)
  PROVE  LocationOf(<<d.base, Scalar>>) = FirstLocation(d.class) + p
<1> DEFINE Entries(n) == {e \in Classes \X (1..Capacity) :
                             e[2] \in DOMAIN uniforms[e[1]] /\ uniforms[e[1]][e[2]].name = n}
<1> DEFINE name == <<d.base, Scalar>>
<1> DEFINE zero == <<d.base, 0>>
<1> DEFINE at == <<d.class, p + 1>>
<1>1. /\ d.size \in Nat \ {0} /\ d.class \in Classes /\ p \in Nat BY ElementsFacts DEF StandsAt
<1>2. /\ \A k \in 1..d.size : /\ p + k \in DOMAIN uniforms[d.class]
                              /\ uniforms[d.class][p + k].name = <<d.base, IndexOf(d, k)>>
      /\ \A c \in Classes : \A q \in DOMAIN uniforms[c] :
            uniforms[c][q].name[1] = d.base => c = d.class /\ \E k \in 1..d.size : q = p + k
  BY DEF StandsAt
<1>3. 1 \in 1..d.size /\ p + 1 \in 1..Capacity
  <2>1. 1 \in 1..d.size BY <1>1
  <2>2. p + 1 \in DOMAIN uniforms[d.class] BY <1>2, <2>1
  <2> QED BY <1>1, <2>1, <2>2, TablesFit
<1>4. ASSUME NEW n \in {name, zero}, NEW e \in Entries(n)
      PROVE  e[1] = d.class /\ \E k \in 1..d.size : e[2] = p + k /\ n = <<d.base, IndexOf(d, k)>>
  <2>1. n[1] = d.base OBVIOUS
  <2>2. e[1] \in Classes /\ e[2] \in DOMAIN uniforms[e[1]] /\ uniforms[e[1]][e[2]].name = n
    OBVIOUS
  <2>3. e[1] = d.class /\ \E k \in 1..d.size : e[2] = p + k BY <1>2, <2>1, <2>2
  <2> QED BY <1>2, <2>2, <2>3
<1>5. LocationOf(name) =
         LET first == IF name[2] = Scalar THEN Entries(<<name[1], 0>>) ELSE {}
             found == IF first # {} THEN first ELSE Entries(name)
         IN  IF found = {} THEN -1
             ELSE LET f == CHOOSE e \in found : TRUE
                  IN  EntriesBefore(LocationRanks, f[1]) + f[2] - 1
  BY DEF LocationOf
<1>6. name[1] = d.base /\ name[2] = Scalar OBVIOUS
<1>7. LocationOf(name) =
         LET found == IF Entries(zero) # {} THEN Entries(zero) ELSE Entries(name)
         IN  IF found = {} THEN -1
             ELSE LET f == CHOOSE e \in found : TRUE
                  IN  EntriesBefore(LocationRanks, f[1]) + f[2] - 1
  BY <1>5, <1>6
<1>8. ASSUME NEW n \in {name, zero}, n = <<d.base, IndexOf(d, 1)>>,
             \A k \in 1..d.size : n = <<d.base, IndexOf(d, k)>> => k = 1
      PROVE  Entries(n) = {at}
  <2>1. at \in Classes \X (1..Capacity) /\ at[1] = d.class /\ at[2] = p + 1 BY <1>1, <1>3
  <2>2. at \in Entries(n) BY <1>2, <1>3, <1>8, <2>1
  <2>3. ASSUME NEW e \in Entries(n) PROVE e = at
    <3>1. e[1] = d.class /\ e[2] = p + 1 BY <1>4, <1>8
    <3>2. e \in Classes \X (1..Capacity) OBVIOUS
    <3> QED BY <3>1, <3>2
  <2> HIDE DEF Entries
  <2> QED BY <2>2, <2>3
<1>9. (IF Entries(zero) # {} THEN Entries(zero) ELSE Entries(name)) = {at}
  <2>1. CASE d.size = 1
    <3>1. \A k \in 1..d.size : k = 1 /\ IndexOf(d, k) = -1 BY <2>1 DEF IndexOf, Scalar
    <3>2. Entries(zero) = {}
      <4> SUFFICES ASSUME NEW e \in Entries(zero) PROVE FALSE OBVIOUS
      <4>1. \E k \in 1..d.size : zero = <<d.base, IndexOf(d, k)>> BY <1>4
      <4> QED BY <3>1, <4>1
    <3>3. name = <<d.base, IndexOf(d, 1)>> BY <1>3, <3>1 DEF Scalar
    <3>4. Entries(name) = {at} BY <1>8, <3>1, <3>3
    <3> QED BY <3>2, <3>4
  <2>2. CASE d.size # 1
    <3>1. \A k \in 1..d.size : IndexOf(d, k) = k - 1 BY <2>2 DEF IndexOf
    <3>2. zero = <<d.base, IndexOf(d, 1)>> BY <1>3, <3>1
    <3>3. \A k \in 1..d.size : zero = <<d.base, IndexOf(d, k)>> => k = 1
      <4> TAKE k \in 1..d.size
      <4>1. zero = <<d.base, IndexOf(d, k)>> => 0 = IndexOf(d, k) OBVIOUS
      <4> QED BY <1>1, <3>1, <4>1
    <3>4. Entries(zero) = {at} BY <1>8, <3>2, <3>3
    <3> QED BY <3>4
  <2> QED BY <2>1, <2>2
<1> HIDE DEF Entries
<1>10. LocationOf(name) = LET f == CHOOSE e \in {at} : TRUE
                          IN  EntriesBefore(LocationRanks, f[1]) + f[2] - 1
  BY <1>7, <1>9
<1>11. (CHOOSE e \in {at} : TRUE) = at OBVIOUS
<1>12. LocationOf(name) = EntriesBefore(LocationRanks, at[1]) + at[2] - 1 BY <1>10, <1>11
<1>13. LocationOf(name) = FirstLocation(d.class) + (p + 1) - 1 BY <1>12 DEF FirstLocation
<1>14. FirstLocation(d.class) \in Nat BY <1>1, FirstOfNext
<1> QED BY <1>1, <1>13, <1>14

LEMMA ClassNames ==
  Classes = {"sampler", "float", "vec2", "vec3", "vec4", "mat4", "mat2", "mat3",
             "int", "ivec2", "ivec3", "ivec4", "bool", "bvec2", "bvec3", "bvec4"}
<1> DEFINE S == {"sampler", "float", "vec2", "vec3", "vec4", "mat4", "mat2", "mat3",
                 "int", "ivec2", "ivec3", "ivec4", "bool", "bvec2", "bvec3", "bvec4"}
<1>1. DOMAIN LocationOrder = 1..16 BY DEF LocationOrder
<1>2. ASSUME NEW r \in 1..16 PROVE LocationOrder[r] \in S BY DEF LocationOrder
<1>3. /\ LocationOrder[1] = "sampler" /\ LocationOrder[2] = "float"
      /\ LocationOrder[3] = "vec2" /\ LocationOrder[4] = "vec3"
      /\ LocationOrder[5] = "vec4" /\ LocationOrder[6] = "mat4"
      /\ LocationOrder[7] = "mat2" /\ LocationOrder[8] = "mat3"
      /\ LocationOrder[9] = "int" /\ LocationOrder[10] = "ivec2"
      /\ LocationOrder[11] = "ivec3" /\ LocationOrder[12] = "ivec4"
      /\ LocationOrder[13] = "bool" /\ LocationOrder[14] = "bvec2"
      /\ LocationOrder[15] = "bvec3" /\ LocationOrder[16] = "bvec4"
  BY DEF LocationOrder
<1>4. /\ 1 \in 1..16 /\ 2 \in 1..16 /\ 3 \in 1..16 /\ 4 \in 1..16 /\ 5 \in 1..16 /\ 6 \in 1..16
      /\ 7 \in 1..16 /\ 8 \in 1..16 /\ 9 \in 1..16 /\ 10 \in 1..16 /\ 11 \in 1..16 /\ 12 \in 1..16
      /\ 13 \in 1..16 /\ 14 \in 1..16 /\ 15 \in 1..16 /\ 16 \in 1..16
  OBVIOUS
<1>5. Classes = {LocationOrder[r] : r \in 1..16} BY <1>1 DEF Classes, ToSet
<1>6. Classes \subseteq S BY <1>2, <1>5
<1>7. S \subseteq Classes
  <2>1. ASSUME NEW r \in 1..16 PROVE LocationOrder[r] \in Classes BY <1>5
  <2> QED BY <1>3, <1>4, <2>1
<1> QED BY <1>6, <1>7

(* Every type has its setters.                                              *)
LEMMA FamiliesFacts ==
  /\ \A f \in Families : f \subseteq Classes
  /\ \A c \in Classes : \E f \in Families : c \in f
<1>1. ASSUME NEW f \in Families PROVE f \subseteq Classes
  <2>1. \/ f \in {{"sampler", "int", "bool"}, {"ivec2", "bvec2"}, {"ivec3", "bvec3"}, {"ivec4", "bvec4"}}
        \/ \E c \in Floats : f = {c}
    BY DEF Families
  <2>2. CASE f \in {{"sampler", "int", "bool"}, {"ivec2", "bvec2"}, {"ivec3", "bvec3"}, {"ivec4", "bvec4"}}
    BY <2>2, ClassNames
  <2>3. CASE \E c \in Floats : f = {c} BY <2>3, ClassNames DEF Floats, Matrices
  <2> QED BY <2>1, <2>2, <2>3
<1>2. ASSUME NEW c \in Classes PROVE \E f \in Families : c \in f
  <2>1. CASE c \in Floats
    <3>1. {c} \in Families BY <2>1 DEF Families
    <3> QED BY <3>1
  <2>2. CASE c \in {"sampler", "int", "bool"}
    <3>1. {"sampler", "int", "bool"} \in Families BY DEF Families
    <3> QED BY <2>2, <3>1
  <2>3. CASE c \in {"ivec2", "bvec2"}
    <3>1. {"ivec2", "bvec2"} \in Families BY DEF Families
    <3> QED BY <2>3, <3>1
  <2>4. CASE c \in {"ivec3", "bvec3"}
    <3>1. {"ivec3", "bvec3"} \in Families BY DEF Families
    <3> QED BY <2>4, <3>1
  <2>5. CASE c \in {"ivec4", "bvec4"}
    <3>1. {"ivec4", "bvec4"} \in Families BY DEF Families
    <3> QED BY <2>5, <3>1
  <2> QED BY <2>1, <2>2, <2>3, <2>4, <2>5, ClassNames DEF Floats, Matrices
<1> QED BY <1>1, <1>2

(* A setter finds the entry that has the location.                          *)
LEMMA EntryFound ==
  ASSUME uniforms \in Tables, WithinLimits(uniforms), NEW family \in Families,
         NEW c \in Classes, c \in family, NEW p \in DOMAIN uniforms[c], NEW location,
         location = FirstLocation(c) + p - 1
  PROVE  EntryAt(family, location) = {<<c, p>>}
<1>1. family \subseteq Classes BY FamiliesFacts
<1>2. p \in 1..Capacity BY TablesFit
<1>3. <<c, p>> \in EntryAt(family, location) BY <1>2 DEF EntryAt
<1>4. ASSUME NEW e \in EntryAt(family, location) PROVE e = <<c, p>>
  <2>1. /\ e \in family \X (1..Capacity) /\ e[2] \in DOMAIN uniforms[e[1]]
        /\ location = FirstLocation(e[1]) + e[2] - 1
    BY DEF EntryAt
  <2>2. e[1] \in Classes BY <1>1, <2>1
  <2>3. e[1] = c /\ e[2] = p BY <2>1, <2>2, LocationsApart
  <2> QED BY <2>1, <2>3
<1> QED BY <1>3, <1>4

(* The active uniforms have one that is d.                                  *)
LEMMA ActiveAt ==
  ASSUME uniforms \in Tables, WithinLimits(uniforms), NamesApart(uniforms),
         NEW d, NEW p, StandsAt(d, p)
  PROVE  [name |-> Elements(d)[1].name, class |-> d.class, target |-> d.target,
          size |-> d.size] \in ActiveUniforms
<1> DEFINE table == uniforms[d.class]
<1> DEFINE g == p + 1
<1>1. /\ d.size \in Nat \ {0} /\ d.class \in Classes /\ p \in Nat /\ 1 \in 1..d.size
      /\ Elements(d)[1].name = <<d.base, IndexOf(d, 1)>>
  <2>1. d \in UniformDeclaration /\ p \in Nat BY DEF StandsAt
  <2>2. d.size \in Nat \ {0} /\ d.class \in Classes BY <2>1, ElementsFacts
  <2>3. 1 \in 1..d.size BY <2>2
  <2> QED BY <2>1, <2>2, <2>3, ElementsFacts
<1>2. /\ \A k \in 1..d.size : /\ p + k \in DOMAIN table
                              /\ table[p + k].name = <<d.base, IndexOf(d, k)>>
                              /\ table[p + k].target = d.target
      /\ \A q \in DOMAIN table : table[q].name[1] = d.base => \E k \in 1..d.size : q = p + k
  BY <1>1 DEF StandsAt
<1>3. DOMAIN table = 1..Len(table) /\ Len(table) \in Nat BY <1>1, TablesFit
<1>4. \A k \in 1..d.size : /\ p + k = g <=> k = 1
                           /\ IndexOf(d, k) = IF d.size = 1 THEN -1 ELSE k - 1
  BY <1>1 DEF IndexOf, Scalar
<1> HIDE DEF table
<1>5. g \in DOMAIN table /\ table[g].name = Elements(d)[1].name /\ table[g].target = d.target
  BY <1>1, <1>2
<1>6. ~ Inside(table, g)
  <2> SUFFICES ASSUME NEW j \in 1..(g - 1), Continues(table, j, g - j) PROVE FALSE BY DEF Inside
  <2>1. g - j \in 0..(g - j) /\ j + (g - j) = g /\ g - j >= 1 BY <1>1
  <2>2. table[g].name = <<table[j].name[1], g - j>> BY <2>1 DEF Continues
  <2>3. IndexOf(d, 1) = g - j BY <1>1, <1>5, <2>2
  <2>4. IndexOf(d, 1) <= 0 BY <1>1, <1>4
  <2> HIDE DEF g
  <2>5. IndexOf(d, 1) >= 1 BY <2>1, <2>3
  <2> QED BY <1>1, <1>4, <2>4, <2>5
<1>7. {g} \cup {j \in DOMAIN table : j > g /\ Continues(table, g, j - g)} = (p + 1)..(p + d.size)
  <2> DEFINE S == {j \in DOMAIN table : j > g /\ Continues(table, g, j - g)}
  <2>1. ASSUME NEW j \in S PROVE j \in (p + 1)..(p + d.size)
    <3>1. j \in DOMAIN table /\ j > g /\ Continues(table, g, j - g) /\ j \in Int BY <1>3
    <3>2. j - g \in 0..(j - g) /\ g + (j - g) = j BY <1>1, <3>1
    <3>3. table[j].name = <<table[g].name[1], j - g>> BY <3>1, <3>2 DEF Continues
    <3>4. table[g].name[1] = d.base BY <1>1, <1>5
    <3>5. table[j].name[1] = d.base BY <3>3, <3>4
    <3>6. PICK k \in 1..d.size : j = p + k BY <1>2, <3>1, <3>5
    <3> QED BY <1>1, <3>6
  <2>2. ASSUME NEW j \in (p + 1)..(p + d.size), j # g PROVE j \in S
    <3>1. j \in Int /\ j > g /\ d.size # 1 /\ j - p \in 1..d.size /\ p + (j - p) = j BY <1>1, <2>2
    <3>2. j \in DOMAIN table BY <1>2, <3>1
    <3>3. ASSUME NEW o \in 0..(j - g)
          PROVE  g + o \in DOMAIN table /\ table[g + o].name = <<table[g].name[1], o>>
      <4>1. o + 1 \in 1..d.size /\ p + (o + 1) = g + o BY <1>1, <3>1
      <4>2. g + o \in DOMAIN table /\ table[g + o].name = <<d.base, IndexOf(d, o + 1)>>
        <5>1. p + (o + 1) \in DOMAIN table /\ table[p + (o + 1)].name = <<d.base, IndexOf(d, o + 1)>>
          BY <1>2, <4>1
        <5> QED BY <4>1, <5>1
      <4>3. IndexOf(d, o + 1) = o BY <1>4, <3>1, <4>1
      <4>4. table[g].name[1] = d.base BY <1>1, <1>5
      <4> QED BY <4>2, <4>3, <4>4
    <3>4. Continues(table, g, j - g) BY <3>3 DEF Continues
    <3> QED BY <3>1, <3>2, <3>4
  <2>3. g \in (p + 1)..(p + d.size) BY <1>1
  <2> HIDE DEF S, g
  <2> QED BY <2>1, <2>2, <2>3 DEF S
<1>8. GroupLength(table, g) = d.size
  <2>1. Cardinality((p + 1)..(p + d.size)) = d.size
    <3>1. p + 1 \in Int /\ p + d.size \in Int /\ p + 1 <= p + d.size BY <1>1
    <3> DEFINE a == p + 1
    <3> DEFINE b == p + d.size
    <3>2. a \in Int /\ b \in Int /\ ~ (a > b) BY <3>1
    <3> HIDE DEF a, b
    <3>3. Cardinality(a..b) = b - a + 1 BY <3>2, FS_Interval
    <3>4. b - a + 1 = d.size BY <1>1 DEF a, b
    <3> QED BY <3>3, <3>4 DEF a, b
  <2> QED BY <1>7, <2>1 DEF GroupLength
<1>9. g \in {j \in DOMAIN uniforms[d.class] : ~ Inside(uniforms[d.class], j)} BY <1>5, <1>6 DEF table
<1>10. [name |-> uniforms[d.class][g].name, class |-> d.class,
        target |-> uniforms[d.class][g].target, size |-> GroupLength(uniforms[d.class], g)]
          \in ActiveUniforms
  <2> DEFINE Groups(c) ==
        {[name |-> uniforms[c][k].name, class |-> c, target |-> uniforms[c][k].target,
          size |-> GroupLength(uniforms[c], k)] :
             k \in {j \in DOMAIN uniforms[c] : ~ Inside(uniforms[c], j)}}
  <2>1. [name |-> uniforms[d.class][g].name, class |-> d.class,
         target |-> uniforms[d.class][g].target, size |-> GroupLength(uniforms[d.class], g)]
           \in Groups(d.class)
    BY <1>9
  <2> HIDE DEF Groups
  <2>2. Groups(d.class) \subseteq UNION {Groups(c) : c \in Classes} BY <1>1
  <2>3. ActiveUniforms = UNION {Groups(c) : c \in Classes} BY DEF ActiveUniforms, Groups
  <2> QED BY <2>1, <2>2, <2>3
<1> QED BY <1>5, <1>8, <1>10 DEF table

(* What no other declaration is named like is found.                        *)
LEMMA SoleFound ==
  ASSUME NEW t, NEW declared, Shaped(t, declared), NEW d \in declared, Sole(d, declared)
  PROVE  Found(d)
<1>1. uniforms \in Tables /\ NamesApart(uniforms) /\ WithinLimits(uniforms)
  BY ShapedFacts DEF Shaped
<1>2. PICK p : StandsAt(d, p) BY StandsTogether
<1>3. LocationOf(<<d.base, Scalar>>) = FirstLocation(d.class) + p BY <1>1, <1>2, LocationAt
<1> DEFINE family == CHOOSE f \in Families : d.class \in f
<1>4. d \in UniformDeclaration /\ p \in Nat BY <1>2 DEF StandsAt
<1>5. d.class \in Classes BY <1>4, ElementsFacts
<1>6. family \in Families /\ d.class \in family BY <1>5, FamiliesFacts
<1> HIDE DEF family
<1> DEFINE first == LocationOf(<<d.base, Scalar>>)
<1>7. ASSUME NEW k \in 1..d.size
      PROVE  \E e \in EntryAt(family, first + k - 1) :
                EntryAt(family, first + k - 1) = {e} /\ e[1] = d.class
                /\ uniforms[e[1]][e[2]].name = Elements(d)[k].name
  <2>1. p + k \in DOMAIN uniforms[d.class] /\ uniforms[d.class][p + k].name = <<d.base, IndexOf(d, k)>>
    BY <1>2 DEF StandsAt
  <2>2. FirstLocation(d.class) \in Nat BY <1>1, <1>5, FirstOfNext
  <2>3. first + k - 1 = FirstLocation(d.class) + (p + k) - 1
    <3>1. k \in Int OBVIOUS
    <3> QED BY <1>3, <1>4, <2>2, <3>1
  <2> HIDE DEF first
  <2>4. EntryAt(family, first + k - 1) = {<<d.class, p + k>>} BY <1>1, <1>5, <1>6, <2>1, <2>3, EntryFound
  <2>5. Elements(d)[k].name = <<d.base, IndexOf(d, k)>> BY <1>4, ElementsFacts
  <2> DEFINE at == <<d.class, p + k>>
  <2>6. at[1] = d.class /\ uniforms[at[1]][at[2]].name = Elements(d)[k].name BY <2>1, <2>5
  <2>7. EntryAt(family, first + k - 1) = {at} /\ at \in EntryAt(family, first + k - 1) BY <2>4
  <2> HIDE DEF at
  <2> QED BY <2>6, <2>7
<1>8. [name |-> Elements(d)[1].name, class |-> d.class, target |-> d.target,
       size |-> d.size] \in ActiveUniforms
  BY <1>1, <1>2, ActiveAt
<1> QED BY <1>7, <1>8 DEF Found, family

(* The tables of a program that is linked are complete.                     *)
LEMMA ShapedComplete ==
  ASSUME NEW t, WellFormed(interface), Shaped(t, Declarations(interface))
  PROVE  TablesComplete
<1>1. /\ uniforms \in Tables /\ NamesApart(uniforms)
      /\ \A c \in Classes : Names(uniforms[c]) = ElementsOf(Declarations(interface), c)
  BY ShapedFacts DEF Shaped
<1>2. ASSUME NEW c \in Classes
      PROVE  /\ Names(uniforms[c]) =
                   UNION {Names(Elements(d)) : d \in {e \in Declarations(interface) : e.class = c}}
             /\ Cardinality(Names(uniforms[c])) = Len(uniforms[c])
             /\ \A e \in Classes \ {c} : Names(uniforms[c]) \cap Names(uniforms[e]) = {}
  <2>1. uniforms[c] \in Seq(Entry) BY <1>1 DEF Tables
  <2>2. \A p, q \in DOMAIN uniforms[c] : uniforms[c][p].name = uniforms[c][q].name => p = q
    BY <1>1 DEF NamesApart
  <2>3. Cardinality(Names(uniforms[c])) = Len(uniforms[c]) BY <2>1, <2>2, NamesCounted
  <2>4. ASSUME NEW e \in Classes \ {c}, NEW n, n \in Names(uniforms[c]), n \in Names(uniforms[e])
        PROVE  FALSE
    <3>1. PICK p \in DOMAIN uniforms[c] : uniforms[c][p].name = n BY <2>4, NamesOf
    <3>2. PICK q \in DOMAIN uniforms[e] : uniforms[e][q].name = n BY <2>4, NamesOf
    <3> QED BY <1>1, <3>1, <3>2 DEF NamesApart
  <2> QED BY <1>1, <2>3, <2>4 DEF ElementsOf
<1>3. ASSUME NEW d \in Declarations(interface), Everywhere(d) PROVE Found(d)
  <2>1. Sole(d, Declarations(interface)) BY <1>3 DEF Everywhere, Sole
  <2> QED BY <2>1, SoleFound
<1> QED BY <1>2, <1>3 DEF TablesComplete

-----------------------------------------------------------------------------
(* The inductive invariant.  What was collected at the last link says where *)
(* the entries of a linked program stand; only their values change.         *)

LinkedAs(i, u) ==
    /\ AllCollected(Collected(i).tables, Declarations(i)) /\ Collected(i) \in Collection
    /\ SameShape(Collected(i).tables, u)

BoundAttributes ==
    \A j \in DOMAIN locations : Bound(interface.attributes[j].name) \subseteq {locations[j]}
LinkReported ==
    last.call = "LINK" =>
        /\ outcome = "LINKED" => BoundAttributes
        /\ outcome = "REFUSED" => ~ Compatible(interface)

InterfaceInv ==
    /\ BindingsFine /\ WellFormed(interface)
    /\ uniforms \in Tables /\ NamesApart(uniforms)
    /\ ValuesReach
    /\ outcome = "LINKED" => LinkedAs(interface, uniforms) /\ Placements
    /\ LinkReported

LEMMA InterfaceInvSays == InterfaceInv => InterfaceAsDeclared
<1> SUFFICES ASSUME InterfaceInv PROVE InterfaceAsDeclared OBVIOUS
<1>1. ASSUME outcome = "LINKED" PROVE TablesComplete /\ Placements
  <2>1. LinkedAs(interface, uniforms) /\ Placements /\ WellFormed(interface) /\ uniforms \in Tables
    BY <1>1 DEF InterfaceInv
  <2>2. Declarations(interface) \in SUBSET UniformDeclaration BY <2>1, DeclarationsFacts
  <2>3. Shaped(Collected(interface).tables, Declarations(interface))
    BY <2>1, <2>2 DEF Shaped, LinkedAs, Collection
  <2> QED BY <2>1, <2>3, ShapedComplete
<1>2. LinkReported BY DEF InterfaceInv
<1> QED BY <1>1, <1>2 DEF InterfaceAsDeclared, LinkReported, BoundAttributes

(* Where every name is once, the value of a name is that of its entry.      *)
LEMMA ValueOfEntry ==
  ASSUME NEW u \in Tables, NamesApart(u), NEW c \in Classes, NEW p \in DOMAIN u[c]
  PROVE  ValueOf(u, u[c][p].name) = u[c][p].value
<1> DEFINE n == u[c][p].name
<1> DEFINE All == UNION {ToSet(u[f]) : f \in Classes}
<1>1. u[c][p] \in All BY DEF ToSet
<1>2. ASSUME NEW e \in All, e.name = n PROVE e = u[c][p]
  <2>1. PICK f \in Classes : e \in ToSet(u[f]) OBVIOUS
  <2>2. PICK q \in DOMAIN u[f] : e = u[f][q] BY <2>1 DEF ToSet
  <2>3. f = c /\ q = p BY <1>2, <2>2 DEF NamesApart
  <2> QED BY <2>2, <2>3
<1>3. (CHOOSE e \in All : e.name = n) = u[c][p] BY <1>1, <1>2
<1> HIDE DEF n, All
<1>4. ValueOf(u, n) = (CHOOSE e \in All : e.name = n).value BY DEF ValueOf, All
<1> QED BY <1>3, <1>4 DEF n

-----------------------------------------------------------------------------
(* The steps.                                                               *)

LEMMA InitInterface == InterfaceInit => InterfaceInv
<1> SUFFICES ASSUME InterfaceInit PROVE InterfaceInv OBVIOUS
<1>1. /\ interface = NoInterface /\ bindings = <<>> /\ outcome = "NEVER" /\ uniforms = NoUniforms
      /\ last.call = "NONE"
  BY DEF InterfaceInit
<1>2. BindingsFine BY <1>1 DEF BindingsFine, NamedOnce
<1>3. WellFormed(interface)
  <2>1. \A S : <<>> \in Seq(S) OBVIOUS
  <2>2. NamedOnce(<<>>) BY DEF NamedOnce
  <2> QED BY <1>1, <2>1, <2>2 DEF WellFormed, NoInterface
<1>4. uniforms \in Tables
  <2>1. <<>> \in Seq(Entry) OBVIOUS
  <2> QED BY <1>1, <2>1 DEF NoUniforms, Tables
<1>5. \A c \in Classes : uniforms[c] = <<>> BY <1>1 DEF NoUniforms
<1>6. NamesApart(uniforms) BY <1>5 DEF NamesApart
<1>7. ValuesReach BY <1>5 DEF ValuesReach, ToSet
<1> QED BY <1>1, <1>2, <1>3, <1>4, <1>6, <1>7 DEF InterfaceInv, LinkReported

(* Calls that leave what is linked alone.                                   *)
LEMMA QuietStep ==
  ASSUME InterfaceInv, UNCHANGED <<interface, outcome, uniforms, locations, ranges, built>>,
         BindingsFine', last'.call # "LINK"
  PROVE  InterfaceInv'
<1>1. WellFormed(interface') /\ uniforms' \in Tables /\ NamesApart(uniforms')
  BY DEF InterfaceInv
<1>2. ValuesReach' BY DEF InterfaceInv, ValuesReach
<1>3. Placements => Placements' BY DEF Placements
<1>4. outcome' = "LINKED" => LinkedAs(interface', uniforms') /\ Placements' BY <1>3 DEF InterfaceInv
<1>5. LinkReported' BY DEF LinkReported
<1> QED BY <1>1, <1>2, <1>4, <1>5 DEF InterfaceInv

LEMMA BindStep ==
  ASSUME InterfaceInv, NEW name \in AttributeNames, NEW location \in 0..MaxAttribs,
         BindAttribLocation(name, location)
  PROVE  InterfaceInv'
<1> DEFINE R == [name : AttributeNames, location : 0..(MaxAttribs - 1)]
<1>1. bindings \in Seq(R) /\ NamedOnce(bindings) BY DEF InterfaceInv, BindingsFine
<1>2. location \in 0..(MaxAttribs - 1)
  <2>1. MaxAttribs \in Nat /\ location < MaxAttribs BY InterfacesAssumption DEF BindAttribLocation
  <2> QED BY <2>1
<1> HIDE DEF R
<1>3. BindingsFine'
  <2>1. ASSUME NEW k \in DOMAIN bindings, bindings[k].name = name,
               bindings' = [bindings EXCEPT ![k].location = location]
        PROVE  BindingsFine'
    <3>1. \A j \in DOMAIN bindings : bindings[j] \in R BY <1>1
    <3>2. [bindings[k] EXCEPT !.location = location] \in R BY <1>2, <3>1 DEF R
    <3>3. [bindings[k] EXCEPT !.location = location].name = name BY <2>1, <3>1 DEF R
    <3>4. bindings' = [bindings EXCEPT ![k] = [bindings[k] EXCEPT !.location = location]] BY <2>1
    <3> DEFINE b == [bindings[k] EXCEPT !.location = location]
    <3>5. b \in R /\ b.name = bindings[k].name /\ bindings' = [bindings EXCEPT ![k] = b]
      BY <2>1, <3>2, <3>3, <3>4
    <3> HIDE DEF b
    <3>6. bindings' \in Seq(R) BY <1>1, <3>5
    <3>7. DOMAIN bindings' = DOMAIN bindings /\ \A j \in DOMAIN bindings : bindings'[j].name = bindings[j].name
      BY <3>5
    <3>8. NamedOnce(bindings') BY <1>1, <3>7 DEF NamedOnce
    <3> QED BY <3>6, <3>8 DEF BindingsFine, R
  <2>2. ASSUME Bound(name) = {}, bindings' = Append(bindings, [name |-> name, location |-> location])
        PROVE  BindingsFine'
    <3> DEFINE b == [name |-> name, location |-> location]
    <3> DEFINE n == Len(bindings)
    <3>1. b \in R /\ b.name = name BY <1>2 DEF R
    <3>2. \A j \in DOMAIN bindings : bindings[j].name # name
      BY <2>2 DEF Bound, ToSet
    <3> HIDE DEF b
    <3>3. bindings' = Append(bindings, b) BY <2>2 DEF b
    <3>4. /\ bindings' \in Seq(R) /\ n \in Nat /\ DOMAIN bindings = 1..n /\ DOMAIN bindings' = 1..(n + 1)
          /\ bindings'[n + 1] = b /\ \A j \in 1..n : bindings'[j] = bindings[j]
      BY <1>1, <3>1, <3>3
    <3> HIDE DEF n
    <3>5. ASSUME NEW j \in DOMAIN bindings', NEW k \in DOMAIN bindings',
                 bindings'[j].name = bindings'[k].name
          PROVE  j = k
      <4>1. (j = n + 1 \/ j \in 1..n) /\ (k = n + 1 \/ k \in 1..n) BY <3>4
      <4>2. CASE j \in 1..n /\ k \in 1..n BY <1>1, <3>4, <3>5, <4>2 DEF NamedOnce
      <4>3. CASE j = n + 1 /\ k \in 1..n BY <3>1, <3>2, <3>4, <3>5, <4>3
      <4>4. CASE j \in 1..n /\ k = n + 1 BY <3>1, <3>2, <3>4, <3>5, <4>4
      <4> QED BY <4>1, <4>2, <4>3, <4>4
    <3>6. NamedOnce(bindings') BY <3>5 DEF NamedOnce
    <3> QED BY <3>4, <3>6 DEF BindingsFine, R
  <2> QED BY <2>1, <2>2 DEF BindAttribLocation
<1>4. /\ UNCHANGED <<interface, outcome, uniforms, locations, ranges, built>> /\ last'.call # "LINK"
  BY DEF BindAttribLocation, Reply
<1> QED BY <1>3, <1>4, QuietStep

(* A link that fails.                                                       *)
LEMMA UnlinkedStep ==
  ASSUME InterfaceInv, NEW i \in Offered, Unlinked(i), outcome' \in {"REFUSED", "BROKEN"},
         outcome' = "REFUSED" => ~ Compatible(i)
  PROVE  InterfaceInv'
<1>1. /\ interface' = i /\ uniforms' = NoUniforms /\ bindings' = bindings BY DEF Unlinked
<1>2. WellFormed(i) BY InterfacesAssumption
<1>3. BindingsFine' BY <1>1 DEF InterfaceInv, BindingsFine
<1>4. uniforms' \in Tables
  <2>1. <<>> \in Seq(Entry) OBVIOUS
  <2> QED BY <1>1, <2>1 DEF NoUniforms, Tables
<1>5. \A c \in Classes : uniforms'[c] = <<>> BY <1>1 DEF NoUniforms
<1>6. NamesApart(uniforms') BY <1>5 DEF NamesApart
<1>7. ValuesReach' BY <1>5 DEF ValuesReach, ToSet
<1>8. Compatible(interface)' => Compatible(i) BY <1>1 DEF Compatible
<1>9. LinkReported' BY <1>8 DEF LinkReported
<1> QED BY <1>1, <1>2, <1>3, <1>4, <1>6, <1>7, <1>9 DEF InterfaceInv

LEMMA RefusedStep ==
  ASSUME InterfaceInv, NEW i \in Offered, LinkRefused(i)
  PROVE  InterfaceInv'
<1>1. WellFormed(i) /\ BindingsFine BY InterfacesAssumption DEF InterfaceInv
<1>2. ~ (AttributesFit(i.attributes) /\ Collected(i).ok /\ VaryingsMatch(i))
  BY DEF LinkRefused, Collections
<1>3. ~ Compatible(i) BY <1>1, <1>2, CompatibleLinks
<1> QED BY <1>3, UnlinkedStep DEF LinkRefused

LEMMA BrokenStep ==
  ASSUME InterfaceInv, NEW i \in Offered, LinkBreaks(i)
  PROVE  InterfaceInv'
BY UnlinkedStep DEF LinkBreaks

(* What is collected has the value 0.                                       *)
LEMMA CollectedZero ==
  ASSUME NEW t, NEW declared \in SUBSET UniformDeclaration, AllCollected(t, declared),
         NEW c \in Classes, NEW p \in DOMAIN t[c]
  PROVE  t[c][p].value = 0
<1>1. AllDeclared(t, declared) BY DEF AllCollected, Kept, Sound
<1>2. PICK d \in declared : \E k \in 1..d.size : d.class = c /\ t[c][p] = Elements(d)[k]
  BY <1>1 DEF AllDeclared
<1>3. PICK k \in 1..d.size : t[c][p] = Elements(d)[k] BY <1>2
<1> QED BY <1>3, ElementsFacts

LEMMA LinkedStep ==
  ASSUME InterfaceInv, NEW i \in Offered, LinkSucceeds(i)
  PROVE  InterfaceInv'
<1> DEFINE u == Collected(i).tables
<1>1. WellFormed(i) BY InterfacesAssumption
<1>2. /\ AttributesFit(i.attributes) /\ VaryingsMatch(i) /\ Collected(i).ok
      /\ uniforms' = u /\ built' = [s \in Stages |-> Compile(i[s], u)]
      /\ outcome' = "LINKED" /\ interface' = i /\ locations' = Assigned(i.attributes)
      /\ ranges' = Placed(i) /\ bindings' = bindings
  BY DEF LinkSucceeds, Collections
<1>3. Collected(i) \in Collection /\ AllCollected(u, Declarations(i)) BY <1>1, <1>2, CollectedKept
<1>4. u \in Tables /\ NamesApart(u) /\ Declarations(i) \in SUBSET UniformDeclaration
  BY <1>1, <1>3, DeclarationsFacts DEF Collection, AllCollected, Kept, Sound
<1>5. BindingsFine /\ BindingsFine' BY <1>2 DEF InterfaceInv, BindingsFine
<1>6. LinkedAs(interface', uniforms')
  <2>1. SameShape(u, u) BY DEF SameShape
  <2> QED BY <1>2, <1>3, <2>1 DEF LinkedAs
<1> HIDE DEF u
<1>7. ValuesReach'
  <2> SUFFICES ASSUME NEW c \in Classes, NEW e \in ToSet(u[c])
               PROVE  IF c = "sampler" THEN e.value \in 0..(TextureUnits - 1)
                      ELSE \A s \in Stages : e.name \in Numerics(i[s]) => built'[s][e.name] = e.value
    BY <1>2 DEF ValuesReach
  <2>1. PICK p \in DOMAIN u[c] : e = u[c][p] BY DEF ToSet
  <2>2. e.value = 0 BY <1>3, <1>4, <2>1, CollectedZero
  <2>3. TextureUnits \in Nat \ {0} BY InterfacesAssumption
  <2>4. ASSUME NEW s \in Stages, e.name \in Numerics(i[s]) PROVE built'[s][e.name] = e.value
    <3>1. built'[s] = Compile(i[s], u) BY <1>2
    <3>2. Compile(i[s], u)[e.name] = ValueOf(u, e.name) BY <2>4 DEF Compile
    <3>3. ValueOf(u, e.name) = e.value BY <1>4, <2>1, ValueOfEntry
    <3> QED BY <3>1, <3>2, <3>3
  <2> QED BY <2>2, <2>3, <2>4
<1>8. /\ DOMAIN locations' = DOMAIN i.attributes
      /\ \A j \in DOMAIN i.attributes : /\ locations'[j] \in 0..(MaxAttribs - 1)
                                        /\ Bound(i.attributes[j].name) \subseteq {locations'[j]}
      /\ \A j, k \in DOMAIN i.attributes : j # k => locations'[j] # locations'[k]
  <2>1. i.attributes \in Seq(AttributeDeclaration) BY <1>1 DEF WellFormed
  <2> QED BY <1>2, <1>5, <2>1, AssignedFacts
<1>9. Placements'
  <2>1. DOMAIN ranges' = DOMAIN i.inputs BY <1>1, <1>2, VaryingsPlaced
  <2>2. \A f, s : SpanOf(i, f, s) = ranges'[f][s]..(ranges'[f][s] + interface'.inputs[f].width - 1)
    BY <1>2 DEF SpanOf
  <2>3. ASSUME NEW f \in DOMAIN ranges'
        PROVE  /\ SpanOf(i, f, "vertex") \subseteq 4..(MaxVaryings + 3)
               /\ SpanOf(i, f, "fragment") \subseteq 0..(MaxVaryings - 1)
               /\ \A g \in DOMAIN ranges' \ {f}, s \in Stages : SpanOf(i, f, s) \cap SpanOf(i, g, s) = {}
    BY <1>1, <1>2, <2>1, VaryingsPlaced
  <2> QED BY <1>8, <2>2, <2>3 DEF Placements
<1>10. BoundAttributes'
  <2>1. \A name : Bound(name)' = Bound(name) BY <1>2 DEF Bound
  <2> QED BY <1>2, <1>8, <2>1 DEF BoundAttributes
<1>11. LinkReported' BY <1>2, <1>10 DEF LinkReported
<1>12. WellFormed(interface') /\ uniforms' \in Tables /\ NamesApart(uniforms') BY <1>1, <1>2, <1>4
<1> QED BY <1>5, <1>6, <1>7, <1>9, <1>11, <1>12 DEF InterfaceInv

-----------------------------------------------------------------------------
(* Setters.                                                                 *)

(* What a setter writes from entry k of a table on.                         *)
WritesAt(class, k, given, u) ==
    /\ u \in Tables /\ SameShape(uniforms, u)
    /\ \A c \in Classes \ {class} : u[c] = uniforms[c]
    /\ \A j \in DOMAIN uniforms[class] :
          u[class][j].value = IF j \in k..(k + Len(given) - 1)
                              THEN Stored(class, given[j - k + 1]) ELSE uniforms[class][j].value
    /\ \A j \in DOMAIN uniforms[class] : j \notin k..(k + Len(given) - 1) => u[class][j] = uniforms[class][j]

LEMMA WrittenFacts ==
  ASSUME uniforms \in Tables, NEW class \in Classes, NEW k \in Nat, NEW given \in Seq(Int)
  PROVE  WritesAt(class, k, given, Written(class, k, given))
<1> DEFINE table == uniforms[class]
<1> DEFINE n == Len(table)
<1> DEFINE entry(j) == IF j \in k..(k + Len(given) - 1)
                       THEN [table[j] EXCEPT !.value = Stored(class, given[j - k + 1])] ELSE table[j]
<1> DEFINE new == [j \in DOMAIN table |-> entry(j)]
<1>1. table \in Seq(Entry) /\ n \in Nat /\ DOMAIN table = 1..n BY DEF Tables
<1>2. \A j \in DOMAIN table : table[j] \in Entry BY <1>1
<1>3. Written(class, k, given) = [uniforms EXCEPT ![class] = new] BY DEF Tables, Written
<1> HIDE DEF table, n
<1>4. ASSUME NEW j \in DOMAIN table, j \in k..(k + Len(given) - 1)
      PROVE  Stored(class, given[j - k + 1]) \in Int
  <2>1. j \in Int /\ Len(given) \in Nat BY <1>1
  <2>2. j - k + 1 \in 1..Len(given) BY <1>4, <2>1
  <2>3. given[j - k + 1] \in Int BY <2>2
  <2> QED BY <2>3 DEF Stored
<1>5. ASSUME NEW j \in DOMAIN table
      PROVE  /\ entry(j) \in Entry /\ entry(j).name = table[j].name /\ entry(j).target = table[j].target
             /\ entry(j).value = IF j \in k..(k + Len(given) - 1)
                                 THEN Stored(class, given[j - k + 1]) ELSE table[j].value
             /\ j \notin k..(k + Len(given) - 1) => entry(j) = table[j]
  <2>1. CASE j \in k..(k + Len(given) - 1)
    <3> DEFINE x == Stored(class, given[j - k + 1])
    <3>1. entry(j) = [table[j] EXCEPT !.value = x] /\ x \in Int BY <1>4, <2>1
    <3>2. table[j] \in Entry BY <1>2
    <3> HIDE DEF x, entry
    <3>3. /\ entry(j) \in Entry /\ entry(j).name = table[j].name /\ entry(j).target = table[j].target
          /\ entry(j).value = x
      BY <3>1, <3>2 DEF Entry
    <3> QED BY <2>1, <3>3 DEF x
  <2>2. CASE j \notin k..(k + Len(given) - 1)
    <3>1. entry(j) = table[j] BY <2>2
    <3> HIDE DEF entry
    <3> QED BY <1>2, <2>2, <3>1
  <2> QED BY <2>1, <2>2
<1> HIDE DEF entry
<1>6. new \in Seq(Entry) /\ Len(new) = n /\ DOMAIN new = DOMAIN table
  <2>1. new \in [1..n -> Entry] BY <1>1, <1>5
  <2> HIDE DEF new
  <2> QED BY <1>1, <2>1
<1>7. \A j \in DOMAIN table : new[j] = entry(j) OBVIOUS
<1> HIDE DEF new
<1> DEFINE u == Written(class, k, given)
<1>8. u \in Tables /\ u[class] = new /\ \A c \in Classes \ {class} : u[c] = uniforms[c]
  BY <1>3, <1>6 DEF Tables
<1> HIDE DEF u
<1>9. SameShape(uniforms, u)
  <2> SUFFICES ASSUME NEW c \in Classes
               PROVE  /\ DOMAIN u[c] = DOMAIN uniforms[c] /\ Len(u[c]) = Len(uniforms[c])
                      /\ \A p \in DOMAIN uniforms[c] : /\ u[c][p].name = uniforms[c][p].name
                                                       /\ u[c][p].target = uniforms[c][p].target
    BY DEF SameShape
  <2>1. CASE c = class
    <3>1. u[c] = new BY <1>8, <2>1
    <3>2. uniforms[c] = table BY <2>1 DEF table
    <3>3. Len(new) = Len(table) BY <1>6 DEF n
    <3> QED BY <1>5, <1>6, <1>7, <3>1, <3>2, <3>3
  <2>2. CASE c # class BY <1>8, <2>2
  <2> QED BY <2>1, <2>2
<1>10. \A j \in DOMAIN uniforms[class] :
          /\ u[class][j].value = IF j \in k..(k + Len(given) - 1)
                                 THEN Stored(class, given[j - k + 1]) ELSE uniforms[class][j].value
          /\ j \notin k..(k + Len(given) - 1) => u[class][j] = uniforms[class][j]
  BY <1>5, <1>7, <1>8 DEF table
<1> QED BY <1>8, <1>9, <1>10 DEF WritesAt, u

(* What a setter wrote and puts back.                                       *)
LEMMA RolledBackAll ==
  ASSUME uniforms \in Tables, NEW class \in Classes, NEW k \in Nat, NEW given \in Seq(Int)
  PROVE  RolledBack(Written(class, k, given), class, k, Len(given)) = uniforms
<1> DEFINE w == Written(class, k, given)
<1> DEFINE back(j) == IF j \in k..(k + Len(given) - 1)
                      THEN [w[class][j] EXCEPT !.value = uniforms[class][j].value] ELSE w[class][j]
<1> DEFINE new == [j \in DOMAIN w[class] |-> back(j)]
<1>1. WritesAt(class, k, given, w) BY WrittenFacts
<1>2. w \in Tables /\ SameShape(uniforms, w) /\ \A c \in Classes \ {class} : w[c] = uniforms[c]
  BY <1>1 DEF WritesAt
<1>3. \A j \in DOMAIN uniforms[class] : j \notin k..(k + Len(given) - 1) => w[class][j] = uniforms[class][j]
  BY <1>1 DEF WritesAt
<1>4. RolledBack(w, class, k, Len(given)) = [w EXCEPT ![class] = new] BY DEF RolledBack
<1> HIDE DEF w
<1>5. DOMAIN w[class] = DOMAIN uniforms[class] BY <1>2 DEF SameShape
<1>6. ASSUME NEW j \in DOMAIN uniforms[class] PROVE back(j) = uniforms[class][j]
  <2>1. uniforms[class][j] \in Entry /\ w[class][j] \in Entry BY <1>2, <1>5, <1>6 DEF Tables
  <2>2. w[class][j].name = uniforms[class][j].name /\ w[class][j].target = uniforms[class][j].target
    BY <1>2 DEF SameShape
  <2>3. [w[class][j] EXCEPT !.value = uniforms[class][j].value] = uniforms[class][j]
    BY <2>1, <2>2 DEF Entry
  <2> QED BY <1>3, <2>3
<1> HIDE DEF back
<1>7. new = uniforms[class]
  <2>1. uniforms[class] = [j \in DOMAIN uniforms[class] |-> uniforms[class][j]] BY DEF Tables
  <2> QED BY <1>5, <1>6, <2>1
<1> HIDE DEF new
<1>8. [w EXCEPT ![class] = new] = uniforms BY <1>2, <1>7 DEF Tables
<1> QED BY <1>4, <1>8 DEF w

LEMMA SameShapeKeeps ==
  ASSUME NEW t, NEW u, SameShape(t, u)
  PROVE  /\ NamesApart(t) => NamesApart(u)
         /\ \A s : SameShape(s, t) => SameShape(s, u)
<1>1. NamesApart(t) => NamesApart(u) BY DEF NamesApart, SameShape
<1>2. ASSUME NEW s, SameShape(s, t) PROVE SameShape(s, u) BY <1>2 DEF SameShape
<1> QED BY <1>1, <1>2

(* A setter keeps the shape of the tables; values are another matter.       *)
LEMMA SetStep ==
  ASSUME InterfaceInv, SameShape(uniforms, uniforms'), uniforms' \in Tables, ValuesReach',
         UNCHANGED <<interface, bindings, outcome, locations, ranges>>, last'.call = "SET"
  PROVE  InterfaceInv'
<1>1. NamesApart(uniforms') BY SameShapeKeeps DEF InterfaceInv
<1>2. BindingsFine' /\ WellFormed(interface') BY DEF InterfaceInv, BindingsFine
<1>3. Placements => Placements' BY DEF Placements
<1>4. outcome' = "LINKED" => LinkedAs(interface', uniforms') /\ Placements'
  BY <1>3, SameShapeKeeps DEF InterfaceInv, LinkedAs
<1>5. LinkReported' BY DEF LinkReported
<1> QED BY <1>1, <1>2, <1>4, <1>5 DEF InterfaceInv

(* An entry that a setter finds.                                            *)
LEMMA EntryOf ==
  ASSUME NEW family \in Families, NEW location, NEW e \in EntryAt(family, location)
  PROVE  e[1] \in Classes /\ e[2] \in DOMAIN uniforms[e[1]] /\ e[2] \in Nat
<1>1. e \in family \X (1..Capacity) /\ e[2] \in DOMAIN uniforms[e[1]] BY DEF EntryAt
<1>2. Capacity \in Nat BY InterfacesAssumption
<1> QED BY <1>1, <1>2, FamiliesFacts

LEMMA FailedSetKeeps ==
  ASSUME InterfaceInv, NEW family \in Families, NEW location, NEW given \in Givens,
         SetNumericFails(EntryAt(family, location), given)
  PROVE  UNCHANGED <<interface, bindings, outcome, uniforms, locations, ranges, built>>
<1>1. PICK e \in EntryAt(family, location) :
         uniforms' = RolledBack(Written(e[1], e[2], given), e[1], e[2], Len(given))
  BY DEF SetNumericFails
<1>2. e[1] \in Classes /\ e[2] \in Nat /\ given \in Seq(Int) /\ uniforms \in Tables
  BY EntryOf, InterfacesAssumption DEF InterfaceInv
<1>3. uniforms' = uniforms BY <1>1, <1>2, RolledBackAll
<1> QED BY <1>3 DEF SetNumericFails

LEMMA SamplersStep ==
  ASSUME InterfaceInv, NEW family \in Families, NEW location, NEW given \in Givens,
         SetSamplers(EntryAt(family, location), given)
  PROVE  InterfaceInv'
<1>1. PICK e \in EntryAt(family, location) :
         /\ e[1] = "sampler" /\ Writes(e, given)
         /\ uniforms' = Written("sampler", e[2], given)
         /\ Reply("SET", "NONE", {"BINDINGS"})
         /\ UNCHANGED <<interface, bindings, outcome, locations, ranges, built>>
  BY DEF SetSamplers
<1>2. e[1] \in Classes /\ e[2] \in Nat /\ given \in Seq(Int) /\ uniforms \in Tables
  BY EntryOf, InterfacesAssumption DEF InterfaceInv
<1>3. "sampler" \in Classes BY <1>1, <1>2
<1>4. WritesAt("sampler", e[2], given, uniforms') BY <1>1, <1>2, <1>3, WrittenFacts
<1>5. ValuesReach'
  <2> SUFFICES ASSUME NEW c \in Classes, NEW p \in DOMAIN uniforms'[c]
               PROVE  IF c = "sampler" THEN uniforms'[c][p].value \in 0..(TextureUnits - 1)
                      ELSE \A s \in Stages : uniforms'[c][p].name \in Numerics(interface'[s])
                              => built'[s][uniforms'[c][p].name] = uniforms'[c][p].value
    BY DEF ValuesReach, ToSet
  <2>1. p \in DOMAIN uniforms[c] BY <1>4 DEF WritesAt, SameShape
  <2>2. uniforms[c][p] \in ToSet(uniforms[c]) BY <2>1 DEF ToSet
  <2>3. CASE c # "sampler"
    <3>1. uniforms'[c] = uniforms[c] BY <1>4, <2>3 DEF WritesAt
    <3> QED BY <1>1, <2>2, <2>3, <3>1 DEF InterfaceInv, ValuesReach
  <2>4. CASE c = "sampler"
    <3> DEFINE k == e[2]
    <3> HIDE DEF k
    <3>0. k \in Nat /\ WritesAt("sampler", k, given, uniforms') BY <1>2, <1>4 DEF k
    <3>1. CASE p \in k..(k + Len(given) - 1)
      <4>1. uniforms'[c][p].value = Stored("sampler", given[p - k + 1])
        BY <2>1, <2>4, <3>0, <3>1 DEF WritesAt
      <4>2. p - k + 1 \in 1..Len(given)
        <5>1. Len(given) \in Nat BY <1>2
        <5> QED BY <3>0, <3>1, <5>1
      <4>3. given[p - k + 1] \in ToSet(given)
        <5>1. DOMAIN given = 1..Len(given) BY <1>2
        <5> QED BY <4>2, <5>1 DEF ToSet
      <4>4. ~ OutsideUnits("sampler", given) BY <1>1 DEF Writes
      <4>5. given[p - k + 1] \in 0..(TextureUnits - 1) BY <4>3, <4>4 DEF OutsideUnits
      <4>6. Stored("sampler", given[p - k + 1]) = given[p - k + 1] BY DEF Stored, Booleans
      <4> QED BY <2>4, <4>1, <4>5, <4>6
    <3>2. CASE p \notin k..(k + Len(given) - 1)
      <4>1. uniforms'[c][p] = uniforms[c][p] BY <2>1, <2>4, <3>0, <3>2 DEF WritesAt
      <4> QED BY <2>2, <2>4, <4>1 DEF InterfaceInv, ValuesReach
    <3> QED BY <3>1, <3>2
  <2> QED BY <2>3, <2>4
<1>6. last'.call = "SET" BY <1>1 DEF Reply
<1>7. SameShape(uniforms, uniforms') /\ uniforms' \in Tables BY <1>4 DEF WritesAt
<1> QED BY <1>1, <1>5, <1>6, <1>7, SetStep

LEMMA NumericStep ==
  ASSUME InterfaceInv, NEW family \in Families, NEW location, NEW given \in Givens,
         SetNumeric(EntryAt(family, location), given)
  PROVE  InterfaceInv'
<1>1. PICK e \in EntryAt(family, location) :
         /\ e[1] # "sampler" /\ Writes(e, given)
         /\ uniforms' = Written(e[1], e[2], given)
         /\ built' = [s \in Stages |-> IF s \in Readers(e[1], e[2], Len(given))
                                       THEN Compile(interface[s], uniforms') ELSE built[s]]
         /\ Reply("SET", "NONE", Everything)
         /\ UNCHANGED <<interface, bindings, outcome, locations, ranges>>
  BY DEF SetNumeric
<1> DEFINE class == e[1]
<1> DEFINE k == e[2]
<1>2. class \in Classes /\ k \in Nat /\ given \in Seq(Int) /\ uniforms \in Tables /\ class # "sampler"
  BY <1>1, EntryOf, InterfacesAssumption DEF InterfaceInv
<1>3. WritesAt(class, k, given, uniforms') BY <1>1, <1>2, WrittenFacts
<1>4. /\ SameShape(uniforms, uniforms') /\ uniforms' \in Tables
      /\ \A c \in Classes \ {class} : uniforms'[c] = uniforms[c]
      /\ \A j \in DOMAIN uniforms[class] :
            j \notin k..(k + Len(given) - 1) => uniforms'[class][j] = uniforms[class][j]
  BY <1>3 DEF WritesAt
<1>5. NamesApart(uniforms') BY <1>4, SameShapeKeeps DEF InterfaceInv
<1>6. \A s \in Stages : built'[s] = IF s \in Readers(class, k, Len(given))
                                    THEN Compile(interface[s], uniforms') ELSE built[s]
  BY <1>1
<1>7. interface' = interface /\ last'.call = "SET" BY <1>1 DEF Reply
<1> HIDE DEF class, k
<1>8. ValuesReach'
  <2> SUFFICES ASSUME NEW c \in Classes, NEW p \in DOMAIN uniforms'[c]
               PROVE  IF c = "sampler" THEN uniforms'[c][p].value \in 0..(TextureUnits - 1)
                      ELSE \A s \in Stages : uniforms'[c][p].name \in Numerics(interface[s])
                              => built'[s][uniforms'[c][p].name] = uniforms'[c][p].value
    BY <1>7 DEF ValuesReach, ToSet
  <2>1. p \in DOMAIN uniforms[c] /\ uniforms'[c][p].name = uniforms[c][p].name
    BY <1>4 DEF SameShape
  <2>2. uniforms[c][p] \in ToSet(uniforms[c]) BY <2>1 DEF ToSet
  <2>3. CASE c = "sampler"
    <3>1. uniforms'[c] = uniforms[c] BY <1>2, <1>4, <2>3
    <3> QED BY <2>2, <2>3, <3>1 DEF InterfaceInv, ValuesReach
  <2>4. CASE c # "sampler"
    <3> SUFFICES ASSUME NEW s \in Stages, uniforms'[c][p].name \in Numerics(interface[s])
                 PROVE  built'[s][uniforms'[c][p].name] = uniforms'[c][p].value
      BY <2>4
    <3>1. CASE s \in Readers(class, k, Len(given))
      <4>1. built'[s] = Compile(interface[s], uniforms') BY <1>6, <3>1
      <4>2. Compile(interface[s], uniforms')[uniforms'[c][p].name] = ValueOf(uniforms', uniforms'[c][p].name)
        BY DEF Compile
      <4>3. ValueOf(uniforms', uniforms'[c][p].name) = uniforms'[c][p].value
        BY <1>4, <1>5, ValueOfEntry
      <4> QED BY <4>1, <4>2, <4>3
    <3>2. CASE s \notin Readers(class, k, Len(given))
      <4>1. ~ (c = class /\ p \in k..(k + Len(given) - 1))
        BY <2>1, <3>2 DEF Readers
      <4>2. uniforms'[c][p] = uniforms[c][p] BY <1>4, <2>1, <4>1
      <4>3. built'[s] = built[s] BY <1>6, <3>2
      <4>4. built[s][uniforms[c][p].name] = uniforms[c][p].value
        BY <2>1, <2>2, <2>4 DEF InterfaceInv, ValuesReach
      <4> QED BY <4>2, <4>3, <4>4
    <3> QED BY <3>1, <3>2
  <2> QED BY <2>3, <2>4
<1> QED BY <1>1, <1>4, <1>7, <1>8, SetStep

LEMMA RefusedSetStep ==
  ASSUME InterfaceInv, UNCHANGED <<interface, bindings, outcome, uniforms, locations, ranges, built>>,
         last'.call \in {"SET", "BIND"}
  PROVE  InterfaceInv'
<1>1. BindingsFine' BY DEF InterfaceInv, BindingsFine
<1> QED BY <1>1, QuietStep

LEMMA CallsReplied ==
  /\ \A name, location : BindRefused(name, location) => last'.call = "BIND"
  /\ SetInvalidValue => last'.call = "SET"
  /\ \A location, found, given : SetRefused(location, found, given) => last'.call = "SET"
  /\ \A found, given : SetNumericFails(found, given) => last'.call = "SET"
<1>1. \A call, error, marks : Reply(call, error, marks) => last'.call = call BY DEF Reply
<1>2. ASSUME NEW name, NEW location, BindRefused(name, location) PROVE last'.call = "BIND"
  BY <1>1, <1>2 DEF BindRefused
<1>3. ASSUME SetInvalidValue PROVE last'.call = "SET" BY <1>1, <1>3 DEF SetInvalidValue
<1>4. ASSUME NEW location, NEW found, NEW given, SetRefused(location, found, given)
      PROVE  last'.call = "SET"
  BY <1>1, <1>4 DEF SetRefused
<1>5. ASSUME NEW found, NEW given, SetNumericFails(found, given) PROVE last'.call = "SET"
  BY <1>1, <1>5 DEF SetNumericFails
<1> QED BY <1>2, <1>3, <1>4, <1>5

LEMMA InterfaceStep == InterfaceInv /\ [InterfaceNext]_interfaceVars => InterfaceInv'
<1> SUFFICES ASSUME InterfaceInv, [InterfaceNext]_interfaceVars PROVE InterfaceInv' OBVIOUS
<1>1. ASSUME NEW name \in AttributeNames, NEW location \in 0..MaxAttribs, BindRefused(name, location)
      PROVE  InterfaceInv'
  <2>1. last'.call \in {"SET", "BIND"} BY <1>1, CallsReplied
  <2>2. UNCHANGED <<interface, bindings, outcome, uniforms, locations, ranges, built>>
    BY <1>1 DEF BindRefused
  <2> QED BY <2>1, <2>2, RefusedSetStep
<1>2. ASSUME NEW name \in AttributeNames, NEW location \in 0..MaxAttribs,
             BindAttribLocation(name, location)
      PROVE  InterfaceInv'
  BY <1>2, BindStep
<1>3. ASSUME NEW i \in Offered, LinkRefused(i) PROVE InterfaceInv' BY <1>3, RefusedStep
<1>4. ASSUME NEW i \in Offered, LinkBreaks(i) PROVE InterfaceInv' BY <1>4, BrokenStep
<1>5. ASSUME NEW i \in Offered, LinkSucceeds(i) PROVE InterfaceInv' BY <1>5, LinkedStep
<1>6. ASSUME SetInvalidValue PROVE InterfaceInv'
  <2>1. last'.call \in {"SET", "BIND"} BY <1>6, CallsReplied
  <2>2. UNCHANGED <<interface, bindings, outcome, uniforms, locations, ranges, built>>
    BY <1>6 DEF SetInvalidValue
  <2> QED BY <2>1, <2>2, RefusedSetStep
<1>7. ASSUME NEW location, NEW family \in Families, NEW given \in Givens,
             Set(location, EntryAt(family, location), given)
      PROVE  InterfaceInv'
  <2> DEFINE found == EntryAt(family, location)
  <2>1. CASE SetRefused(location, found, given)
    <3>1. last'.call \in {"SET", "BIND"} BY <2>1, CallsReplied
    <3>2. UNCHANGED <<interface, bindings, outcome, uniforms, locations, ranges, built>>
      BY <2>1 DEF SetRefused
    <3> QED BY <3>1, <3>2, RefusedSetStep
  <2>2. CASE SetSamplers(found, given) BY <2>2, SamplersStep
  <2>3. CASE SetNumeric(found, given) BY <2>3, NumericStep
  <2>4. CASE SetNumericFails(found, given)
    <3>1. last'.call \in {"SET", "BIND"} BY <2>4, CallsReplied
    <3>2. UNCHANGED <<interface, bindings, outcome, uniforms, locations, ranges, built>>
      BY <1>7, <2>4, FailedSetKeeps
    <3> QED BY <3>1, <3>2, RefusedSetStep
  <2> QED BY <1>7, <2>1, <2>2, <2>3, <2>4 DEF Set
<1>8. ASSUME UNCHANGED interfaceVars PROVE InterfaceInv'
  <2>1. UNCHANGED <<interface, bindings, outcome, uniforms, locations, ranges, built, last>>
    BY <1>8 DEF interfaceVars
  <2>2. BindingsFine' /\ WellFormed(interface') /\ uniforms' \in Tables /\ NamesApart(uniforms')
    BY <2>1 DEF InterfaceInv, BindingsFine
  <2>3. ValuesReach' BY <2>1 DEF InterfaceInv, ValuesReach
  <2>4. Placements => Placements' BY <2>1 DEF Placements
  <2>5. outcome' = "LINKED" => LinkedAs(interface', uniforms') /\ Placements'
    BY <2>1, <2>4 DEF InterfaceInv
  <2>6. BoundAttributes => BoundAttributes' BY <2>1 DEF BoundAttributes, Bound
  <2>7. Compatible(interface)' => Compatible(interface) BY <2>1 DEF Compatible
  <2>8. LinkReported' BY <2>1, <2>6, <2>7 DEF InterfaceInv, LinkReported
  <2> QED BY <2>2, <2>3, <2>5, <2>8 DEF InterfaceInv
<1> QED BY <1>1, <1>2, <1>3, <1>4, <1>5, <1>6, <1>7, <1>8 DEF InterfaceNext

(* The inductive invariant of linking, locations and setters holds in every *)
(* reachable state: tables are what the link collected, values apart.       *)
THEOREM InterfaceInvHolds == InterfaceSpec => []InterfaceInv
<1> QED BY InitInterface, InterfaceStep, PTL DEF InterfaceSpec

(* What the application is told about a linked program is what its shaders  *)
(* declare, for every program, every size of the tables and every sequence  *)
(* of bindings, links and setters; and no link is refused that need not be. *)
THEOREM InterfaceAsDeclaredHolds == InterfaceSpec => []InterfaceAsDeclared
<1> QED BY InterfaceInvHolds, InterfaceInvSays, PTL

-----------------------------------------------------------------------------
(* Setters write one uniform.                                               *)

OneUniform ==
    \A c, d \in Classes : \A j \in DOMAIN uniforms[c], k \in DOMAIN uniforms[d] :
        uniforms'[c][j] # uniforms[c][j] /\ uniforms'[d][k] # uniforms[d][k] =>
            /\ c = d /\ uniforms[c][j].name[1] = uniforms[d][k].name[1]
            /\ last'.error = "NONE" /\ "BINDINGS" \in last'.marks
            /\ c # "sampler" => "PIPELINE" \in last'.marks

LEMMA WritesOne ==
  ASSUME InterfaceInv, NEW family \in Families, NEW location, NEW e \in EntryAt(family, location),
         NEW given \in Givens, Writes(e, given), uniforms' = Written(e[1], e[2], given),
         last'.error = "NONE", "BINDINGS" \in last'.marks,
         e[1] # "sampler" => "PIPELINE" \in last'.marks
  PROVE  OneUniform
<1> DEFINE class == e[1]
<1> DEFINE k == e[2]
<1>1. class \in Classes /\ k \in Nat /\ given \in Seq(Int) /\ uniforms \in Tables
  BY EntryOf, InterfacesAssumption DEF InterfaceInv
<1>2. WritesAt(class, k, given, uniforms') BY <1>1, WrittenFacts
<1>3. RangeValid(uniforms[class], k, Len(given)) BY DEF Writes
<1>4. Len(given) \in Nat BY <1>1
<1>5. class # "sampler" => "PIPELINE" \in last'.marks OBVIOUS
<1> HIDE DEF class, k
<1>6. ASSUME NEW c \in Classes, NEW j \in DOMAIN uniforms[c], uniforms'[c][j] # uniforms[c][j]
      PROVE  c = class /\ j \in k..(k + Len(given) - 1)
  <2>1. c = class BY <1>2, <1>6 DEF WritesAt
  <2> QED BY <1>2, <1>6, <2>1 DEF WritesAt
<1>7. ASSUME NEW i \in k..(k + Len(given) - 1), NEW j \in k..(k + Len(given) - 1)
      PROVE  uniforms[class][i].name[1] = uniforms[class][j].name[1]
  <2>1. CASE Len(given) = 1
    <3>1. i = k /\ j = k BY <1>1, <2>1
    <3> QED BY <3>1
  <2>2. CASE \A o \in 0..(Len(given) - 1) :
                uniforms[class][k + o].name = <<uniforms[class][k].name[1], uniforms[class][k].name[2] + o>>
    <3>1. ASSUME NEW m \in k..(k + Len(given) - 1)
          PROVE  uniforms[class][m].name[1] = uniforms[class][k].name[1]
      <4>1. m - k \in 0..(Len(given) - 1) /\ k + (m - k) = m BY <1>1, <1>4
      <4>2. uniforms[class][m].name = <<uniforms[class][k].name[1], uniforms[class][k].name[2] + (m - k)>>
        BY <2>2, <4>1
      <4> QED BY <4>2
    <3> QED BY <3>1
  <2> QED BY <1>3, <2>1, <2>2 DEF RangeValid
<1> SUFFICES ASSUME NEW c \in Classes, NEW d \in Classes,
                    NEW i \in DOMAIN uniforms[c], NEW j \in DOMAIN uniforms[d],
                    uniforms'[c][i] # uniforms[c][i], uniforms'[d][j] # uniforms[d][j]
             PROVE  /\ c = d /\ uniforms[c][i].name[1] = uniforms[d][j].name[1]
                    /\ c # "sampler" => "PIPELINE" \in last'.marks
  BY DEF OneUniform
<1>8. c = class /\ d = class /\ i \in k..(k + Len(given) - 1) /\ j \in k..(k + Len(given) - 1)
  BY <1>6
<1> QED BY <1>5, <1>7, <1>8

LEMMA SetWritesOne ==
  ASSUME InterfaceInv, [InterfaceNext]_interfaceVars, uniforms' # uniforms, last'.call = "SET"
  PROVE  OneUniform
<1>1. ASSUME NEW location, NEW family \in Families, NEW given \in Givens,
             SetSamplers(EntryAt(family, location), given)
      PROVE  OneUniform
  <2>1. PICK e \in EntryAt(family, location) :
           /\ e[1] = "sampler" /\ Writes(e, given)
           /\ uniforms' = Written("sampler", e[2], given)
           /\ Reply("SET", "NONE", {"BINDINGS"})
    BY <1>1 DEF SetSamplers
  <2>2. last'.error = "NONE" /\ "BINDINGS" \in last'.marks BY <2>1 DEF Reply
  <2> QED BY <2>1, <2>2, WritesOne
<1>2. ASSUME NEW location, NEW family \in Families, NEW given \in Givens,
             SetNumeric(EntryAt(family, location), given)
      PROVE  OneUniform
  <2>1. PICK e \in EntryAt(family, location) :
           /\ e[1] # "sampler" /\ Writes(e, given)
           /\ uniforms' = Written(e[1], e[2], given)
           /\ Reply("SET", "NONE", Everything)
    BY <1>2 DEF SetNumeric
  <2>2. last'.error = "NONE" /\ "BINDINGS" \in last'.marks /\ "PIPELINE" \in last'.marks
    BY <2>1 DEF Reply, Everything
  <2> QED BY <2>1, <2>2, WritesOne
<1>3. \A call, error, marks : Reply(call, error, marks) => last'.call = call BY DEF Reply
<1>4. ASSUME NEW i \in Offered, LinkRefused(i) \/ LinkBreaks(i) \/ LinkSucceeds(i) PROVE FALSE
  <2>1. last'.call = "LINK" BY <1>3, <1>4 DEF LinkRefused, LinkBreaks, LinkSucceeds
  <2> QED BY <2>1
<1>5. ASSUME NEW name, NEW location, BindRefused(name, location) \/ BindAttribLocation(name, location)
      PROVE  FALSE
  BY <1>5 DEF BindRefused, BindAttribLocation
<1>6. ~ SetInvalidValue BY DEF SetInvalidValue
<1>7. ASSUME NEW location, NEW family \in Families, NEW given \in Givens,
             \/ SetRefused(location, EntryAt(family, location), given)
             \/ SetNumericFails(EntryAt(family, location), given)
      PROVE  FALSE
  BY <1>7, FailedSetKeeps DEF SetRefused
<1>8. ~ UNCHANGED interfaceVars BY DEF interfaceVars
<1> QED BY <1>1, <1>2, <1>4, <1>5, <1>6, <1>7, <1>8 DEF InterfaceNext, Set

(* A setter writes elements of one uniform, marks what the next draw has to *)
(* bind anew, and leaves both stages with the values there are, or nothing  *)
(* at all changes.                                                          *)
THEOREM UpdatesWholeHolds == InterfaceSpec => UpdatesWhole
<1>1. InterfaceInv /\ InterfaceInv' /\ [InterfaceNext]_interfaceVars =>
         [/\ uniforms' # uniforms \/ built' # built => ValuesReach'
          /\ uniforms' # uniforms /\ last'.call = "SET" => OneUniform]_interfaceVars
  <2>1. InterfaceInv' => ValuesReach' BY DEF InterfaceInv
  <2> QED BY <2>1, SetWritesOne
<1>2. InterfaceSpec =>
         [][/\ uniforms' # uniforms \/ built' # built => ValuesReach'
            /\ uniforms' # uniforms /\ last'.call = "SET" => OneUniform]_interfaceVars
  BY <1>1, InterfaceInvHolds, PTL DEF InterfaceSpec
<1> QED BY <1>2 DEF UpdatesWhole, OneUniform
=============================================================================
