------------------------------ MODULE NodeStart ------------------------------
(***************************************************************************)
(* How a node starts: the order of main(), and the file with the key pair   *)
(* that is read for the p2p network and, on the first node, once more for   *)
(* the genesis block.  The key pair is the node's identity: its peer id is  *)
(* what other nodes authorize.  The process may end at any point, also      *)
(* while it writes the file.                                                *)
(***************************************************************************)
EXTENDS Integers

CONSTANTS
  FirstNode,  \* --init-blockchain
  MaxKeys,    \* the key pairs generated in a behaviour
  Faults      \* "read", "write": an error on the file; "setup": a service cannot
              \* be set up; "crash": the process is killed

\* What the proofs assume of the constants.
Bounded == MaxKeys \in Nat \ {0} /\ FirstNode \in BOOLEAN

VARIABLES
  file,      \* Absent, Torn (not 64 bytes), or the key pair
  stage,     \* how far main() has come
  key,       \* the key pair load_or_generate_ed25519 is about to return
  peerKey,   \* the identity on the p2p network
  genesis,   \* the key pair that signed the genesis block on disk
  fresh,     \* key pairs generated so far
  past       \* the identities other nodes have seen

vars == <<file, stage, key, peerKey, genesis, fresh, past>>

Absent == -1
Torn == 0

Init ==
  /\ file = Absent /\ stage = "down"
  /\ key = Absent /\ peerKey = Absent /\ genesis = Absent
  /\ fresh = 0 /\ past = {}

-----------------------------------------------------------------------------
(* load_or_generate_ed25519: from stage s to stage s', by way of saving     *)

\* load_ed25519: there is a file of exactly 64 bytes.
Load(s, loaded) ==
  /\ stage = s
  /\ file > Torn
  /\ key' = file
  /\ stage' = loaded
  /\ UNCHANGED <<file, peerKey, genesis, fresh, past>>

CannotLoad == file \in {Absent, Torn} \/ "read" \in Faults

\* Any error of load_ed25519 leads here.  File::create empties the file.
Generate(s, saving) ==
  /\ stage = s
  /\ CannotLoad
  /\ fresh < MaxKeys
  /\ fresh' = fresh + 1
  /\ key' = fresh + 1
  /\ file' = Torn
  /\ stage' = saving
  /\ UNCHANGED <<peerKey, genesis, past>>

\* save_ed25519; when it fails there is a warning, and the node goes on.
Save(saving, loaded) ==
  /\ stage = saving
  /\ \/ file' = key
     \/ "write" \in Faults /\ UNCHANGED file
  /\ stage' = loaded
  /\ UNCHANGED <<key, peerKey, genesis, fresh, past>>

LoadOrGenerate(s, saving, loaded) ==
  Load(s, loaded) \/ Generate(s, saving) \/ Save(saving, loaded)

-----------------------------------------------------------------------------
(* main()                                                                  *)

GetPeerKey == LoadOrGenerate("down", "saving_peer_key", "create_swarm")

\* setup_libp2p_swarm; the p2p event loop is started.
CreateSwarm ==
  /\ stage = "create_swarm"
  /\ peerKey' = key
  /\ stage' = IF FirstNode THEN "get_chain_key" ELSE "create_services"
  /\ UNCHANGED <<file, key, genesis, fresh, past>>

GetChainKey == LoadOrGenerate("get_chain_key", "saving_chain_key", "create_blockchain")

\* init_first_blockchain_node: a genesis block unless there is one on disk.
CreateBlockchain ==
  /\ stage = "create_blockchain"
  /\ genesis' = IF genesis = Absent THEN key ELSE genesis
  /\ stage' = "create_services"
  /\ UNCHANGED <<file, key, peerKey, fresh, past>>

\* The rest of setup_pyrsia_services, setup_http, the task that connects, and
\* provide_local_artifacts: from then on the node takes part.
CreateServices ==
  /\ stage = "create_services"
  /\ stage' = "listen"
  /\ past' = past \cup {peerKey}
  /\ UNCHANGED <<file, key, peerKey, genesis, fresh>>

\* One of them returns an error, or the process is stopped or killed.
End ==
  /\ \/ stage = "listen"
     \/ stage \in {"create_swarm", "create_blockchain", "create_services"} /\ "setup" \in Faults
     \/ stage # "down" /\ "crash" \in Faults
  /\ stage' = "down"
  /\ key' = Absent /\ peerKey' = Absent
  /\ UNCHANGED <<file, genesis, fresh, past>>

Next ==
  \/ GetPeerKey \/ CreateSwarm \/ GetChainKey \/ CreateBlockchain \/ CreateServices
  \/ End

Spec == Init /\ [][Next]_vars

-----------------------------------------------------------------------------
(* Properties                                                              *)

Keys == 1 .. MaxKeys

TypeOK ==
  /\ file \in {Absent, Torn} \cup Keys
  /\ stage \in {"down", "saving_peer_key", "create_swarm", "get_chain_key", "saving_chain_key",
                "create_blockchain", "create_services", "listen"}
  /\ {key, peerKey, genesis} \subseteq {Absent} \cup Keys
  /\ past \subseteq Keys
  /\ stage \in {"create_services", "listen"} => peerKey \in Keys

\* "If a keypair file does not yet exist, a new keypair is generated": a node that
\* was part of the network has the same peer id whenever it is again.
IdentityKept == \A k \in past : \A j \in past : k = j

\* "the committer node's PeerId": while the first node runs, the genesis block names
\* the peer id it has on the network.
CommitterIsPeer == stage = "listen" /\ genesis # Absent => genesis = peerKey
=============================================================================
