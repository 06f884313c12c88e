---------------------------- MODULE ShellCommands ----------------------------
(***************************************************************************)
(* How shell.Run makes a command of a script: the interpreter its shebang  *)
(* names (shell/interpreter.go), the runtimes installed for it             *)
(* (shell/deps_setup.go) and the environment it runs in (shell.go).        *)
(*                                                                         *)
(* A program is written [dir, base], with the directory "" when only a     *)
(* name is given.  A script has the words of its shebang, or says that it  *)
(* has none, and whether another line is left.  An environment is a        *)
(* sequence of <<name, value>> in which the value of PATH is a sequence of *)
(* directories and any other value a text.  The disk is the set of the     *)
(* executables there are, as <<directory, base>>.                          *)
(***************************************************************************)
EXTENDS Integers, Sequences, FiniteSets, SequencesExt

Program(base) == [dir |-> "", base |-> base]
NoProgram == Program("")
Failed == [err |-> TRUE]

-----------------------------------------------------------------------------
(* interpreter.go.                                                         *)

\* detectDefaultInterpreter, with the path of the process itself
DetectDefaultInterpreter(disk, path) ==
  LET Found(base) == \E i \in DOMAIN path : <<path[i], base>> \in disk IN
  IF Found("bash") THEN <<Program("bash"), <<"-c">> >> ELSE IF Found("sh") THEN <<Program("sh"), <<"-c">> >> ELSE <<NoProgram, << >> >>

\* What a shebang's arguments are completed with, unless they have it.
Flags(base, args) ==
  CASE base \in {"python", "python3"} -> <<"-c">>
    [] base = "node" -> <<"-e">>
    [] base = "bun" -> <<"-i", "-e">>
    [] base \in {"pwsh", "powershell"} -> << >>
    [] OTHER -> IF args = << >> THEN <<"-c">> ELSE << >>

\* detectInterpreterFromShebang
DetectInterpreterFromShebang(script, default) ==
  LET words == IF script.words # << >> /\ script.words[1].base = "env" /\ Len(script.words) > 1 THEN Tail(script.words) ELSE script.words
      args == [i \in 1 .. Len(words) - 1 |-> words[i + 1].base] IN
  IF ~script.shebang THEN default
  ELSE IF words = << >> THEN <<NoProgram, << >> >>
  ELSE <<words[1], args \o SelectSeq(Flags(words[1].base, args), LAMBDA f : ~Contains(args, f))>>

IsPythonBase(program) == program.base \in {"python", "python3"}
IsPowershellBase(program) == program.base \in {"pwsh", "powershell"}
\* strings.Contains(interpreter, "python") and "bun": of the names used here.
NamesPython(program) == program.base \in {"python", "python3", "python3.11"}
NamesBun(program) == program.base = "bun"

\* remapInterpreter: Python runs by uv, which is told the version that is set up.
RemapInterpreter(detected, setup) ==
  LET version == IF "python" \in DOMAIN setup THEN setup["python"] ELSE "" IN
  IF ~IsPythonBase(detected[1]) THEN detected
  ELSE <<Program("uv"), <<"run", "--quiet">> \o IF version \in {"", "latest"} THEN << >> ELSE <<"--python", version>> >>

-----------------------------------------------------------------------------
(* The environment.                                                        *)

IsPath(variable) == variable[1] = "PATH"
\* getEnvVar: the variables of the user, then the allowed ones of the host.
GetEnvVar(user, host, allowed) == user \o SelectSeq(host, LAMBDA v : v[1] \in allowed)
\* os/exec: of several variables with one name a process sees the last.  (external)
Seen(envs, name) ==
  LET named == SelectSeq(envs, LAMBDA v : v[1] = name) IN IF named = << >> THEN << >> ELSE named[Len(named)][2]

\* pluckPathEnv
PluckPathEnv(envs) == LET paths == SelectSeq(envs, IsPath) IN IF paths = << >> THEN << >> ELSE paths[1][2]
\* Variant: the runtimes are looked for after everything else.
PathWithBinDirsLast(envs, binDirs) ==
  LET path == <<"PATH", PluckPathEnv(envs) \o binDirs>>
      at == SelectInSeq(envs, IsPath) IN
  IF binDirs = << >> THEN envs ELSE IF at = 0 THEN Append(envs, path) ELSE [envs EXCEPT ![at] = path]
\* pathEnvWithBinDirs
PathEnvWithBinDirs(envs, binDirs) ==
  LET path == <<"PATH", binDirs \o PluckPathEnv(envs)>>
      at == SelectInSeq(envs, IsPath) IN
  IF binDirs = << >> THEN envs ELSE IF at = 0 THEN Append(envs, path) ELSE [envs EXCEPT ![at] = path]

-----------------------------------------------------------------------------
(* deps_setup.go.  A setup maps the runtimes that are asked for to their   *)
(* versions.                                                               *)

\* installRuntime: the directory of a runtime, which the download fills.
BinDir(name, version) == <<name, version, "bin">>
Binaries(name) == CASE name = "bun" -> {"bun"} [] name = "uv" -> {"uv"} [] name = "powershell" -> {"pwsh"} [] OTHER -> {"node", "npm", "npx"}

\* installSetupRuntimes: uv and a runtime without a version are the latest ones.  A
\* download is one of the names in broken, and fails; or in present, which the host has
\* and the directory of the runtime is left empty.
Runtimes == <<<<"bun", "bun">>, <<"python", "uv">>, <<"powershell", "powershell">>>>
InstallSetupRuntimes(setup, disk, broken, present) ==
  LET asked == SelectSeq(Runtimes, LAMBDA r : r[1] \in DOMAIN setup)
      Version(r) == IF r[2] = "uv" \/ setup[r[1]] = "" THEN "any" ELSE setup[r[1]]
      dirs == [i \in DOMAIN asked |-> BinDir(asked[i][2], Version(asked[i]))]
      files == UNION {IF asked[i][2] \in present THEN {} ELSE {<<dirs[i], b>> : b \in Binaries(asked[i][2])} : i \in DOMAIN asked} IN
  IF \E i \in DOMAIN asked : asked[i][2] \in broken THEN Failed
  ELSE [err |-> FALSE, binDirs |-> dirs, extraEnv |-> << >>, disk |-> disk \union files]

\* installPlaywrightRuntime: npm and npx of the runtime or, where it has none, of the
\* host; the modules are installed beside them.
InstallPlaywrightRuntime(version, disk, path, broken, present) ==
  LET node == BinDir("node", "any")
      filled == disk \union IF "node" \in present THEN {} ELSE {<<node, b>> : b \in Binaries("node")}
      hosts == SelectSeq(path, LAMBDA d : <<d, "npm">> \in filled)
      npm == IF <<node, "npm">> \in filled THEN <<node>> ELSE hosts
      modules == <<"playwright", IF version = "" THEN "latest" ELSE version, "node_modules">> IN
  IF "node" \in broken \/ npm = << >> THEN Failed
  ELSE IF <<npm[1], "npx">> \notin filled /\ ~\E i \in DOMAIN path : <<path[i], "npx">> \in filled THEN Failed
  ELSE IF "playwright" \in broken THEN Failed
  ELSE [err |-> FALSE, binDirs |-> <<npm[1], Append(modules, ".bin")>>,
        extraEnv |-> <<<<"NODE_PATH", modules>>, <<"PLAYWRIGHT_BROWSERS_PATH", modules>>>>, disk |-> filled]

\* applySetupRuntimeEnv: path is that of the process.
ApplySetupRuntimeEnv(setup, envs, disk, path, broken, present) ==
  LET own == InstallSetupRuntimes(setup, disk, broken, present)
      more == IF "playwright" \in DOMAIN setup
              THEN InstallPlaywrightRuntime(setup["playwright"], own.disk, path, broken, present)
              ELSE [err |-> FALSE, binDirs |-> << >>, extraEnv |-> << >>, disk |-> own.disk] IN
  IF own.err THEN Failed ELSE IF more.err THEN Failed
  ELSE [err |-> FALSE, envs |-> PathEnvWithBinDirs(envs, own.binDirs \o more.binDirs) \o more.extraEnv, disk |-> more.disk]

\* Run: a setup that is not given is inferred from the shebang.
InferredSetup(program) ==
  LET runtimes == {r \in {"python", "bun", "powershell"} :
                     \/ r = "python" /\ NamesPython(program)
                     \/ r = "bun" /\ NamesBun(program)
                     \/ r = "powershell" /\ IsPowershellBase(program)} IN
  [r \in runtimes |-> "any"]

-----------------------------------------------------------------------------
(* The command.                                                            *)

\* resolveInterpreterPath: the first executable of the path of the command or, when that
\* is empty, of the process.
ResolveInterpreterPath(program, envs, disk, path) ==
  LET dirs == IF PluckPathEnv(envs) = << >> THEN path ELSE PluckPathEnv(envs)
      having == SelectSeq(dirs, LAMBDA d : <<d, program.base>> \in disk) IN
  IF program = NoProgram THEN Failed
  ELSE IF program.dir # "" THEN [err |-> FALSE, file |-> <<<<program.dir>>, program.base>>]
  ELSE IF having = << >> THEN Failed
  ELSE [err |-> FALSE, file |-> <<having[1], program.base>>]

\* createCommandFromScript: the scripts of Python and PowerShell are written to a file.
CreateCommandFromScript(script, detected, setup, envs, disk, path) ==
  LET command == IF IsPowershellBase(detected[1]) THEN <<Program("pwsh"), <<"-NoProfile", "-NonInteractive", "-ExecutionPolicy", "Bypass", "-File">> >>
                 ELSE RemapInterpreter(detected, setup)
      resolved == ResolveInterpreterPath(command[1], envs, disk, path) IN
  IF script.empty \/ resolved.err THEN Failed
  ELSE [err |-> FALSE, file |-> resolved.file, envs |-> envs,
        args |-> Append(command[2], IF IsPythonBase(detected[1]) THEN "script.py" ELSE IF IsPowershellBase(detected[1]) THEN "script.ps1" ELSE "script")]

\* Run, for a host with variables, a path, a default interpreter and executables, and
\* exec with a script, the variables of the user and a setup if given.
Run(exec, host) ==
  LET envs == GetEnvVar(exec.env, Append(host.env, <<"PATH", host.path>>), host.allowed)
      default == DetectDefaultInterpreter(host.disk, host.path)
      detected == DetectInterpreterFromShebang(exec.script, default)
      setup == IF exec.given THEN exec.setup ELSE InferredSetup(detected[1])
      ready == ApplySetupRuntimeEnv(setup, envs, host.disk, host.path, host.broken, host.present) IN
  IF ready.err THEN Failed
  ELSE CreateCommandFromScript(exec.script, detected, IF exec.given THEN setup ELSE [r \in {} |-> ""], ready.envs, ready.disk, host.path)

-----------------------------------------------------------------------------
(* Properties.                                                             *)

\* What is run for a script without a path of its own is the runtime that was set up for
\* it, if that was downloaded, whatever else the host or the path of the user offers: Run
\* finalizes PATH before it resolves the interpreter.
RunsOwnRuntime(exec, host) ==
  LET default == DetectDefaultInterpreter(host.disk, host.path)
      program == DetectInterpreterFromShebang(exec.script, default)[1]
      setup == IF exec.given THEN exec.setup ELSE InferredSetup(program)
      Uses(runtime, name) == runtime \in DOMAIN setup /\ name \notin host.present
      run == Run(exec, host) IN
  ~run.err =>
    /\ IsPythonBase(program) /\ Uses("python", "uv") => run.file = <<BinDir("uv", "any"), "uv">>
    /\ IsPowershellBase(program) /\ Uses("powershell", "powershell") => run.file[2] = "pwsh" /\ run.file[1][1] = "powershell"
    /\ program = Program("bun") /\ Uses("bun", "bun") => run.file[2] = "bun" /\ run.file[1][1] = "bun"
    /\ program = Program("node") /\ Uses("playwright", "node") /\ exec.given => run.file = <<BinDir("node", "any"), "node">>
=============================================================================
